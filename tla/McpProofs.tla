------------------------------ MODULE McpProofs ------------------------------
(***************************************************************************)
(* What the MCP server answers, for inputs of any length in buffers of any    *)
(* size, for any list of models and for any requests.                        *)
(***************************************************************************)
EXTENDS Mcp, WellFoundedInduction, TLAPS

\* A nonempty set of numbers has a least one.
LEMMA LeastOf ==
    ASSUME NEW T, T \subseteq Nat, T # {}
    PROVE  \E x \in T : \A y \in T : x <= y
<1> DEFINE R == OpToRel(<, Nat)
<1>1. IsWellFoundedOn(R, Nat)
  BY NatLessThanWellFounded, Zenon
<1>2. PICK x \in T : \A y \in T : ~(<<y, x>> \in R)
  <2> HIDE DEF R
  <2> QED BY <1>1, WFMin, Zenon
<1>3. ASSUME NEW y \in T PROVE x <= y
  <2>1. ~(y < x)
    BY <1>2, Zenon DEF OpToRel
  <2> QED BY <2>1
<1> QED BY <1>3

\* A set of numbers that has zero and the successor of each has them all.
LEMMA Induction ==
    ASSUME NEW S, 0 \in S, \A n \in Nat : n \in S => n + 1 \in S
    PROVE  Nat \subseteq S
<1> SUFFICES ASSUME Nat \ S # {} PROVE FALSE
  OBVIOUS
<1>1. PICK x \in Nat \ S : \A y \in Nat \ S : x <= y
  BY LeastOf, Zenon
<1>2. x # 0 /\ x - 1 \in Nat /\ (x - 1) + 1 = x
  OBVIOUS
<1>3. x - 1 \in Nat \ S
  BY <1>2
<1> QED BY <1>1, <1>2, <1>3

Steps(S) == [Nat -> [S -> S]]

\* f begins with b and goes on with the steps h.
Iterates(f, S, b, h) ==
    f \in [Nat -> S] /\ f[0] = b /\ \A n \in Nat : f[n + 1] = h[n + 1][f[n]]

\* A value and a step for each number define a sequence of values.
LEMMA Recursion ==
    ASSUME NEW S, NEW b \in S, NEW h \in Steps(S)
    PROVE  \E f : Iterates(f, S, b, h)
<1>0. h \in [Nat -> [S -> S]]
  BY DEF Steps
<1> DEFINE Upto(n, f) == /\ f \in [0 .. n -> S] /\ f[0] = b
                         /\ \A k \in 0 .. n : k < n => f[k + 1] = h[k + 1][f[k]]
           T == {n \in Nat : \E f : Upto(n, f)}
<1>1. \A n \in Nat : \E f : Upto(n, f)
  <2>1. 0 \in T
    <3>1. Upto(0, [k \in 0 .. 0 |-> b])
      OBVIOUS
    <3> QED BY <3>1, Zenon
  <2>2. ASSUME NEW n \in Nat, n \in T PROVE n + 1 \in T
    <3>1. PICK f : Upto(n, f)
      BY <2>2
    <3> DEFINE g == [k \in 0 .. (n + 1) |-> IF k = n + 1 THEN h[n + 1][f[n]] ELSE f[k]]
    <3>2. h[n + 1] \in [S -> S] /\ f[n] \in S
      BY <1>0, <3>1
    <3>3. g \in [0 .. (n + 1) -> S] /\ g[0] = b
      BY <3>1, <3>2
    <3>4. ASSUME NEW k \in 0 .. (n + 1), k < n + 1 PROVE g[k + 1] = h[k + 1][g[k]]
      <4>1. k \in 0 .. n /\ k + 1 \in 0 .. (n + 1) /\ g[k] = f[k]
        BY <3>4
      <4>2. CASE k = n
        BY <4>1, <4>2
      <4>3. CASE k # n
        <5>1. k < n /\ k + 1 \in 0 .. n /\ g[k + 1] = f[k + 1]
          BY <4>1, <4>3
        <5>2. f[k + 1] = h[k + 1][f[k]]
          BY <3>1, <4>1, <5>1
        <5> QED BY <4>1, <5>1, <5>2
      <4> QED BY <4>2, <4>3
    <3>5. Upto(n + 1, g)
      <4> HIDE DEF g
      <4> QED BY <3>3, <3>4
    <3> HIDE DEF g, Upto
    <3>6. \E e : Upto(n + 1, e)
      BY <3>5
    <3> QED BY <3>6
  <2> HIDE DEF T
  <2>3. Nat \subseteq T
    BY <2>1, <2>2, Induction
  <2> QED BY <2>3, Zenon DEF T
<1>2. ASSUME NEW n \in Nat, NEW f, Upto(n, f), NEW g, Upto(n + 1, g)
      PROVE  f[n] = g[n]
  <2> DEFINE E == {k \in Nat : k <= n => f[k] = g[k]}
  <2>1. 0 \in E
    BY <1>2
  <2>2. ASSUME NEW k \in Nat, k \in E PROVE k + 1 \in E
    <3> SUFFICES ASSUME k + 1 <= n PROVE f[k + 1] = g[k + 1]
      OBVIOUS
    <3>0. k \in 0 .. n /\ k < n /\ k \in 0 .. (n + 1) /\ k < n + 1
      OBVIOUS
    <3>1. f[k + 1] = h[k + 1][f[k]]
      BY <1>2, <3>0
    <3>2. g[k + 1] = h[k + 1][g[k]]
      BY <1>2, <3>0
    <3> QED BY <2>2, <3>0, <3>1, <3>2
  <2> HIDE DEF E
  <2>3. Nat \subseteq E
    BY <2>1, <2>2, Induction
  <2> QED BY <2>3 DEF E
<1> DEFINE at(n) == CHOOSE f : Upto(n, f)
           F == [k \in Nat |-> at(k)[k]]
<1>3. \A n \in Nat : Upto(n, at(n))
  <2> HIDE DEF Upto
  <2> QED BY <1>1
<1>4. F \in [Nat -> S] /\ F[0] = b
  <2>1. ASSUME NEW k \in Nat PROVE at(k)[k] \in S
    <3>1. at(k) \in [0 .. k -> S]
      BY <1>3, Zenon
    <3> HIDE DEF at
    <3> QED BY <3>1
  <2>2. at(0)[0] = b
    <3>1. Upto(0, at(0))
      <4> HIDE DEF at, Upto
      <4> QED BY <1>3
    <3> HIDE DEF at
    <3> QED BY <3>1
  <2> HIDE DEF at
  <2> QED BY <2>1, <2>2
<1>5. ASSUME NEW k \in Nat PROVE F[k + 1] = h[k + 1][F[k]]
  <2>1. Upto(k, at(k)) /\ Upto(k + 1, at(k + 1))
    <3>1. k + 1 \in Nat
      OBVIOUS
    <3> HIDE DEF at, Upto
    <3> QED BY <1>3, <3>1
  <2>2. at(k)[k] = at(k + 1)[k]
    <3> HIDE DEF at, Upto
    <3> QED BY <1>2, <2>1
  <2>3. at(k + 1)[k + 1] = h[k + 1][at(k + 1)[k]]
    <3> HIDE DEF at
    <3> QED BY <2>1
  <2> HIDE DEF at
  <2> QED BY <2>2, <2>3
<1> HIDE DEF F
<1>6. Iterates(F, S, b, h)
  BY <1>4, <1>5 DEF Iterates
<1> QED BY <1>6

-----------------------------------------------------------------------------

\* queryable_models gives a list of names of models.
LEMMA QueryableNames ==
    ASSUME NEW r \in DOMAIN Models
    PROVE  Queryable(r) \in Seq({Models[r][i].name : i \in DOMAIN Models[r]})
<1> DEFINE models == Models[r]
           N == {models[i].name : i \in Nat}
           h == [n \in Nat |-> [x \in Seq(N) |->
                   IF models[n].queryable THEN Append(x, models[n].name) ELSE x]]
           P(f) == f = [n \in Nat |->
                          IF n = 0 THEN <<>>
                          ELSE IF models[n].queryable THEN Append(f[n - 1], models[n].name)
                          ELSE f[n - 1]]
           names == CHOOSE f : P(f)
<1>1. Queryable(r) = names[Len(models)]
  BY DEF Queryable
<1>2. \E f : P(f)
  <2>1. h \in [Nat -> [Seq(N) -> Seq(N)]]
    <3>1. ASSUME NEW n \in Nat, NEW x \in Seq(N)
          PROVE  (IF models[n].queryable THEN Append(x, models[n].name) ELSE x) \in Seq(N)
      <4>1. Append(x, models[n].name) \in Seq(N)
        OBVIOUS
      <4> HIDE DEF N
      <4> QED BY <4>1
    <3> HIDE DEF N
    <3> QED BY <3>1
  <2>2. PICK f \in [Nat -> Seq(N)] : f[0] = <<>> /\ \A n \in Nat : f[n + 1] = h[n + 1][f[n]]
    <3>1. <<>> \in Seq(N)
      OBVIOUS
    <3>2. h \in Steps(Seq(N))
      BY <2>1 DEF Steps
    <3> HIDE DEF h, N
    <3>3. PICK f : Iterates(f, Seq(N), <<>>, h)
      BY <3>1, <3>2, Recursion, Zenon
    <3> QED BY <3>3, Zenon DEF Iterates
  <2>3. ASSUME NEW n \in Nat
        PROVE  f[n] = IF n = 0 THEN <<>>
                      ELSE IF models[n].queryable THEN Append(f[n - 1], models[n].name)
                      ELSE f[n - 1]
    <3>1. CASE n = 0
      BY <2>2, <3>1
    <3>2. CASE n # 0
      <4>1. n - 1 \in Nat /\ (n - 1) + 1 = n
        BY <3>2
      <4>2. f[n] = h[n][f[n - 1]] /\ f[n - 1] \in Seq(N)
        BY <2>2, <4>1, Zenon
      <4> HIDE DEF N
      <4> QED BY <3>2, <4>2
    <3> QED BY <3>1, <3>2
  <2>4. P(f)
    <3> HIDE DEF models
    <3> QED BY <2>3
  <2> HIDE DEF P
  <2> QED BY <2>4
<1>3. P(names)
  <2> HIDE DEF P
  <2> QED BY <1>2
<1> DEFINE Named == {models[i].name : i \in DOMAIN models}
           S == {n \in Nat : n <= Len(models) => names[n] \in Seq(Named)}
<1>4. Len(models) \in Nat /\ DOMAIN models = 1 .. Len(models)
  BY McpAssumption
<1>5. /\ names[0] = <<>>
      /\ \A n \in Nat : names[n + 1] = IF models[n + 1].queryable
                                        THEN Append(names[n], models[n + 1].name)
                                        ELSE names[n]
  <2> HIDE DEF names, models
  <2>1. names[0] = <<>>
    BY <1>3
  <2>2. ASSUME NEW n \in Nat
        PROVE  names[n + 1] = IF models[n + 1].queryable
                              THEN Append(names[n], models[n + 1].name) ELSE names[n]
    <3>1. n + 1 \in Nat /\ n + 1 # 0 /\ (n + 1) - 1 = n
      OBVIOUS
    <3>2. names[n + 1] = IF models[n + 1].queryable
                         THEN Append(names[(n + 1) - 1], models[n + 1].name)
                         ELSE names[(n + 1) - 1]
      BY <1>3, <3>1, Zenon
    <3> QED BY <3>1, <3>2
  <2> QED BY <2>1, <2>2
<1> HIDE DEF names
<1>6. 0 \in S
  <2>1. names[0] = <<>>
    BY <1>5
  <2> HIDE DEF Named, models
  <2>2. names[0] \in Seq(Named)
    BY <2>1
  <2> QED BY <2>2
<1>7. ASSUME NEW n \in Nat, n \in S PROVE n + 1 \in S
  <2> SUFFICES ASSUME n + 1 <= Len(models) PROVE names[n + 1] \in Seq(Named)
    OBVIOUS
  <2>1. names[n] \in Seq(Named) /\ models[n + 1].name \in Named
    BY <1>4, <1>7
  <2> HIDE DEF Named, models
  <2>2. Append(names[n], models[n + 1].name) \in Seq(Named)
    BY <2>1
  <2> QED BY <1>5, <2>1, <2>2, Zenon
<1>8. Nat \subseteq S
  <2> HIDE DEF S
  <2> QED BY <1>6, <1>7, Induction
<1> QED BY <1>1, <1>4, <1>8

-----------------------------------------------------------------------------

\* A line has at most one answer, and at most one request of it reaches dispatch.
LEMMA OneAtMost ==
    ASSUME NEW server, NEW revision, NEW text
    PROVE  LET due == Due(server, revision, text) IN
           /\ due.answers = <<>> \/ due.answers = <<due.answers[1]>>
           /\ due.handed = <<>> \/ due.handed = <<due.handed[1]>>
<1>1. HandleLine(server, revision, text) = <<>>
      \/ \E x : HandleLine(server, revision, text) = <<x>>
  BY Zenon DEF HandleLine
<1>2. Handed(text) = <<>> \/ \E x : Handed(text) = <<x>>
  BY Zenon DEF Handed
<1> QED BY <1>1, <1>2 DEF Due

\* What may stand between two places of a text.
Spans(text) == {SubSeq(text, at[1] + 1, at[2]) : at \in Nat \X Nat}

LEMMA SpanOfText ==
    ASSUME NEW text, NEW i \in Nat, NEW j \in Nat
    PROVE  SubSeq(text, i + 1, j) \in Spans(text)
<1>1. <<i, j>> \in Nat \X Nat /\ <<i, j>>[1] = i /\ <<i, j>>[2] = j
  OBVIOUS
<1> QED BY <1>1, Zenon DEF Spans

\* The answers and requests that are due for parts of a text.
AnswersTo(server, revision, text) ==
    {Due(server, revision, l).answers[1] : l \in Spans(text)}
RequestsIn(server, revision, text) ==
    {Due(server, revision, l).handed[1] : l \in Spans(text)}

\* Where a text is, after some of its lines.
Places(server, revision, text) ==
    [start : Nat, answers : Seq(AnswersTo(server, revision, text)),
     handed : Seq(RequestsIn(server, revision, text))]

LEMMA DueIsTyped ==
    ASSUME NEW server, NEW revision, NEW text, NEW l \in Spans(text)
    PROVE  LET due == Due(server, revision, l) IN
           /\ due.answers \in Seq(AnswersTo(server, revision, text))
           /\ due.handed \in Seq(RequestsIn(server, revision, text))
<1> DEFINE due == Due(server, revision, l)
           A == AnswersTo(server, revision, text)
           R == RequestsIn(server, revision, text)
<1>1. due.answers[1] \in A /\ due.handed[1] \in R
  BY DEF AnswersTo, RequestsIn
<1>2. /\ due.answers = <<>> \/ due.answers = <<due.answers[1]>>
      /\ due.handed = <<>> \/ due.handed = <<due.handed[1]>>
  BY OneAtMost
<1> HIDE DEF due, A, R
<1>3. due.answers \in Seq(A) /\ due.handed \in Seq(R)
  <2>1. <<>> \in Seq(A) /\ <<>> \in Seq(R)
    OBVIOUS
  <2>2. <<due.answers[1]>> \in Seq(A) /\ <<due.handed[1]>> \in Seq(R)
    BY <1>1
  <2> QED BY <1>2, <2>1, <2>2, Zenon
<1> QED BY <1>3 DEF due, A, R

\* One more byte: it continues the line, or it ends it.
NextPlace(server, revision, text, p, before) ==
    LET ending == Due(server, revision, SubSeq(text, before.start + 1, p - 1))
    IN  IF text[p] # "LF" THEN before
        ELSE [start |-> p, answers |-> before.answers \o ending.answers,
              handed |-> before.handed \o ending.handed]

\* The byte p ends the line that began at before.
EndsLine(server, revision, text, p, before, after, ending) ==
    /\ text[p] = "LF" /\ after = NextPlace(server, revision, text, p, before)
    /\ ending = Due(server, revision, SubSeq(text, before.start + 1, p - 1))

Added(p, before, after, ending) ==
    /\ after.start = p /\ after.answers = before.answers \o ending.answers
    /\ after.handed = before.handed \o ending.handed

LEMMA LineEnds ==
    ASSUME NEW server, NEW revision, NEW text, NEW p, NEW before, NEW after, NEW ending,
           EndsLine(server, revision, text, p, before, after, ending)
    PROVE  Added(p, before, after, ending)
BY Zenon DEF EndsLine, Added, NextPlace

LEMMA NextPlaceIsTyped ==
    ASSUME NEW server, NEW revision, NEW text, NEW p \in Nat, p # 0,
           NEW before \in Places(server, revision, text)
    PROVE  NextPlace(server, revision, text, p, before) \in Places(server, revision, text)
<1> DEFINE l == SubSeq(text, before.start + 1, p - 1)
           ending == Due(server, revision, l)
           A == AnswersTo(server, revision, text)
           R == RequestsIn(server, revision, text)
<1>1. before.start \in Nat /\ before.answers \in Seq(A) /\ before.handed \in Seq(R)
  BY DEF Places
<1>2. l \in Spans(text)
  <2>1. p - 1 \in Nat
    OBVIOUS
  <2> QED BY <1>1, <2>1, SpanOfText
<1>3. ending.answers \in Seq(A) /\ ending.handed \in Seq(R)
  <2> HIDE DEF l
  <2> QED BY <1>2, DueIsTyped
<1> HIDE DEF ending, A, R
<1>4. before.answers \o ending.answers \in Seq(A) /\ before.handed \o ending.handed \in Seq(R)
  BY <1>1, <1>3
<1>5. [start |-> p, answers |-> before.answers \o ending.answers,
       handed |-> before.handed \o ending.handed] \in [start : Nat, answers : Seq(A), handed : Seq(R)]
  BY <1>4
<1>6. NextPlace(server, revision, text, p, before)
        \in {before, [start |-> p, answers |-> before.answers \o ending.answers,
                      handed |-> before.handed \o ending.handed]}
  BY DEF NextPlace, ending
<1> QED BY <1>5, <1>6, Zenon DEF Places, A, R

\* The places of a text, one byte after the other.
LEMMA DueByByte ==
    ASSUME NEW server, NEW revision, NEW text
    PROVE  /\ DueAt(server, revision, text, 0) = [start |-> 0, answers |-> <<>>, handed |-> <<>>]
           /\ \A n \in Nat :
                 /\ DueAt(server, revision, text, n) \in Places(server, revision, text)
                 /\ DueAt(server, revision, text, n + 1)
                      = NextPlace(server, revision, text, n + 1,
                                  DueAt(server, revision, text, n))
<1> DEFINE S == Places(server, revision, text)
           zero == [start |-> 0, answers |-> <<>>, handed |-> <<>>]
           next(p, x) == NextPlace(server, revision, text, p, x)
           h == [p \in Nat |-> [x \in S |-> IF p = 0 THEN x ELSE next(p, x)]]
           P(f) == f = [p \in Nat |-> IF p = 0 THEN zero ELSE next(p, f[p - 1])]
           due == CHOOSE f : P(f)
<1>1. \A n : DueAt(server, revision, text, n) = due[n]
  BY DEF DueAt, NextPlace
<1>2. zero \in S
  BY DEF Places
<1>3. ASSUME NEW p \in Nat, p # 0, NEW x \in S PROVE next(p, x) \in S
  BY <1>3, NextPlaceIsTyped
<1> HIDE DEF next, zero, S
<1>4. PICK f : Iterates(f, S, zero, h)
  <2>1. h \in Steps(S)
    <3>1. ASSUME NEW p \in Nat, NEW x \in S
          PROVE  (IF p = 0 THEN x ELSE next(p, x)) \in S
      BY <1>3
    <3> QED BY <3>1 DEF Steps
  <2> HIDE DEF h
  <2> QED BY <1>2, <2>1, Recursion
<1>5. P(f)
  <2>1. f \in [Nat -> S] /\ f[0] = zero /\ \A n \in Nat : f[n + 1] = h[n + 1][f[n]]
    BY <1>4, Zenon DEF Iterates
  <2>2. ASSUME NEW p \in Nat PROVE f[p] = IF p = 0 THEN zero ELSE next(p, f[p - 1])
    <3>1. CASE p = 0
      BY <2>1, <3>1
    <3>2. CASE p # 0
      <4>1. p - 1 \in Nat /\ (p - 1) + 1 = p
        BY <3>2
      <4>2. f[p] = h[p][f[p - 1]] /\ f[p - 1] \in S
        BY <2>1, <4>1, Zenon
      <4> QED BY <3>2, <4>2
    <3> QED BY <3>1, <3>2
  <2> QED BY <2>1, <2>2
<1>6. P(due)
  <2> HIDE DEF P
  <2> QED BY <1>5
<1> HIDE DEF due
<1>7. /\ due[0] = zero
      /\ \A n \in Nat : due[n + 1] = next(n + 1, due[n])
  <2>1. due[0] = zero
    BY <1>6
  <2>2. ASSUME NEW n \in Nat PROVE due[n + 1] = next(n + 1, due[n])
    <3>1. n + 1 \in Nat /\ n + 1 # 0 /\ (n + 1) - 1 = n
      OBVIOUS
    <3>2. due[n + 1] = next(n + 1, due[(n + 1) - 1])
      BY <1>6, <3>1, Zenon
    <3> QED BY <3>1, <3>2
  <2> QED BY <2>1, <2>2
<1>8. \A n \in Nat : due[n] \in S
  <2> DEFINE T == {n \in Nat : due[n] \in S}
  <2>1. 0 \in T
    BY <1>2, <1>7
  <2>2. ASSUME NEW n \in Nat, n \in T PROVE n + 1 \in T
    <3>1. n + 1 \in Nat /\ n + 1 # 0
      OBVIOUS
    <3> QED BY <1>3, <1>7, <2>2, <3>1
  <2> HIDE DEF T
  <2>3. Nat \subseteq T
    BY <2>1, <2>2, Induction
  <2> QED BY <2>3 DEF T
<1> QED BY <1>1, <1>7, <1>8, SMTT(30) DEF next, zero, S

-----------------------------------------------------------------------------

\* The current line begins before the place it has been read to.
LEMMA StartIsBefore ==
    ASSUME NEW server, NEW revision, NEW text
    PROVE  \A n \in Nat : DueAt(server, revision, text, n).start \in 0 .. n
<1> DEFINE at(n) == DueAt(server, revision, text, n)
           T == {n \in Nat : at(n).start \in 0 .. n}
<1>1. 0 \in T
  BY DueByByte
<1>2. ASSUME NEW n \in Nat, n \in T PROVE n + 1 \in T
  <2>1. at(n + 1) = NextPlace(server, revision, text, n + 1, at(n))
    BY DueByByte, Zenon
  <2>2. at(n).start \in 0 .. n
    BY <1>2
  <2> HIDE DEF at
  <2>3. at(n + 1).start \in {at(n).start, n + 1}
    BY <2>1 DEF NextPlace
  <2> QED BY <2>2, <2>3
<1> HIDE DEF T
<1>3. Nat \subseteq T
  BY <1>1, <1>2, Induction
<1> QED BY <1>3 DEF T

\* Bytes other than line feeds end no line.
Unbroken(text, p, m) == \A i \in 1 .. m : text[p + i] # "LF"

LEMMA NothingEnds ==
    ASSUME NEW server, NEW revision, NEW text, NEW p \in Nat, NEW m \in Nat,
           Unbroken(text, p, m)
    PROVE  DueAt(server, revision, text, p + m) = DueAt(server, revision, text, p)
<1> DEFINE at(n) == DueAt(server, revision, text, n)
           T == {n \in Nat : n <= m => at(p + n) = at(p)}
<1>1. 0 \in T
  OBVIOUS
<1>2. ASSUME NEW n \in Nat, n \in T PROVE n + 1 \in T
  <2> SUFFICES ASSUME n + 1 <= m PROVE at(p + (n + 1)) = at(p)
    OBVIOUS
  <2>1. p + n \in Nat /\ (p + n) + 1 = p + (n + 1) /\ n + 1 \in 1 .. m
    OBVIOUS
  <2>2. at((p + n) + 1) = NextPlace(server, revision, text, (p + n) + 1, at(p + n))
    BY <2>1, DueByByte, Zenon
  <2>3. at(p + n) = at(p)
    BY <1>2, <2>1
  <2>4. text[(p + n) + 1] # "LF"
    BY <2>1 DEF Unbroken
  <2> HIDE DEF at
  <2> QED BY <2>1, <2>2, <2>3, <2>4 DEF NextPlace
<1> HIDE DEF T
<1>3. Nat \subseteq T
  BY <1>1, <1>2, Induction
<1>4. m \in T
  BY <1>3
<1> QED BY <1>4 DEF T

-----------------------------------------------------------------------------

\* Prefixes.
LEMMA BeginsItself ==
    ASSUME NEW S, NEW s \in Seq(S), NEW t \in Seq(S)
    PROVE  Begins(s, s) /\ Begins(s, s \o t) /\ Begins(<<>>, s)
BY DEF Begins

LEMMA BeginsOnward ==
    ASSUME NEW S, NEW s \in Seq(S), NEW t \in Seq(S), NEW u \in Seq(S), Begins(s, t)
    PROVE  Begins(s, t \o u)
<1>1. Len(s) <= Len(t) /\ SubSeq(t, 1, Len(s)) = s
  BY DEF Begins
<1>2. Len(t \o u) = Len(t) + Len(u)
  OBVIOUS
<1>3. SubSeq(t \o u, 1, Len(s)) = SubSeq(t, 1, Len(s))
  BY <1>1
<1> QED BY <1>1, <1>2, <1>3 DEF Begins

\* What is due only grows from byte to byte.
LEMMA DueGrows ==
    ASSUME NEW server, NEW revision, NEW text, NEW p \in Nat, NEW m \in Nat
    PROVE  LET early == DueAt(server, revision, text, p)
               late == DueAt(server, revision, text, p + m)
           IN  Begins(early.answers, late.answers) /\ Begins(early.handed, late.handed)
<1> DEFINE at(n) == DueAt(server, revision, text, n)
           A == AnswersTo(server, revision, text)
           R == RequestsIn(server, revision, text)
           T == {n \in Nat : /\ Begins(at(p).answers, at(p + n).answers)
                             /\ Begins(at(p).handed, at(p + n).handed)}
<1>1. \A n \in Nat : at(n).start \in Nat /\ at(n).answers \in Seq(A) /\ at(n).handed \in Seq(R)
  BY DueByByte DEF Places
<1>2. \A n \in Nat : at(n + 1) = NextPlace(server, revision, text, n + 1, at(n))
  BY DueByByte, Zenon
<1> HIDE DEF at, A, R
<1>3. 0 \in T
  <2>1. p + 0 = p
    OBVIOUS
  <2> QED BY <1>1, <2>1, BeginsItself
<1>4. ASSUME NEW n \in Nat, n \in T PROVE n + 1 \in T
  <2> DEFINE q == p + n
  <2>1. q \in Nat /\ q + 1 = p + (n + 1) /\ (q + 1) - 1 = q
    OBVIOUS
  <2>2. Begins(at(p).answers, at(q).answers) /\ Begins(at(p).handed, at(q).handed)
    BY <1>4
  <2> HIDE DEF q
  <2>3. CASE text[q + 1] # "LF"
    <3>1. at(q + 1) = at(q)
      BY <1>2, <2>1, <2>3, Zenon DEF NextPlace
    <3> QED BY <2>1, <2>2, <3>1
  <2>4. CASE text[q + 1] = "LF"
    <3>1. PICK x, y : /\ x = at(q + 1) /\ y = at(q)
                      /\ x = NextPlace(server, revision, text, q + 1, y)
      BY <1>2, <2>1
    <3> DEFINE l == SubSeq(text, y.start + 1, (q + 1) - 1)
               ending == Due(server, revision, l)
    <3>2. x.answers = y.answers \o ending.answers /\ x.handed = y.handed \o ending.handed
      <4>1. EndsLine(server, revision, text, q + 1, y, x, ending)
        BY <2>4, <3>1, Zenon DEF EndsLine
      <4> HIDE DEF ending
      <4>2. Added(q + 1, y, x, ending)
        BY <4>1, LineEnds
      <4> QED BY <4>2, Zenon DEF Added
    <3>3. l \in Spans(text)
      BY <1>1, <2>1, <3>1, SpanOfText
    <3>4. ending.answers \in Seq(A) /\ ending.handed \in Seq(R)
      <4> HIDE DEF l
      <4> QED BY <3>3, DueIsTyped DEF A, R
    <3> HIDE DEF ending
    <3>5. Begins(at(p).answers, y.answers \o ending.answers)
      BY <1>1, <2>1, <2>2, <3>1, <3>4, BeginsOnward
    <3>6. Begins(at(p).handed, y.handed \o ending.handed)
      BY <1>1, <2>1, <2>2, <3>1, <3>4, BeginsOnward
    <3>7. at(p + (n + 1)) = x
      BY <2>1, <3>1
    <3>8. /\ Begins(at(p).answers, at(p + (n + 1)).answers)
          /\ Begins(at(p).handed, at(p + (n + 1)).handed)
      BY <3>2, <3>5, <3>6, <3>7, Zenon
    <3> QED BY <3>8
  <2> QED BY <2>3, <2>4
<1> HIDE DEF T
<1>5. Nat \subseteq T
  BY <1>3, <1>4, Induction
<1>6. m \in T
  BY <1>5
<1> QED BY <1>6 DEF T, at

\* What is due up to a place is the beginning of what is due for the whole text, and
\* the whole text has a list of answers and one of requests.
LEMMA DueForBegins ==
    ASSUME NEW server, NEW revision, NEW text, Len(text) \in Nat, NEW p \in 0 .. Len(text)
    PROVE  LET read == DueAt(server, revision, text, p)
               due == DueFor(server, revision, text)
           IN  /\ Begins(read.answers, due.answers) /\ Begins(read.handed, due.handed)
               /\ Begins(due.answers, due.answers) /\ Begins(due.handed, due.handed)
<1> DEFINE n == Len(text)
           read == DueAt(server, revision, text, p)
           whole == DueAt(server, revision, text, n)
           due == DueFor(server, revision, text)
           l == SubSeq(text, whole.start + 1, n)
           rest == Due(server, revision, l)
           A == AnswersTo(server, revision, text)
           R == RequestsIn(server, revision, text)
<1>0. n \in Nat /\ p \in Nat /\ n - p \in Nat /\ p + (n - p) = n
  OBVIOUS
<1>1. /\ read.answers \in Seq(A) /\ read.handed \in Seq(R)
      /\ whole.start \in Nat /\ whole.answers \in Seq(A) /\ whole.handed \in Seq(R)
  <2> HIDE DEF n
  <2> QED BY <1>0, DueByByte DEF Places
<1>2. Begins(read.answers, whole.answers) /\ Begins(read.handed, whole.handed)
  <2> HIDE DEF n
  <2> QED BY <1>0, DueGrows, Zenon
<1>3. rest.answers \in Seq(A) /\ rest.handed \in Seq(R)
  <2>1. l \in Spans(text)
    BY <1>0, <1>1, SpanOfText
  <2> HIDE DEF l
  <2> QED BY <2>1, DueIsTyped
<1>4. /\ due.answers \in {whole.answers, whole.answers \o rest.answers}
      /\ due.handed \in {whole.handed, whole.handed \o rest.handed}
  <2>1. due = IF whole.start = n THEN [answers |-> whole.answers, handed |-> whole.handed]
              ELSE [answers |-> whole.answers \o rest.answers,
                    handed |-> whole.handed \o rest.handed]
    BY Zenon DEF DueFor
  <2> HIDE DEF whole, rest, due
  <2> QED BY <2>1
<1> HIDE DEF A, R, read, whole, rest, due
<1>5. Begins(read.answers, due.answers) /\ Begins(due.answers, due.answers)
  <2>1. /\ Begins(read.answers, whole.answers \o rest.answers)
        /\ whole.answers \o rest.answers \in Seq(A)
    BY <1>1, <1>2, <1>3, BeginsOnward
  <2> QED BY <1>1, <1>2, <1>4, <2>1, BeginsItself, Zenon
<1>6. Begins(read.handed, due.handed) /\ Begins(due.handed, due.handed)
  <2>1. /\ Begins(read.handed, whole.handed \o rest.handed)
        /\ whole.handed \o rest.handed \in Seq(R)
    BY <1>1, <1>2, <1>3, BeginsOnward
  <2> QED BY <1>1, <1>2, <1>4, <2>1, BeginsItself, Zenon
<1> QED BY <1>5, <1>6 DEF read, due

-----------------------------------------------------------------------------

\* Concatenation, and sequences with the same elements.
LEMMA Joined ==
    ASSUME NEW S, NEW s \in Seq(S), NEW t \in Seq(S)
    PROVE  /\ s \o t \in Seq(S) /\ Len(s \o t) = Len(s) + Len(t)
           /\ \A i \in 1 .. Len(s) : (s \o t)[i] = s[i]
           /\ \A i \in 1 .. Len(t) : (s \o t)[Len(s) + i] = t[i]
OBVIOUS

LEMMA SameSequence ==
    ASSUME NEW S, NEW s \in Seq(S), NEW t \in Seq(S), Len(s) = Len(t),
           \A i \in 1 .. Len(t) : s[i] = t[i]
    PROVE  s = t
OBVIOUS

\* Parts of a text.
LEMMA SpanJoins ==
    ASSUME NEW S, NEW text \in Seq(S), NEW p \in 0 .. Len(text), NEW a \in 0 .. p,
           NEW k \in Nat, p + k <= Len(text)
    PROVE  /\ Len(SubSeq(text, a + 1, p)) = p - a
           /\ Len(SubSeq(text, a + 1, p + k)) = (p - a) + k
           /\ SubSeq(text, a + 1, p) \o SubSeq(text, p + 1, p + k) = SubSeq(text, a + 1, p + k)
<1> DEFINE s == SubSeq(text, a + 1, p)
           t == SubSeq(text, p + 1, p + k)
           u == SubSeq(text, a + 1, p + k)
<1>1. s \in Seq(S) /\ Len(s) = p - a /\ \A i \in 1 .. (p - a) : s[i] = text[a + i]
  OBVIOUS
<1>2. t \in Seq(S) /\ Len(t) = k /\ \A i \in 1 .. k : t[i] = text[p + i]
  OBVIOUS
<1>3. u \in Seq(S) /\ Len(u) = (p - a) + k /\ \A i \in 1 .. ((p - a) + k) : u[i] = text[a + i]
  OBVIOUS
<1> HIDE DEF s, t, u
<1>4. PICK d \in Nat : d = p - a /\ d + k \in Nat
  OBVIOUS
<1>5. Len(s) = d /\ Len(t) = k /\ Len(u) = d + k
  BY <1>1, <1>2, <1>3, <1>4
<1>6. /\ s \o t \in Seq(S) /\ Len(s \o t) = Len(s) + Len(t)
      /\ \A i \in 1 .. Len(s) : (s \o t)[i] = s[i]
      /\ \A i \in 1 .. Len(t) : (s \o t)[Len(s) + i] = t[i]
  <2>1. s \in Seq(S) /\ t \in Seq(S)
    BY <1>1, <1>2
  <2> QED BY <2>1, Joined
<1>7. ASSUME NEW i \in 1 .. (d + k) PROVE (s \o t)[i] = u[i]
  <2>1. u[i] = text[a + i]
    BY <1>3, <1>4
  <2>2. CASE i <= d
    BY <1>1, <1>4, <1>5, <1>6, <2>1, <2>2
  <2>3. CASE ~(i <= d)
    <3>1. PICK e \in 1 .. k : e = i - d /\ p + e = a + i /\ d + e = i
      BY <1>4, <2>3
    <3>2. (s \o t)[i] = t[e]
      BY <1>5, <1>6, <3>1
    <3> QED BY <1>2, <2>1, <3>1, <3>2, SMTT(30)
  <2> QED BY <2>2, <2>3, Zenon
<1>8. s \o t = u
  <2>1. u \in Seq(S) /\ Len(s \o t) = Len(u) /\ \A i \in 1 .. Len(u) : (s \o t)[i] = u[i]
    BY <1>3, <1>5, <1>6, <1>7, SMTT(30)
  <2> QED BY <1>6, <2>1, SameSequence, Zenon
<1> QED BY <1>1, <1>3, <1>8 DEF s, t, u

IsSpan(s, text, p, n) == Len(s) = n /\ \A i \in 1 .. n : s[i] = text[p + i]

LEMMA SpanOfSpan ==
    ASSUME NEW S, NEW text \in Seq(S), NEW p \in Nat, NEW n \in Nat, p + n <= Len(text),
           NEW k \in 0 .. n
    PROVE  /\ SubSeq(text, p + 1, p + n) \in Seq(S)
           /\ IsSpan(SubSeq(text, p + 1, p + n), text, p, n)
           /\ SubSeq(SubSeq(text, p + 1, p + n), 1, k) = SubSeq(text, p + 1, p + k)
<1> DEFINE s == SubSeq(text, p + 1, p + n)
           t == SubSeq(text, p + 1, p + k)
<1>1. s \in Seq(S) /\ Len(s) = n /\ \A i \in 1 .. n : s[i] = text[p + i]
  OBVIOUS
<1>2. t \in Seq(S) /\ Len(t) = k /\ \A i \in 1 .. k : t[i] = text[p + i]
  OBVIOUS
<1> HIDE DEF s, t
<1>3. SubSeq(s, 1, k) \in Seq(S) /\ Len(SubSeq(s, 1, k)) = k
      /\ \A i \in 1 .. k : SubSeq(s, 1, k)[i] = s[i]
  BY <1>1
<1>4. SubSeq(s, 1, k) = t
  BY <1>1, <1>2, <1>3
<1>5. IsSpan(s, text, p, n)
  BY <1>1 DEF IsSpan
<1> QED BY <1>1, <1>4, <1>5 DEF s, t

\* c is what stands before the first line feed of a buffer.
Found(buffer, c) ==
    /\ c.length \in 0 .. Len(buffer)
    /\ \A i \in 1 .. c.length : buffer[i] # "LF"
    /\ \/ c.ended = FALSE /\ c.length = Len(buffer) /\ c.used = c.length
       \/ /\ c.ended = TRUE /\ c.used = c.length + 1 /\ c.used <= Len(buffer)
          /\ buffer[c.used] = "LF"

\* read_bounded_line finds the first line feed of a buffer.
LEMMA ContentIsFound ==
    ASSUME NEW S, NEW buffer \in Seq(S)
    PROVE  Found(buffer, Content(buffer))
<1> DEFINE feeds == {i \in 1 .. Len(buffer) : buffer[i] = "LF"}
           c == Content(buffer)
<1>0. Len(buffer) \in Nat
  OBVIOUS
<1>1. CASE feeds = {}
  <2>1. c = [ended |-> FALSE, length |-> Len(buffer), used |-> Len(buffer)]
    BY <1>1 DEF Content
  <2> HIDE DEF c
  <2>2. c.ended = FALSE /\ c.length = Len(buffer) /\ c.used = Len(buffer)
    BY <2>1
  <2>3. \A i \in 1 .. Len(buffer) : buffer[i] # "LF"
    BY <1>1
  <2>4. Found(buffer, c)
    BY <1>0, <2>2, <2>3 DEF Found
  <2> QED BY <2>4 DEF c
<1>2. CASE feeds # {}
  <2> DEFINE first == CHOOSE i \in feeds : \A j \in feeds : i <= j
  <2>1. c = [ended |-> TRUE, length |-> first - 1, used |-> first]
    BY <1>2 DEF Content
  <2>2. first \in feeds /\ \A j \in feeds : first <= j
    <3>1. feeds \subseteq Nat
      OBVIOUS
    <3> HIDE DEF feeds
    <3> QED BY <1>2, <3>1, LeastOf, Zenon
  <2> HIDE DEF c, first
  <2>3. c.ended = TRUE /\ c.length = first - 1 /\ c.used = first
    BY <2>1
  <2>4. first \in 1 .. Len(buffer) /\ buffer[first] = "LF"
    BY <2>2
  <2>5. ASSUME NEW i \in 1 .. (first - 1) PROVE buffer[i] # "LF"
    BY <1>0, <2>2, <2>4
  <2>6. Found(buffer, c)
    BY <1>0, <2>3, <2>4, <2>5 DEF Found
  <2> QED BY <2>6 DEF c
<1> QED BY <1>1, <1>2

\* Serving the line that was read answers it with what is due for it.
LEMMA LineIsServed ==
    ASSUME NEW over, NEW text, NEW full, over = (Len(full) > MaxLine),
           text = IF Len(full) > MaxLine THEN <<>> ELSE full, Serve(over, text)
    PROVE  /\ answers' = answers \o Due(StdioServer, published, full).answers
           /\ dispatched' = dispatched \o Due(StdioServer, published, full).handed
           /\ line' = <<>> /\ oversized' = FALSE /\ readAny' = FALSE
<1> DEFINE due == Due(StdioServer, published, full)
<1>1. due = IF Len(full) > MaxLine THEN [answers |-> <<TooLarge>>, handed |-> <<>>]
            ELSE [answers |-> HandleLine(StdioServer, published, full), handed |-> Handed(full)]
  BY DEF Due
<1> HIDE DEF due
<1>2. CASE Len(full) > MaxLine
  <2>1. over /\ due = [answers |-> <<TooLarge>>, handed |-> <<>>]
    BY <1>1, <1>2, Zenon
  <2>2. due.answers = <<TooLarge>> /\ due.handed = <<>>
    BY <2>1
  <2> QED BY <2>1, <2>2, Zenon DEF Serve, due
<1>3. CASE ~(Len(full) > MaxLine)
  <2>1. /\ ~over /\ text = full
        /\ due = [answers |-> HandleLine(StdioServer, published, full), handed |-> Handed(full)]
    BY <1>1, <1>3, Zenon
  <2>2. due.answers = HandleLine(StdioServer, published, full) /\ due.handed = Handed(full)
    BY <2>1
  <2> QED BY <2>1, <2>2, Zenon DEF Serve, due
<1> QED BY <1>2, <1>3, Zenon

\* Nothing lies between a place in a text and itself.
LEMMA EmptySpan ==
    ASSUME NEW S, NEW text \in Seq(S), NEW p \in 0 .. Len(text)
    PROVE  SubSeq(text, p + 1, p) = <<>>
OBVIOUS

\* The bytes taken from a buffer continue the line read so far, and end it or do not.
Continued(server, revision, text, p, buffer, before, c) ==
    LET current == SubSeq(text, before.start + 1, p)
        longer == SubSeq(text, before.start + 1, p + c.length)
        after == DueAt(server, revision, text, p + c.used)
    IN  /\ c.length \in Nat /\ c.used \in Nat /\ p + c.used \in 0 .. Len(text)
        /\ Len(current) \in Nat /\ Len(longer) = Len(current) + c.length
        /\ current \o SubSeq(buffer, 1, c.length) = longer
        /\ before.start \in 0 .. p
        /\ \/ c.ended = FALSE /\ c.used = c.length /\ after = before /\ c.used > 0
           \/ /\ c.ended = TRUE /\ after.start = p + c.used
              /\ after.answers = before.answers \o Due(server, revision, longer).answers
              /\ after.handed = before.handed \o Due(server, revision, longer).handed

LEMMA BytesAreTaken ==
    ASSUME NEW server, NEW revision, NEW S, NEW text \in Seq(S), NEW p \in 0 .. Len(text),
           NEW n \in 1 .. Len(text) - p, NEW before,
           before = DueAt(server, revision, text, p),
           NEW c, c = Content(SubSeq(text, p + 1, p + n))
    PROVE  Continued(server, revision, text, p, SubSeq(text, p + 1, p + n), before, c)
<1> DEFINE buffer == SubSeq(text, p + 1, p + n)
           a == before.start
           k == c.length
           at(i) == DueAt(server, revision, text, i)
<1>0. p \in Nat /\ n \in Nat /\ n > 0 /\ Len(text) \in Nat /\ p + n <= Len(text)
  OBVIOUS
<1>1. buffer \in Seq(S) /\ Len(buffer) = n /\ \A i \in 1 .. n : buffer[i] = text[p + i]
  <2>1. n \in 0 .. n
    BY <1>0
  <2>2. buffer \in Seq(S) /\ IsSpan(buffer, text, p, n)
    BY <1>0, <2>1, SpanOfSpan, Zenon
  <2> HIDE DEF buffer
  <2> QED BY <2>2 DEF IsSpan
<1>2. /\ k \in 0 .. Len(buffer)
      /\ \A i \in 1 .. k : buffer[i] # "LF"
      /\ \/ c.ended = FALSE /\ k = Len(buffer) /\ c.used = k
         \/ c.ended = TRUE /\ c.used = k + 1 /\ c.used <= Len(buffer) /\ buffer[c.used] = "LF"
  <2>1. c = Content(buffer)
    OBVIOUS
  <2> HIDE DEF buffer
  <2>2. Found(buffer, c)
    BY <1>1, <2>1, ContentIsFound
  <2> QED BY <2>2 DEF Found, k
<1>3. a \in 0 .. p
  BY <1>0, StartIsBefore
<1> HIDE DEF k, a
<1>4. SubSeq(buffer, 1, k) = SubSeq(text, p + 1, p + k) /\ k \in Nat /\ p + k <= Len(text)
  <2>1. k \in 0 .. n /\ k \in Nat /\ p + k <= Len(text)
    BY <1>0, <1>1, <1>2
  <2> QED BY <1>0, <2>1, SpanOfSpan
<1>5. /\ Len(SubSeq(text, a + 1, p)) = p - a
      /\ Len(SubSeq(text, a + 1, p + k)) = (p - a) + k
      /\ SubSeq(text, a + 1, p) \o SubSeq(text, p + 1, p + k) = SubSeq(text, a + 1, p + k)
  BY <1>3, <1>4, SpanJoins
<1>6. at(p + k) = before
  <2>1. Unbroken(text, p, k)
    <3> HIDE DEF buffer
    <3> QED BY <1>0, <1>1, <1>2, <1>4 DEF Unbroken
  <2>2. at(p + k) = at(p)
    BY <1>0, <1>4, <2>1, NothingEnds
  <2> QED BY <2>2
<1>7. CASE c.ended = FALSE /\ k = Len(buffer) /\ c.used = k
  <2>1. /\ c.used \in Nat /\ p + c.used \in 0 .. Len(text) /\ c.used > 0
        /\ c.used = k /\ p - a \in Nat
    <3> HIDE DEF buffer
    <3>1. c.used = n /\ k = n
      BY <1>1, <1>7
    <3>2. p - a \in Nat
      BY <1>0, <1>3
    <3> QED BY <1>0, <3>1, <3>2
  <2> HIDE DEF buffer
  <2> QED BY <1>3, <1>4, <1>5, <1>6, <1>7, <2>1, Zenon DEF a, k, buffer, Continued
<1>8. CASE /\ c.ended = TRUE /\ c.used = k + 1 /\ c.used <= Len(buffer)
           /\ buffer[c.used] = "LF"
  <2>1. /\ c.used \in Nat /\ p + c.used \in 0 .. Len(text) /\ c.used \in 1 .. n
        /\ p - a \in Nat /\ p + c.used = (p + k) + 1
    <3> HIDE DEF buffer
    <3> QED BY <1>0, <1>1, <1>3, <1>4, <1>8
  <2>2. text[(p + k) + 1] = "LF"
    <3> HIDE DEF buffer
    <3> QED BY <1>1, <1>8, <2>1
  <2> DEFINE ending == Due(server, revision, SubSeq(text, a + 1, p + k))
  <2>3. /\ at(p + c.used).start = p + c.used
        /\ at(p + c.used).answers = before.answers \o ending.answers
        /\ at(p + c.used).handed = before.handed \o ending.handed
    <3> DEFINE q == (p + k) + 1
    <3>1. at(q) = NextPlace(server, revision, text, q, before)
      BY <1>0, <1>4, <1>6, DueByByte
    <3>2. q - 1 = p + k /\ q = p + c.used /\ text[q] = "LF"
      BY <1>0, <1>4, <2>1, <2>2
    <3> HIDE DEF q, at
    <3>3. ending = Due(server, revision, SubSeq(text, before.start + 1, q - 1))
      BY <3>2 DEF a
    <3> HIDE DEF ending
    <3>4. PICK x : x = at(q) /\ x = NextPlace(server, revision, text, q, before)
      BY <3>1
    <3>5. EndsLine(server, revision, text, q, before, x, ending)
      BY <3>2, <3>3, <3>4, Zenon DEF EndsLine
    <3>6. Added(q, before, x, ending)
      BY <3>5, LineEnds
    <3> QED BY <3>2, <3>4, <3>6, Zenon DEF Added
  <2> QED BY <1>3, <1>4, <1>5, <1>8, <2>1, <2>3, Zenon DEF a, k, Continued
<1> QED BY <1>2, <1>7, <1>8, Zenon

-----------------------------------------------------------------------------
(* stdio: what has been answered is what is due so far.                     *)

\* A buffer, with or without the end of a line in it.
LEMMA BufferIsRead ==
    ASSUME ProcessInv, ReadInv, ReadBuffer
    PROVE  ReadInv'
<1> DEFINE text == input
           p == pos
           server == StdioServer
           revision == published
           before == DueAt(server, revision, text, p)
           current == SubSeq(text, before.start + 1, p)
<1>1. /\ input' = input /\ published' = published /\ StdioServer' = StdioServer
      /\ transport' = transport /\ transport = "stdio"
  BY DEF ReadBuffer, StdioServer
<1>2. text \in Seq(Range(text)) /\ p \in 0 .. Len(text) /\ p < Len(text) /\ Len(text) \in Nat
      /\ MaxLine \in Nat
  BY McpAssumption DEF ProcessInv, ReadInv, ReadBuffer
<1>3. /\ answers = before.answers /\ dispatched = before.handed
      /\ oversized = (Len(current) > MaxLine)
      /\ line = IF Len(current) > MaxLine THEN <<>> ELSE current
  <2>1. pos # Len(input)
    BY <1>2
  <2> QED BY <2>1, Zenon DEF ReadInv
<1>4. PICK n \in 1 .. Len(text) - p :
         LET taken == Take(SubSeq(text, p + 1, p + n)) IN
         /\ pos' = p + taken.used
         /\ IF taken.ended THEN Serve(taken.over, taken.text)
            ELSE /\ line' = taken.text /\ oversized' = taken.over /\ readAny' = TRUE
                 /\ UNCHANGED <<answers, dispatched>>
  BY Zenon DEF ReadBuffer
<1> DEFINE buffer == SubSeq(text, p + 1, p + n)
           c == Content(buffer)
           taken == Take(buffer)
           longer == SubSeq(text, before.start + 1, p + c.length)
           after == DueAt(server, revision, text, p + c.used)
<1>5. /\ c.length \in Nat /\ c.used \in Nat /\ p + c.used \in 0 .. Len(text)
      /\ Len(current) \in Nat /\ Len(longer) = Len(current) + c.length
      /\ current \o SubSeq(buffer, 1, c.length) = longer
      /\ before.start \in 0 .. p
      /\ \/ c.ended = FALSE /\ c.used = c.length /\ after = before /\ c.used > 0
         \/ /\ c.ended = TRUE /\ after.start = p + c.used
            /\ after.answers = before.answers \o Due(server, revision, longer).answers
            /\ after.handed = before.handed \o Due(server, revision, longer).handed
  <2> HIDE DEF text, p, server, revision
  <2>1. before = DueAt(server, revision, text, p) /\ c = Content(SubSeq(text, p + 1, p + n))
    OBVIOUS
  <2> HIDE DEF before, c
  <2>2. Continued(server, revision, text, p, buffer, before, c)
    BY <1>2, <2>1, BytesAreTaken, Zenon
  <2> HIDE DEF buffer
  <2> QED BY <2>2, Zenon DEF Continued
<1>6. /\ taken.ended = c.ended /\ taken.used = c.used
      /\ taken.over = (oversized \/ Len(line) + c.length > MaxLine)
      /\ taken.text = IF oversized \/ Len(line) + c.length > MaxLine THEN <<>>
                      ELSE line \o SubSeq(buffer, 1, c.length)
  BY Zenon DEF Take
<1> HIDE DEF text, p, server, revision, before, current, buffer, c, taken, longer, after
<1>7. /\ taken.over = (Len(longer) > MaxLine)
      /\ taken.text = IF Len(longer) > MaxLine THEN <<>> ELSE longer
  <2>1. CASE Len(current) > MaxLine
    <3>1. Len(longer) > MaxLine
      BY <1>2, <1>5, <2>1
    <3>2. oversized
      BY <1>3, <2>1, Zenon
    <3> QED BY <1>6, <3>1, <3>2, Zenon
  <2>2. CASE ~(Len(current) > MaxLine)
    <3>1. ~oversized /\ line = current
      BY <1>3, <2>2, Zenon
    <3>2. Len(line) + c.length = Len(longer)
      BY <1>5, <3>1
    <3>3. line \o SubSeq(buffer, 1, c.length) = longer
      BY <1>5, <3>1, SMTT(30)
    <3>4. CASE Len(longer) > MaxLine
      <4>1. oversized \/ Len(line) + c.length > MaxLine
        BY <3>2, <3>4
      <4> QED BY <1>6, <3>4, <4>1, Zenon
    <3>5. CASE ~(Len(longer) > MaxLine)
      <4>1. ~(Len(line) + c.length > MaxLine)
        BY <3>2, <3>5
      <4>2. ~(oversized \/ Len(line) + c.length > MaxLine)
        BY <3>1, <4>1, Zenon
      <4>3. taken.text = longer
        BY <1>6, <3>3, <4>2, Zenon
      <4>4. (oversized \/ Len(line) + c.length > MaxLine) = FALSE
        BY <4>2, Zenon
      <4>5. (Len(longer) > MaxLine) = FALSE
        BY <3>5
      <4>6. taken.over = (Len(longer) > MaxLine)
        BY <1>6, <4>4, <4>5, Zenon
      <4> QED BY <3>5, <4>3, <4>6, Zenon
    <3> QED BY <3>4, <3>5
  <2> QED BY <2>1, <2>2
<1> DEFINE due == Due(server, revision, longer)
<1>8. CASE c.ended = FALSE /\ c.used = c.length /\ after = before /\ c.used > 0
  <2>1. /\ pos' = p + c.length /\ line' = taken.text /\ oversized' = taken.over
        /\ readAny' = TRUE /\ answers' = answers /\ dispatched' = dispatched
    BY <1>4, <1>6, <1>8, Zenon DEF buffer, taken
  <2>2. DueAt(StdioServer, published, input, pos')  = before
        /\ SubSeq(input, before.start + 1, pos') = longer
    BY <1>8, <2>1 DEF after, longer, text, server, revision
  <2>3. before.start < pos'
    BY <1>2, <1>5, <1>8, <2>1
  <2>4. pos' \in 0 .. Len(input)
    BY <1>5, <1>8, <2>1 DEF text
  <2> QED BY <1>1, <1>3, <1>7, <2>1, <2>2, <2>3, <2>4, Zenon DEF ReadInv
<1>9. CASE /\ c.ended = TRUE /\ after.start = p + c.used
           /\ after.answers = before.answers \o due.answers
           /\ after.handed = before.handed \o due.handed
  <2>1. pos' = p + c.used /\ Serve(taken.over, taken.text)
    BY <1>4, <1>6, <1>9, Zenon DEF buffer, taken
  <2>3. /\ answers' = after.answers /\ dispatched' = after.handed
        /\ line' = <<>> /\ oversized' = FALSE /\ readAny' = FALSE
    <3> HIDE DEF due
    <3>1. /\ answers' = answers \o due.answers /\ dispatched' = dispatched \o due.handed
          /\ line' = <<>> /\ oversized' = FALSE /\ readAny' = FALSE
      BY <1>7, <2>1, LineIsServed, Zenon DEF due, server, revision
    <3> QED BY <1>3, <1>9, <3>1, Zenon
  <2>4. DueAt(StdioServer, published, input, pos') = after
    BY <2>1 DEF after, text, server, revision
  <2>5. pos' \in 0 .. Len(input) /\ after.start = pos' /\ ~(after.start < pos')
    BY <1>2, <1>5, <1>9, <2>1 DEF text
  <2>6. SubSeq(input, after.start + 1, pos') = <<>>
    BY <1>2, <2>5, EmptySpan, Zenon DEF text
  <2>7. ~(Len(SubSeq(input, after.start + 1, pos')) > MaxLine)
    <3>1. ~(Len(<<>>) > MaxLine)
      BY <1>2
    <3> QED BY <2>6, <3>1, Zenon
  <2>8. oversized' = (Len(SubSeq(input, after.start + 1, pos')) > MaxLine)
        /\ readAny' = (after.start < pos')
    <3>3. (Len(<<>>) > MaxLine) = FALSE
      BY <1>2
    <3>1. (Len(SubSeq(input, after.start + 1, pos')) > MaxLine) = FALSE
      BY <2>6, <3>3, Zenon
    <3>2. (after.start < pos') = FALSE
      BY <2>5
    <3> QED BY <2>3, <3>1, <3>2, Zenon
  <2>9. line' = IF Len(SubSeq(input, after.start + 1, pos')) > MaxLine THEN <<>>
                ELSE SubSeq(input, after.start + 1, pos')
    BY <2>3, <2>6, <2>7, Zenon
  <2>10. transport' # "closed"
    BY <1>1
  <2> QED BY <1>1, <2>3, <2>4, <2>5, <2>8, <2>9, <2>10, Zenon DEF ReadInv
<1> QED BY <1>5, <1>8, <1>9, Zenon

\* Nothing is due for an empty text.
LEMMA NothingIsDue ==
    ASSUME NEW server, NEW revision
    PROVE  /\ DueAt(server, revision, <<>>, 0) = [start |-> 0, answers |-> <<>>, handed |-> <<>>]
           /\ DueFor(server, revision, <<>>).answers = <<>>
           /\ DueFor(server, revision, <<>>).handed = <<>>
<1>1. DueAt(server, revision, <<>>, 0) = [start |-> 0, answers |-> <<>>, handed |-> <<>>]
  BY DueByByte
<1>2. Len(<<>>) = 0
  OBVIOUS
<1> DEFINE read == DueAt(server, revision, <<>>, 0)
<1> HIDE DEF read
<1>3. read.start = 0 /\ read.answers = <<>> /\ read.handed = <<>>
  BY <1>1 DEF read
<1>4. DueFor(server, revision, <<>>) = [answers |-> read.answers, handed |-> read.handed]
  BY <1>2, <1>3, Zenon DEF DueFor, read
<1> QED BY <1>1, <1>3, <1>4

\* At the end of the input the last line is served, whether or not a line feed ended it.
LEMMA EndIsRead ==
    ASSUME ProcessInv, ReadInv, ReadEof
    PROVE  ReadInv'
<1> DEFINE n == Len(input)
           read == DueAt(StdioServer, published, input, n)
           current == SubSeq(input, read.start + 1, n)
           due == DueFor(StdioServer, published, input)
           rest == Due(StdioServer, published, current)
<1>1. /\ input' = input /\ published' = published /\ StdioServer' = StdioServer
      /\ pos = n /\ pos' = n /\ transport = "stdio" /\ n \in Nat
  BY DEF ReadEof, StdioServer, ProcessInv
<1>2. n \in 0 .. n
  BY <1>1
<1>3. CASE readAny
  <2>1. /\ answers = read.answers /\ dispatched = read.handed
        /\ read.start < n /\ oversized = (Len(current) > MaxLine)
        /\ line = IF Len(current) > MaxLine THEN <<>> ELSE current
    BY <1>1, <1>3, Zenon DEF ReadInv
  <2>2. Serve(oversized, line) /\ transport' = transport
    BY <1>3, Zenon DEF ReadEof
  <2>3. /\ answers' = answers \o rest.answers /\ dispatched' = dispatched \o rest.handed
        /\ readAny' = FALSE
    <3> HIDE DEF rest, current
    <3> QED BY <2>1, <2>2, LineIsServed, Zenon DEF rest
  <2>4. due = [answers |-> read.answers \o rest.answers, handed |-> read.handed \o rest.handed]
    <3>1. read.start # n
      BY <1>1, <2>1, StartIsBefore
    <3> QED BY <3>1, Zenon DEF DueFor
  <2> HIDE DEF due, read, rest
  <2>5. due.answers = read.answers \o rest.answers /\ due.handed = read.handed \o rest.handed
    BY <2>4, Zenon
  <2>6. transport' # "closed"
    BY <1>1, <2>2
  <2> QED BY <1>1, <1>2, <2>1, <2>3, <2>5, <2>6, Zenon DEF ReadInv, due
<1>4. CASE ~readAny
  <2>1. /\ line' = line /\ oversized' = oversized /\ readAny' = readAny
        /\ answers' = answers /\ dispatched' = dispatched
    BY <1>4, Zenon DEF ReadEof
  <2> QED BY <1>1, <1>2, <1>4, <2>1, Zenon DEF ReadInv
<1> QED BY <1>3, <1>4

\* A publication changes what is due for nothing: a process that sees one has no stdin.
LEMMA PublicationIsUnread ==
    ASSUME ProcessInv, ReadInv, Publish
    PROVE  ReadInv'
<1>1. /\ transport = "http" /\ input = <<>> /\ transport' = transport /\ input' = input
      /\ pos' = pos /\ readAny' = readAny /\ answers' = answers /\ dispatched' = dispatched
  BY DEF Publish, ProcessInv, stdio
<1>2. Len(input) = 0 /\ pos = 0
  BY <1>1 DEF ReadInv
<1> DEFINE read == DueAt(StdioServer, published, input, pos)
           due == DueFor(StdioServer, published, input)
<1>3. /\ read.start = 0 /\ read.answers = <<>> /\ read.handed = <<>>
      /\ due.answers = <<>> /\ due.handed = <<>>
  BY <1>1, <1>2, NothingIsDue
<1>4. (read.start < pos) = FALSE
  BY <1>2, <1>3
<1>5. answers = <<>> /\ dispatched = <<>> /\ ~readAny
  <2> HIDE DEF read, due
  <2>1. \/ answers = read.answers /\ dispatched = read.handed /\ readAny = (read.start < pos)
        \/ answers = due.answers /\ dispatched = due.handed /\ ~readAny
    BY Zenon DEF ReadInv, read, due
  <2> QED BY <1>3, <1>4, <2>1, Zenon
<1>6. DueFor(StdioServer', published', <<>>).answers = <<>>
      /\ DueFor(StdioServer', published', <<>>).handed = <<>>
  BY NothingIsDue
<1>7. pos' \in 0 .. Len(input') /\ pos' = Len(input')
  BY <1>1, <1>2
<1> QED BY <1>1, <1>5, <1>6, <1>7, Zenon DEF ReadInv

LEMMA ProcessStep ==
    ASSUME ProcessInv, [Next]_vars
    PROVE  ProcessInv'
<1>1. CASE ReadBuffer \/ ReadEof
  <2>1. published' = published /\ input' = input /\ transport' # "http"
    BY <1>1 DEF ReadBuffer, ReadEof
  <2> QED BY <2>1 DEF ProcessInv
<1>2. CASE Publish
  <2>1. /\ published' = published + 1 /\ published < Len(Models)
        /\ input' = input /\ transport' = transport
    BY <1>2 DEF Publish, stdio
  <2>2. published' \in DOMAIN Models
    BY <2>1, McpAssumption DEF ProcessInv
  <2> QED BY <2>1, <2>2 DEF ProcessInv
<1>3. CASE UNCHANGED <<transport, published, input>>
  BY <1>3 DEF ProcessInv
<1>4. ASSUME NEW req, NEW p, NEW up, HttpCall(req, p, up)
      PROVE  UNCHANGED <<transport, published, input>>
  BY <1>4 DEF HttpCall, stdio
<1>5. ASSUME NEW p, NEW limit, Page(p, limit)
      PROVE  UNCHANGED <<transport, published, input>>
  BY <1>5 DEF Page, stdio
<1>6. UNCHANGED vars => UNCHANGED <<transport, published, input>>
  BY DEF vars, stdio
<1> QED BY <1>1, <1>2, <1>3, <1>4, <1>5, <1>6 DEF Next

LEMMA ReadStep ==
    ASSUME ProcessInv, ReadInv, [Next]_vars
    PROVE  ReadInv'
<1>1. CASE UNCHANGED <<transport, config, published, stdio>>
  <2>1. /\ StdioServer' = StdioServer /\ transport' = transport /\ published' = published
        /\ input' = input /\ pos' = pos /\ line' = line /\ oversized' = oversized
        /\ readAny' = readAny /\ answers' = answers /\ dispatched' = dispatched
    BY <1>1 DEF stdio, StdioServer
  <2> QED BY <2>1, Zenon DEF ReadInv
<1>2. ASSUME NEW req, NEW p, NEW up, HttpCall(req, p, up)
      PROVE  UNCHANGED <<transport, config, published, stdio>>
  BY <1>2 DEF HttpCall
<1>3. ASSUME NEW p, NEW limit, Page(p, limit)
      PROVE  UNCHANGED <<transport, config, published, stdio>>
  BY <1>3 DEF Page
<1>4. UNCHANGED vars => UNCHANGED <<transport, config, published, stdio>>
  BY DEF vars
<1> QED
  BY <1>1, <1>2, <1>3, <1>4, BufferIsRead, EndIsRead, PublicationIsUnread DEF Next

\* Init: nothing is read, nothing is due.
LEMMA ReadInit ==
    ASSUME Init
    PROVE  ProcessInv /\ ReadInv
<1>1. /\ published = 1 /\ pos = 0 /\ line = <<>> /\ oversized = FALSE /\ readAny = FALSE
      /\ answers = <<>> /\ dispatched = <<>> /\ transport # "closed"
  BY DEF Init
<1>2. input \in Seq(Range(input)) /\ (transport = "http" => input = <<>>)
  <2>1. CASE transport = "stdio"
    BY <2>1, McpAssumption DEF Init
  <2>2. CASE transport # "stdio"
    <3>1. input = <<>>
      BY <2>2 DEF Init
    <3> QED BY <3>1
  <2> QED BY <2>1, <2>2
<1>3. published \in DOMAIN Models
  BY <1>1, McpAssumption
<1> DEFINE read == DueAt(StdioServer, published, input, pos)
           current == SubSeq(input, read.start + 1, pos)
<1>4. read = [start |-> 0, answers |-> <<>>, handed |-> <<>>]
  BY <1>1, DueByByte
<1>5. read.start = 0 /\ read.answers = <<>> /\ read.handed = <<>>
  <2> HIDE DEF read
  <2> QED BY <1>4
<1>6. current = <<>>
  BY <1>1, <1>2, <1>5, EmptySpan
<1>7. (Len(<<>>) > MaxLine) = FALSE /\ (read.start < pos) = FALSE
  BY <1>1, <1>5, McpAssumption
<1>8. pos \in 0 .. Len(input)
  BY <1>1, <1>2
<1>9. /\ oversized = (Len(current) > MaxLine) /\ readAny = (read.start < pos)
      /\ line = IF Len(current) > MaxLine THEN <<>> ELSE current
  BY <1>1, <1>6, <1>7, Zenon
<1>10. ReadInv
  BY <1>1, <1>5, <1>8, <1>9, Zenon DEF ReadInv
<1> QED BY <1>2, <1>3, <1>10 DEF ProcessInv

LEMMA ReadIsAnswered ==
    ASSUME ProcessInv, ReadInv
    PROVE  LinesAreAnswered
<1> DEFINE n == Len(input)
           read == DueAt(StdioServer, published, input, pos)
           due == DueFor(StdioServer, published, input)
<1>1. n \in Nat /\ pos \in 0 .. n
  BY DEF ProcessInv, ReadInv
<1>2. /\ Begins(read.answers, due.answers) /\ Begins(read.handed, due.handed)
      /\ Begins(due.answers, due.answers) /\ Begins(due.handed, due.handed)
  BY <1>1, DueForBegins
<1>3. \/ answers = read.answers /\ dispatched = read.handed /\ readAny = (read.start < pos)
      \/ answers = due.answers /\ dispatched = due.handed
  BY Zenon DEF ReadInv
<1>4. ASSUME transport = "closed" PROVE answers = due.answers /\ dispatched = due.handed
  <2>1. pos = n /\ ~readAny
    BY <1>4, Zenon DEF ReadInv
  <2>2. CASE answers = read.answers /\ dispatched = read.handed /\ readAny = (read.start < pos)
    <3>1. ~(read.start < pos)
      BY <2>1, <2>2, Zenon
    <3>2. read.start \in 0 .. pos
      BY <1>1, StartIsBefore
    <3>3. read.start = n
      BY <1>1, <2>1, <3>1, <3>2
    <3>4. due = [answers |-> read.answers, handed |-> read.handed]
      BY <2>1, <3>3, Zenon DEF DueFor
    <3> HIDE DEF due, read
    <3> QED BY <2>2, <3>4
  <2> QED BY <1>3, <2>2, Zenon
<1> HIDE DEF due
<1> QED BY <1>2, <1>3, <1>4, Zenon DEF LinesAreAnswered, due

-----------------------------------------------------------------------------
(* The pages of list_semantic_models.                                      *)

\* A page follows the models given so far, and its cursor says where it ends.
Follows(revision, authority, given, reply, end) ==
    LET models == Queryable(revision) IN
    /\ end \in 0 .. Len(models)
    /\ given \o reply.page = SubSeq(models, 1, end)
    /\ \/ /\ end \in 1 .. Len(models) /\ reply.next = ModelCursor(revision, authority, end)
       \/ /\ SubSeq(models, 1, end) = models /\ reply.next = NoCursor

LEMMA PageFollows ==
    ASSUME NEW revision \in DOMAIN Models, NEW server, NEW limit \in 1 .. MaxLimit, NEW cursor,
           NEW off \in 0 .. Len(Queryable(revision)), cursor.offset = off,
           NEW reply, reply = ListPage(server, revision, limit, cursor), reply.code = "OK"
    PROVE  /\ CursorValid(cursor, revision, server.authority)
           /\ \E end : Follows(revision, server.authority,
                               SubSeq(Queryable(revision), 1, off), reply, end)
<1>1. PICK Q : Q = Queryable(revision)
  OBVIOUS
<1>2. PICK S : Q \in Seq(S)
  BY <1>1, QueryableNames, Zenon
<1> DEFINE q == Len(Q)
           end == IF off + limit < q THEN off + limit ELSE q
           next == IF end < q THEN ModelCursor(revision, server.authority, end) ELSE NoCursor
<1>3. q \in Nat /\ off \in 0 .. q /\ limit \in Nat /\ limit > 0
  BY <1>1, <1>2, McpAssumption
<1>4. end \in 0 .. q /\ off <= end /\ (end < q => end > 0)
  BY <1>3
<1>5. /\ CursorValid(cursor, revision, server.authority)
      /\ reply = [Reply("OK", 1, "none") EXCEPT !.page = SubSeq(Q, off + 1, end), !.next = next]
  <2>1. reply = IF ~CursorValid(cursor, revision, server.authority) \/ off > q
                THEN Reply("MCP_INVALID_CURSOR", 1, "none")
                ELSE [Reply("OK", 1, "none") EXCEPT !.page = SubSeq(Q, off + 1, end),
                                                     !.next = next]
    BY <1>1, Zenon DEF ListPage
  <2> HIDE DEF end, next
  <2>2. Reply("MCP_INVALID_CURSOR", 1, "none").code # "OK"
    BY DEF Reply
  <2> QED BY <2>1, <2>2
<1>6. reply.page = SubSeq(Q, off + 1, end) /\ reply.next = next
  <2> HIDE DEF end, next
  <2> QED BY <1>5, Zenon DEF Reply
<1> HIDE DEF end
<1>7. SubSeq(Q, 1, off) \o SubSeq(Q, off + 1, end) = SubSeq(Q, 1, end)
  <2>1. PICK k \in Nat : end = off + k
    BY <1>3, <1>4
  <2>2. SubSeq(Q, 0 + 1, off) \o SubSeq(Q, off + 1, off + k) = SubSeq(Q, 0 + 1, off + k)
    BY <1>2, <1>3, <1>4, <2>1, SpanJoins
  <2> QED BY <2>1, <2>2
<1>8. CASE end < q
  <2>1. end \in 1 .. q /\ next = ModelCursor(revision, server.authority, end)
    BY <1>3, <1>4, <1>8
  <2> HIDE DEF next
  <2> QED BY <1>1, <1>4, <1>5, <1>6, <1>7, <2>1, Zenon DEF Follows
<1>9. CASE ~(end < q)
  <2>1. end = q /\ next = NoCursor
    BY <1>3, <1>4, <1>9
  <2>2. SubSeq(Q, 1, end) = Q
    BY <1>2, <2>1
  <2> HIDE DEF next
  <2> QED BY <1>1, <1>4, <1>5, <1>6, <1>7, <2>1, <2>2, Zenon DEF Follows
<1> QED BY <1>8, <1>9

\* A page continues the walk, ends it or makes the client start again.
LEMMA PageStep ==
    ASSUME ProcessInv, WalkInv, NEW sent, NEW limit \in 1 .. MaxLimit, Page(sent, limit)
    PROVE  WalkInv'
<1> DEFINE server == ServerFor(sent)
           authority == sent.authority
           reply == ListPage(server, published, limit, walk.cursor)
           Q == Queryable(published)
<1>1. /\ ~walk.done /\ published' = published /\ published \in DOMAIN Models
      /\ walk' = IF reply.code # "OK"
                 THEN [walk EXCEPT !.cursor = NoCursor, !.models = <<>>, !.by = {}]
                 ELSE [revision |-> published, by |-> walk.by \cup {authority},
                       models |-> walk.models \o reply.page, cursor |-> reply.next,
                       done |-> reply.next = NoCursor]
  BY Zenon DEF Page, ProcessInv
<1>2. server.authority = authority
  BY DEF ServerFor
<1>3. PICK S : Q \in Seq(S)
  BY <1>1, QueryableNames, Zenon
<1> HIDE DEF server, authority, Q
<1>4. CASE reply.code # "OK"
  <2> HIDE DEF reply
  <2>1. walk' = [walk EXCEPT !.cursor = NoCursor, !.models = <<>>, !.by = {}]
    BY <1>1, <1>4, Zenon
  <2>2. DOMAIN walk = {"revision", "by", "models", "cursor", "done"}
    BY DEF WalkInv
  <2>3. /\ DOMAIN walk' = {"revision", "by", "models", "cursor", "done"}
        /\ walk'.cursor = NoCursor /\ walk'.models = <<>> /\ walk'.by = {}
        /\ walk'.done = walk.done
    BY <2>1, <2>2
  <2>4. ~walk'.done
    BY <1>1, <2>3, Zenon
  <2> QED BY <2>3, <2>4, Zenon DEF WalkInv
<1>5. CASE reply.code = "OK"
  <2>1. PICK off, end :
           /\ off \in 0 .. Len(Q) /\ walk.models = SubSeq(Q, 1, off)
           /\ walk.by \cup {authority} = {authority}
           /\ Follows(published, authority, walk.models, reply, end)
    <3>1. CASE walk.cursor = NoCursor /\ walk.models = <<>> /\ walk.by = {}
      <4>1. walk.cursor.offset = 0 /\ 0 \in 0 .. Len(Q) /\ SubSeq(Q, 1, 0) = <<>>
        BY <1>3, <3>1 DEF NoCursor
      <4>2. \E end : Follows(published, authority, SubSeq(Q, 1, 0), reply, end)
        BY <1>1, <1>2, <1>5, <4>1, PageFollows, Zenon DEF Q
      <4> HIDE DEF reply
      <4> QED BY <3>1, <4>1, <4>2, Zenon
    <3>2. ASSUME NEW a \in walk.by, NEW n \in 1 .. Len(Queryable(walk.revision)),
                 walk.by = {a}, walk.cursor = ModelCursor(walk.revision, a, n),
                 walk.models = SubSeq(Queryable(walk.revision), 1, n),
                 walk.revision \in DOMAIN Models
          PROVE  \E off, end :
                    /\ off \in 0 .. Len(Q) /\ walk.models = SubSeq(Q, 1, off)
                    /\ walk.by \cup {authority} = {authority}
                    /\ Follows(published, authority, walk.models, reply, end)
      <4>1. walk.cursor.form = "v2" /\ walk.cursor.revision = walk.revision
            /\ walk.cursor.authority = a /\ walk.cursor.offset = n
        BY <3>2 DEF ModelCursor
      <4>2. CursorValid(walk.cursor, published, server.authority)
        <5>1. Reply("MCP_INVALID_CURSOR", 1, "none").code # "OK"
          BY DEF Reply
        <5> QED BY <1>5, <5>1 DEF ListPage
      <4>3. walk.revision = published /\ a = authority
        BY <1>2, <4>1, <4>2 DEF CursorValid
      <4>4. n \in 0 .. Len(Q) /\ walk.models = SubSeq(Q, 1, n)
        BY <1>3, <3>2, <4>3 DEF Q
      <4>5. \E end : Follows(published, authority, SubSeq(Q, 1, n), reply, end)
        BY <1>1, <1>2, <1>5, <4>1, <4>4, PageFollows, Zenon DEF Q
      <4> HIDE DEF reply
      <4> QED BY <3>2, <4>3, <4>4, <4>5, Zenon
    <3> HIDE DEF reply
    <3>3. \/ walk.cursor = NoCursor /\ walk.models = <<>> /\ walk.by = {}
          \/ /\ walk.revision \in DOMAIN Models
             /\ \E a \in walk.by, n \in 1 .. Len(Queryable(walk.revision)) :
                   /\ walk.by = {a} /\ walk.cursor = ModelCursor(walk.revision, a, n)
                   /\ walk.models = SubSeq(Queryable(walk.revision), 1, n)
      BY <1>1, Zenon DEF WalkInv
    <3> QED BY <3>1, <3>2, <3>3, Zenon
  <2> HIDE DEF reply
  <2>2. walk' = [revision |-> published, by |-> walk.by \cup {authority},
                 models |-> walk.models \o reply.page, cursor |-> reply.next,
                 done |-> reply.next = NoCursor]
    BY <1>1, <1>5, Zenon
  <2>3. /\ DOMAIN walk' = {"revision", "by", "models", "cursor", "done"}
        /\ walk'.revision = published /\ walk'.by = {authority}
        /\ walk'.models = walk.models \o reply.page /\ walk'.cursor = reply.next
    BY <2>1, <2>2, Zenon
  <2>4. walk'.done = (reply.next = NoCursor)
    BY <2>2, Zenon
  <2>5. /\ end \in 0 .. Len(Q) /\ walk.models \o reply.page = SubSeq(Q, 1, end)
        /\ \/ end \in 1 .. Len(Q) /\ reply.next = ModelCursor(published, authority, end)
           \/ SubSeq(Q, 1, end) = Q /\ reply.next = NoCursor
    BY <2>1, Zenon DEF Follows, Q
  <2>6. CASE end \in 1 .. Len(Q) /\ reply.next = ModelCursor(published, authority, end)
    <3>1. reply.next # NoCursor
      BY <2>6 DEF ModelCursor, NoCursor
    <3>2. ~walk'.done
      BY <2>4, <3>1, Zenon
    <3>3. \E a \in walk'.by, n \in 1 .. Len(Queryable(walk'.revision)) :
              /\ walk'.by = {a}
              /\ walk'.cursor = ModelCursor(walk'.revision, a, n)
              /\ walk'.models = SubSeq(Queryable(walk'.revision), 1, n)
      BY <2>3, <2>5, <2>6, Zenon DEF Q
    <3> QED BY <1>1, <2>3, <3>2, <3>3, Zenon DEF WalkInv
  <2>7. CASE SubSeq(Q, 1, end) = Q /\ reply.next = NoCursor
    <3>1. walk'.done
      BY <2>4, <2>7, Zenon
    <3>2. walk'.models = Queryable(walk'.revision)
      BY <2>3, <2>5, <2>7 DEF Q
    <3>3. \A a, b \in walk'.by : a = b
      BY <2>3
    <3> QED BY <1>1, <2>3, <3>1, <3>2, <3>3, Zenon DEF WalkInv
  <2> QED BY <2>5, <2>6, <2>7
<1> QED BY <1>4, <1>5

LEMMA WalkStep ==
    ASSUME ProcessInv, WalkInv, [Next]_vars
    PROVE  WalkInv'
<1>1. CASE walk' = walk
  BY <1>1, Zenon DEF WalkInv
<1>2. ASSUME NEW req, NEW p, NEW up, HttpCall(req, p, up) PROVE walk' = walk
  BY <1>2 DEF HttpCall
<1>3. ReadBuffer \/ ReadEof \/ Publish \/ UNCHANGED vars => walk' = walk
  BY DEF ReadBuffer, ReadEof, Publish, vars
<1> QED BY <1>1, <1>2, <1>3, PageStep DEF Next

LEMMA WalkedExactly ==
    ASSUME WalkInv
    PROVE  WalkIsExact
<1> DEFINE Q == Queryable(walk.revision)
<1>1. CASE ~walk.done /\ walk.models = <<>> /\ walk.by = {}
  BY <1>1, Zenon DEF WalkIsExact
<1>2. ASSUME NEW a, NEW n \in 1 .. Len(Q), ~walk.done, walk.revision \in DOMAIN Models,
             walk.by = {a}, walk.models = SubSeq(Q, 1, n)
      PROVE  WalkIsExact
  <2>1. Q \in Seq({Models[walk.revision][i].name : i \in DOMAIN Models[walk.revision]})
    BY <1>2, QueryableNames
  <2> HIDE DEF Q
  <2>2. Begins(walk.models, Q)
    BY <1>2, <2>1 DEF Begins
  <2>3. \A x, y \in walk.by : x = y
    BY <1>2
  <2> QED BY <1>2, <2>2, <2>3, Zenon DEF WalkIsExact, Q
<1>3. CASE /\ walk.done /\ walk.revision \in DOMAIN Models /\ walk.models = Q
           /\ \A a, b \in walk.by : a = b
  <2>1. Q \in Seq({Models[walk.revision][i].name : i \in DOMAIN Models[walk.revision]})
    BY <1>3, QueryableNames
  <2> HIDE DEF Q
  <2>2. Begins(walk.models, Q)
    BY <1>3, <2>1, BeginsItself
  <2> QED BY <1>3, <2>2, Zenon DEF WalkIsExact, Q
<1> QED BY <1>1, <1>2, <1>3, Zenon DEF WalkInv

-----------------------------------------------------------------------------
(* The calls over HTTP.                                                    *)

Refusals == {"MUTATION_CAPABILITY_DISABLED", "MCP_TOOL_NOT_FOUND", "MCP_INVALID_PARAMS"}

\* What a tool does with the connections it may open, and as what it is known.
ToolCovered(server, req, reply) ==
    /\ reply.opens \in 0 .. 2
    /\ reply.runs # "none" =>
          /\ reply.runs = req.name /\ req.name \in ListedTools(server)
          /\ req.name \in {"query_semantic_model", "mutate_semantic_model"}
    /\ req.name \notin ListedTools(server) => reply.opens = 0
    /\ req.arguments /\ req.version =>
          (reply.code \in Refusals <=> req.name \notin ListedTools(server))

LEMMA ListingIsCovered ==
    ASSUME NEW server, NEW revision, NEW req, NEW reply,
           reply = ListModels(server, revision, req)
    PROVE  reply.opens \in {0, 1} /\ reply.runs = "none" /\ reply.code \notin Refusals
<1> DEFINE Covered(r) == r.opens \in {0, 1} /\ r.runs = "none" /\ r.code \notin Refusals
<1>1. \A code \in {"OK", "MCP_INVALID_PAGINATION", "MCP_INVALID_CURSOR"}, opens \in {0, 1} :
         Covered(Reply(code, opens, "none"))
  BY DEF Reply, Refusals
<1>4. \A page, next : Covered([Reply("OK", 1, "none") EXCEPT !.page = page, !.next = next])
  BY DEF Reply, Refusals
<1> HIDE DEF Covered
<1>2. ASSUME NEW limit PROVE Covered(ListPage(server, revision, limit, req.cursor))
  <2> DEFINE models == Queryable(revision)
             end == IF req.cursor.offset + limit < Len(models) THEN req.cursor.offset + limit
                    ELSE Len(models)
             page == SubSeq(models, req.cursor.offset + 1, end)
             next == IF end < Len(models) THEN ModelCursor(revision, server.authority, end)
                     ELSE NoCursor
  <2>1. \/ ListPage(server, revision, limit, req.cursor) = Reply("MCP_INVALID_CURSOR", 1, "none")
        \/ ListPage(server, revision, limit, req.cursor)
              = [Reply("OK", 1, "none") EXCEPT !.page = page, !.next = next]
    BY Zenon DEF ListPage
  <2> HIDE DEF page, next
  <2>2. Covered([Reply("OK", 1, "none") EXCEPT !.page = page, !.next = next])
    BY <1>4, Zenon
  <2> QED BY <1>1, <2>1, <2>2
<1>3. Covered(reply)
  BY <1>1, <1>2 DEF ListModels
<1> QED BY <1>3 DEF Covered

LEMMA ToolIsCovered ==
    ASSUME NEW server, NEW revision, NEW req, req.document \in {"ok", "syntax", "reference"},
           NEW reply, reply = CallTool(server, revision, req)
    PROVE  ToolCovered(server, req, reply)
<1> DEFINE Listed == ListedTools(server)
<1>1. \A code, opens, runs : /\ Reply(code, opens, runs).code = code
                            /\ Reply(code, opens, runs).opens = opens
                            /\ Reply(code, opens, runs).runs = runs
  BY DEF Reply
<1>2. CASE req.name \notin QueryTools \cup MutationTools
  <2>1. reply = Reply("MCP_TOOL_NOT_FOUND", 0, "none") /\ req.name \notin Listed
    BY <1>2 DEF CallTool, ListedTools
  <2> QED BY <1>1, <2>1 DEF ToolCovered, Refusals
<1>3. CASE req.name \in QueryTools \cup MutationTools /\ ArgumentsError(req) # "none"
  <2>1. reply = Reply(ArgumentsError(req), 0, "none")
    BY <1>3 DEF CallTool
  <2>2. ~(req.arguments /\ req.version)
    BY <1>3, Zenon DEF ArgumentsError
  <2> QED BY <1>1, <2>1, <2>2 DEF ToolCovered
<1>4. CASE req.name \in QueryTools /\ ArgumentsError(req) = "none"
  <2>1. req.name \in Listed
    BY <1>4 DEF ListedTools
  <2>2. /\ reply.opens \in 0 .. 2 /\ reply.code \notin Refusals
        /\ reply.runs # "none" => reply.runs = req.name /\ req.name = "query_semantic_model"
    <3>1. CASE req.name = "list_semantic_models"
      <4>1. reply = ListModels(server, revision, req)
        BY <1>4, <3>1 DEF CallTool, QueryTools
      <4> QED BY <4>1, ListingIsCovered
    <3>2. CASE req.name = "describe_semantic_model"
      <4>1. reply = DescribeModel(revision, req)
        BY <1>4, <3>2 DEF CallTool, QueryTools
      <4> QED BY <1>1, <4>1 DEF DescribeModel, Refusals
    <3>3. CASE req.name \in {"validate_semantic_query", "explain_semantic_query"}
      <4>1. reply = CheckQuery(req)
        BY <1>4, <3>3 DEF CallTool, QueryTools
      <4> QED BY <1>1, <4>1 DEF CheckQuery, DocumentError, Refusals
    <3>4. CASE req.name = "query_semantic_model"
      <4>1. reply = QueryModel(req)
        BY <1>4, <3>4 DEF CallTool, QueryTools
      <4> QED BY <1>1, <3>4, <4>1 DEF QueryModel, DocumentError, Refusals
    <3> QED BY <1>4, <3>1, <3>2, <3>3, <3>4 DEF QueryTools
  <2> QED BY <2>1, <2>2 DEF ToolCovered
<1>5. CASE req.name \in MutationTools /\ ArgumentsError(req) = "none"
  <2>1. /\ req.name \notin QueryTools
        /\ req.name \in {"validate_semantic_mutation", "mutate_semantic_model",
                         "reconcile_semantic_mutation"}
    BY <1>5 DEF QueryTools, MutationTools
  <2>2. \/ req.name = "validate_semantic_mutation" /\ reply = CheckMutation(server, req)
        \/ req.name = "mutate_semantic_model" /\ reply = MutateModel(server, req)
        \/ req.name = "reconcile_semantic_mutation" /\ reply = ReconcileMutation(server, req)
    BY <1>5, <2>1 DEF CallTool
  <2>3. CASE ~server.mutation
    <3>1. req.name \notin Listed
      BY <2>1, <2>3 DEF ListedTools
    <3>2. reply = Reply("MUTATION_CAPABILITY_DISABLED", 0, "none")
      BY <2>2, <2>3 DEF CheckMutation, MutateModel, ReconcileMutation
    <3> QED BY <1>1, <3>1, <3>2 DEF ToolCovered, Refusals
  <2>4. CASE server.mutation
    <3>1. req.name \in Listed
      BY <1>5, <2>4 DEF ListedTools
    <3>2. /\ reply.opens \in 0 .. 2 /\ reply.code \notin Refusals
          /\ reply.runs # "none" => reply.runs = req.name /\ req.name = "mutate_semantic_model"
      <4>1. CASE req.name = "validate_semantic_mutation" /\ reply = CheckMutation(server, req)
        BY <1>1, <2>4, <4>1 DEF CheckMutation, DocumentError, Refusals
      <4>2. CASE req.name = "mutate_semantic_model" /\ reply = MutateModel(server, req)
        BY <1>1, <2>4, <4>2 DEF MutateModel, DocumentError, Refusals
      <4>3. CASE reply = ReconcileMutation(server, req)
        BY <1>1, <2>4, <4>3 DEF ReconcileMutation, Refusals
      <4> QED BY <2>2, <4>1, <4>2, <4>3
    <3> QED BY <3>1, <3>2 DEF ToolCovered
  <2> QED BY <2>3, <2>4
<1> QED BY <1>2, <1>3, <1>4, <1>5

\* A resource is read exactly if it is listed.
ResourceCovered(server, revision, req, reply) ==
    /\ reply.opens \in 0 .. 2 /\ reply.runs = "none"
    /\ reply.code = "OK" <=> req.name \in ListResources(server, revision)

LEMMA ResourceIsCovered ==
    ASSUME NEW server, NEW revision, NEW req, NEW reply,
           reply = ReadResource(server, revision, req.name)
    PROVE  ResourceCovered(server, revision, req, reply)
<1>1. \A code, opens, runs : /\ Reply(code, opens, runs).code = code
                            /\ Reply(code, opens, runs).opens = opens
                            /\ Reply(code, opens, runs).runs = runs
  BY DEF Reply
<1> DEFINE names == Range(Queryable(revision))
<1> HIDE DEF names
<1>2. CASE req.name = "lsq_schema" \/ (req.name = "lsm_schema" /\ server.mutation)
  <2>1. reply = Reply("OK", 0, "none")
    BY <1>2, Zenon DEF ReadResource
  <2>2. req.name \in ListResources(server, revision)
    BY <1>2 DEF ListResources
  <2> QED BY <1>1, <2>1, <2>2 DEF ResourceCovered
<1>3. CASE ~(req.name = "lsq_schema" \/ (req.name = "lsm_schema" /\ server.mutation))
  <2>1. reply = IF req.name = "current_revision" \/ req.name \in names
                THEN Reply("OK", 1, "none") ELSE Reply("MCP_RESOURCE_NOT_FOUND", 1, "none")
    BY <1>3, Zenon DEF ReadResource, names
  <2>2. ListResources(server, revision)
           = {"current_revision", "lsq_schema"} \cup names
                \cup IF server.mutation THEN {"lsm_schema"} ELSE {}
    BY Zenon DEF ListResources, names
  <2>3. req.name \in ListResources(server, revision)
           <=> req.name = "current_revision" \/ req.name \in names
    BY <1>3, <2>2
  <2> QED BY <1>1, <2>1, <2>3 DEF ResourceCovered
<1> QED BY <1>2, <1>3

\* A database that cannot be reached changes the code of an answer and nothing else
\* that matters here.
LEMMA ReachedIsCovered ==
    ASSUME NEW req, NEW answer, NEW up, NEW reply, reply = Reached(req, answer, up)
    PROVE  \/ reply = answer
           \/ /\ ~up /\ answer.opens # 0 /\ reply.opens = answer.opens /\ reply.runs = "none"
              /\ reply.code \notin Refusals
<1> DEFINE code == IF req.method # "tools/call" THEN "SEMANTIC_SNAPSHOT_UNAVAILABLE"
                   ELSE IF req.name = "query_semantic_model" THEN "EXECUTOR_QUERY_FAILED"
                   ELSE IF req.name \in {"mutate_semantic_model", "reconcile_semantic_mutation"}
                   THEN "MUTATION_FAILED" ELSE "SEMANTIC_SNAPSHOT_UNAVAILABLE"
<1>1. code \notin Refusals
  BY DEF Refusals
<1>2. reply = IF up \/ answer.opens = 0 THEN answer ELSE Reply(code, answer.opens, "none")
  BY Zenon DEF Reached
<1> HIDE DEF code
<1>3. /\ Reply(code, answer.opens, "none").code = code
      /\ Reply(code, answer.opens, "none").opens = answer.opens
      /\ Reply(code, answer.opens, "none").runs = "none"
  BY DEF Reply
<1> QED BY <1>1, <1>2, <1>3, Zenon

\* What is said of a call, with equivalences for equalities.
Covered(call, revision) ==
    /\ call.reply.opens <= call.permits
    /\ call.reply.runs # "none" =>
          /\ call.streamed /\ call.reply.runs = call.req.header.name
          /\ call.reply.runs \in ListedTools(call.server)
    /\ call.req.method = "tools/call" /\ call.req.arguments /\ call.req.version =>
          (call.reply.code \in Refusals <=> call.req.name \notin ListedTools(call.server))
    /\ call.req.method = "resources/read" /\ call.up =>
          (call.reply.code = "OK" <=> call.req.name \in ListResources(call.server, revision))

LEMMA CallIsCovered ==
    ASSUME NEW req \in Requests, NEW server, NEW up, NEW call, published \in DOMAIN Models,
           Rejection(req) = "none", call.req = req, call.server = server, call.up = up,
           call.permits = Permits(req), call.streamed = Streams(req),
           call.reply = Reached(req, Dispatch(server, published, req, TRUE), up)
    PROVE  Covered(call, published)
<1> DEFINE answer == Dispatch(server, published, req, TRUE)
           Invalid == Reply("MCP_INVALID_PARAMS", 0, "none")
<1>1. req.params /\ NameHeaderValid(req) /\ req.method \in KnownMethods
  BY Zenon DEF Rejection
<1>2. \A code, opens, runs : /\ Reply(code, opens, runs).code = code
                            /\ Reply(code, opens, runs).opens = opens
                            /\ Reply(code, opens, runs).runs = runs
  BY DEF Reply
<1>3. PICK reply : reply = call.reply
  BY Zenon
<1>4. \/ reply = answer
      \/ /\ ~up /\ answer.opens # 0 /\ reply.opens = answer.opens /\ reply.runs = "none"
         /\ reply.code \notin Refusals
  <2> HIDE DEF answer
  <2>1. reply = Reached(req, answer, up)
    BY <1>3 DEF answer
  <2> QED BY <2>1, ReachedIsCovered
<1>5. CASE req.method = "tools/call"
  <2>1. call.permits = 2
    BY <1>5 DEF Permits
  <2>2. CASE req.name = "none"
    <3>1. answer = Invalid
      BY <1>5, <2>2 DEF Dispatch, Simple
    <3> HIDE DEF answer
    <3>2. reply.opens = 0 /\ reply.runs = "none" /\ reply.code = "MCP_INVALID_PARAMS"
      BY <1>2, <1>4, <3>1
    <3>3. req.name \notin ListedTools(server)
      BY <2>2 DEF ListedTools, QueryTools, MutationTools
    <3>4. reply.opens <= call.permits /\ reply.code \in Refusals
      BY <2>1, <3>2 DEF Refusals
    <3>5. call.req.method # "resources/read"
      BY <1>5
    <3> QED BY <1>3, <3>2, <3>3, <3>4, <3>5, Zenon DEF Covered
  <2>3. CASE req.name # "none"
    <3>1. answer = CallTool(server, published, req)
      BY <1>1, <1>5, <2>3 DEF Dispatch, Simple
    <3> HIDE DEF answer
    <3>2. ToolCovered(server, req, answer)
      BY <3>1, McpAssumption, ToolIsCovered
    <3>3. req.header.name = req.name
      BY <1>1, <1>5, <2>3, Zenon DEF NameHeaderValid
    <3>4. ToolCovered(server, req, reply)
      BY <1>4, <3>2 DEF ToolCovered
    <3>5. reply.opens <= call.permits
      BY <2>1, <3>4 DEF ToolCovered
    <3>6. reply.runs # "none" =>
             call.streamed /\ reply.runs = req.header.name /\ reply.runs \in ListedTools(server)
      BY <1>5, <3>3, <3>4, Zenon DEF ToolCovered, Streams
    <3> QED BY <1>3, <1>5, <3>4, <3>5, <3>6, Zenon DEF Covered, ToolCovered
  <2> QED BY <2>2, <2>3
<1>6. CASE req.method = "resources/read"
  <2>1. call.permits = 2
    BY <1>6 DEF Permits
  <2>2. ResourceCovered(server, published, req, answer)
    <3>1. CASE req.name = "none"
      <4>1. answer = Invalid
        BY <1>6, <3>1 DEF Dispatch, Simple
      <4> HIDE DEF answer
      <4>2. req.name \notin ListResources(server, published)
        <5>1. Queryable(published) \in Seq({Models[published][i].name : i \in DOMAIN Models[published]})
          BY QueryableNames
        <5>2. Range(Queryable(published))
                 \subseteq {Models[published][i].name : i \in DOMAIN Models[published]}
          BY <5>1 DEF Range
        <5>3. "none" \notin Range(Queryable(published))
          BY <5>2, McpAssumption
        <5> QED BY <3>1, <5>3 DEF ListResources
      <4> QED BY <1>2, <4>1, <4>2 DEF ResourceCovered
    <3>2. CASE req.name # "none"
      <4>1. answer = ReadResource(server, published, req.name)
        BY <1>1, <1>6, <3>2 DEF Dispatch, Simple
      <4> HIDE DEF answer
      <4> QED BY <4>1, ResourceIsCovered
    <3> QED BY <3>1, <3>2, Zenon
  <2> HIDE DEF answer
  <2>3. /\ reply.opens <= call.permits /\ reply.runs = "none"
        /\ up => (reply.code = "OK" <=> req.name \in ListResources(server, published))
    BY <1>4, <2>1, <2>2 DEF ResourceCovered
  <2> QED BY <1>3, <1>6, <2>3, Zenon DEF Covered
<1>7. CASE req.method \in {"server/discover", "ping", "tools/list", "resources/list"}
  <2>1. answer = Invalid \/ answer = Reply("OK", IF req.method = "resources/list" THEN 1 ELSE 0, "none")
    BY <1>7 DEF Dispatch, Simple
  <2> HIDE DEF answer
  <2>2. /\ answer.opens = 0 \/ (answer.opens = 1 /\ req.method = "resources/list")
        /\ answer.runs = "none"
    BY <1>2, <2>1
  <2>3. reply.opens <= call.permits /\ reply.runs = "none"
    BY <1>4, <2>2 DEF Permits
  <2> QED BY <1>3, <1>7, <2>3, Zenon DEF Covered
<1> QED BY <1>1, <1>5, <1>6, <1>7 DEF KnownMethods

LEMMA CoveredCalls ==
    ASSUME NEW call, NEW revision, Covered(call, revision)
    PROVE  /\ call.reply.opens <= call.permits
           /\ call.reply.runs # "none" =>
                 /\ call.streamed /\ call.reply.runs = call.req.header.name
                 /\ call.reply.runs \in ListedTools(call.server)
           /\ call.req.method = "tools/call" /\ call.req.arguments /\ call.req.version =>
                 (call.reply.code \in {"MUTATION_CAPABILITY_DISABLED", "MCP_TOOL_NOT_FOUND",
                                       "MCP_INVALID_PARAMS"})
                     = (call.req.name \notin ListedTools(call.server))
           /\ call.req.method = "resources/read" /\ call.up =>
                 (call.reply.code = "OK")
                     = (call.req.name \in ListResources(call.server, revision))
<1>1. /\ call.reply.opens <= call.permits
      /\ call.reply.runs # "none" =>
            /\ call.streamed /\ call.reply.runs = call.req.header.name
            /\ call.reply.runs \in ListedTools(call.server)
  BY Zenon DEF Covered
<1>2. ASSUME call.req.method = "tools/call", call.req.arguments, call.req.version
      PROVE  (call.reply.code \in Refusals) = (call.req.name \notin ListedTools(call.server))
  <2>1. call.reply.code \in Refusals <=> call.req.name \notin ListedTools(call.server)
    BY <1>2, Zenon DEF Covered
  <2> QED BY <2>1
<1>3. ASSUME call.req.method = "resources/read", call.up
      PROVE  (call.reply.code = "OK") = (call.req.name \in ListResources(call.server, revision))
  <2>1. call.reply.code = "OK" <=> call.req.name \in ListResources(call.server, revision)
    BY <1>3, Zenon DEF Covered
  <2> QED BY <2>1
<1> QED BY <1>1, <1>2, <1>3, Zenon DEF Refusals

LEMMA CallsStep ==
    ASSUME ProcessInv, CallsAreCovered, [Next]_vars
    PROVE  CallsAreCovered'
<1>1. ASSUME NEW req \in Requests, NEW p, NEW up, HttpCall(req, p, up)
      PROVE  CallsAreCovered'
  <2> DEFINE server == ServerFor(p)
             reply == Reached(req, Dispatch(server, published, req, TRUE), up)
  <2>1. /\ published' = published /\ published \in DOMAIN Models
        /\ last' = IF Rejection(req) # "none" THEN NoCall
                   ELSE [done |-> TRUE, req |-> req, server |-> server,
                         permits |-> Permits(req), streamed |-> Streams(req), up |-> up,
                         reply |-> reply]
    BY <1>1, Zenon DEF HttpCall, ProcessInv
  <2>2. CASE Rejection(req) # "none"
    <3>1. last' = [done |-> FALSE]
      BY <2>1, <2>2, Zenon DEF NoCall
    <3>2. ~last'.done
      BY <3>1
    <3> QED BY <3>2, Zenon DEF CallsAreCovered
  <2>3. CASE Rejection(req) = "none"
    <3> HIDE DEF server, reply
    <3>1. last' = [done |-> TRUE, req |-> req, server |-> server,
                   permits |-> Permits(req), streamed |-> Streams(req), up |-> up,
                   reply |-> reply]
      BY <2>1, <2>3, Zenon
    <3>2. /\ last'.req = req /\ last'.server = server /\ last'.permits = Permits(req)
          /\ last'.reply = reply /\ last'.up = up
      BY <3>1
    <3>3. last'.streamed = Streams(req)
      BY <3>1, Zenon
    <3>4. Covered(last', published)
      BY <2>1, <2>3, <3>2, <3>3, CallIsCovered, Zenon DEF reply
    <3>5. PICK call : call = last'
      OBVIOUS
    <3>6. Covered(call, published)
      BY <3>4, <3>5
    <3>7. /\ call.reply.opens <= call.permits
          /\ call.reply.runs # "none" =>
                /\ call.streamed /\ call.reply.runs = call.req.header.name
                /\ call.reply.runs \in ListedTools(call.server)
          /\ call.req.method = "tools/call" /\ call.req.arguments /\ call.req.version =>
                (call.reply.code \in {"MUTATION_CAPABILITY_DISABLED", "MCP_TOOL_NOT_FOUND",
                                      "MCP_INVALID_PARAMS"})
                    = (call.req.name \notin ListedTools(call.server))
          /\ call.req.method = "resources/read" /\ call.up =>
                (call.reply.code = "OK")
                    = (call.req.name \in ListResources(call.server, published))
      BY <3>6, CoveredCalls, Zenon
    <3> QED BY <2>1, <3>5, <3>7, Zenon DEF CallsAreCovered
  <2> QED BY <2>2, <2>3
<1>2. CASE UNCHANGED <<last, published>>
  BY <1>2, Zenon DEF CallsAreCovered, ListResources
<1>3. CASE Publish
  <2>1. ~last'.done
    BY <1>3 DEF Publish, NoCall
  <2> QED BY <2>1, Zenon DEF CallsAreCovered
<1>4. ASSUME NEW p, NEW limit, Page(p, limit)
      PROVE  UNCHANGED <<last, published>>
  BY <1>4 DEF Page
<1>5. ReadBuffer \/ ReadEof \/ UNCHANGED vars => UNCHANGED <<last, published>>
  BY DEF ReadBuffer, ReadEof, vars
<1> QED BY <1>1, <1>2, <1>3, <1>4, <1>5 DEF Next

-----------------------------------------------------------------------------
(* Theorems.                                                               *)

\* Whatever the buffers the input comes in and the pages a client asks for, the line
\* read so far is what follows the last line feed, and a cursor says how much of its
\* revision its client has (read_bounded_line, list_semantic_models).
THEOREM McpInvariance == Spec => []McpInv
<1>1. Init => McpInv
  <2>1. Init => WalkInv
    BY DEF Init, WalkInv
  <2> QED BY <2>1, ReadInit DEF McpInv
<1>2. McpInv /\ [Next]_vars => McpInv'
  BY ProcessStep, ReadStep, WalkStep DEF McpInv
<1> QED BY <1>1, <1>2, PTL DEF Spec

\* For an input of any length, in buffers of any size, and any limit on a line: the
\* answers are those of its lines, in order, and a line over the limit is refused once
\* and never dispatched (read_bounded_line, serve_io).
THEOREM LinesAreAlwaysAnswered == Spec => []LinesAreAnswered
<1>1. McpInv => LinesAreAnswered
  BY ReadIsAnswered DEF McpInv
<1> QED BY <1>1, McpInvariance, PTL

\* For any number of models, revisions and clients, and pages of any size: the pages a
\* client has followed are the beginning of one revision's queryable models, for one
\* authority, and all of them at the end (list_semantic_models, parse_cursor).
THEOREM WalksAreExact == Spec => []WalkIsExact
<1>1. McpInv => WalkIsExact
  BY WalkedExactly DEF McpInv
<1> QED BY <1>1, McpInvariance, PTL

\* Every call over HTTP opens no more connections than it has permits, executes only
\* what is listed, as a stream and under the name in its header, and reads exactly the
\* resources that are listed (handle_mcp, call_tool_with_cancel, read_resource).
THEOREM CallsStayCovered == Spec => []CallsAreCovered
<1>1. Init => CallsAreCovered
  <2>1. Init => ~last.done
    BY DEF Init, NoCall
  <2> QED BY <2>1, Zenon DEF CallsAreCovered
<1>2. ProcessInv /\ CallsAreCovered /\ [Next]_vars => CallsAreCovered'
  BY CallsStep
<1>3. McpInv => ProcessInv
  BY DEF McpInv
<1> QED BY <1>1, <1>2, <1>3, McpInvariance, PTL DEF Spec
=============================================================================
