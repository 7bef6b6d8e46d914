--------------------------- MODULE HistoryProofs ---------------------------
(***************************************************************************)
(* Proofs about History: reading the text form of a turn gives its         *)
(* entries, so that whole turns may be compacted away, entries pushed and  *)
(* the form that is read switched without the loss of an entry.            *)
(*                                                                         *)
(* A recursive function of the model is met three times: a lemma "...Is"   *)
(* says that it runs to its end (there is a function that obeys the        *)
(* recursion), a lemma "...Step" what one more item does, and the lemmas   *)
(* after it cite only the step.                                            *)
(***************************************************************************)
EXTENDS History, SequenceTheorems, FiniteSetTheorems, WellFoundedInduction, TLAPS

(***************************************************************************)
(* Induction and recursion, over a set in place of a formula and a         *)
(* sequence of functions in place of an operator.                          *)
(***************************************************************************)
LEMMA LeastNatural ==
  ASSUME NEW T \in SUBSET Nat, T # {}
  PROVE  \E n \in T : \A m \in T : n <= m
<1> DEFINE R == {p \in Nat \X Nat : p[1] < p[2]}
<1>1. IsWellFoundedOn(R, Nat)
  BY NatLessThanWellFounded DEF OpToRel
<1>2. \A m, n \in Nat : <<m, n>> \in R <=> m < n
  OBVIOUS
<1> HIDE DEF R
<1>3. PICK n \in T : \A m \in T : ~(<<m, n>> \in R)
  BY <1>1, WFMin
<1>4. n \in Nat /\ T \subseteq Nat
  OBVIOUS
<1>5. \A m \in T : ~(m < n)
  BY <1>2, <1>3, <1>4, Zenon
<1>6. QED
  BY <1>4, <1>5

\* What holds of 0, and of n when it does of n - 1, holds up to N.
LEMMA InductionUpTo ==
  ASSUME NEW N \in Nat, NEW D, 0 \in D, \A n \in 1..N : n - 1 \in D => n \in D
  PROVE  \A n \in 0..N : n \in D
<1> DEFINE T == {n \in Nat : n <= N /\ n \notin D}
<1>1. SUFFICES ASSUME T # {}
               PROVE  FALSE
  <2>1. \A n \in 0..N : n \notin D => n \in T
    OBVIOUS
  <2>2. T = {} => \A n \in 0..N : n \in D
    BY <2>1
  <2>3. QED
    BY <2>2, Zenon
<1>2. PICK n \in T : \A m \in T : n <= m
  BY <1>1, LeastNatural
<1>3. n # 0 /\ n \in 1..N /\ n \notin D
  BY <1>2
<1>4. n - 1 \in D
  <2>1. n - 1 \in Nat /\ n - 1 <= N /\ ~(n <= n - 1)
    BY <1>3
  <2>2. QED
    BY <1>2, <2>1
<1>5. QED
  BY <1>3, <1>4

LEMMA GreatestUpTo ==
  ASSUME NEW N \in Nat, NEW T \in SUBSET (1..N), T # {}
  PROVE  \E n \in T : \A m \in T : n >= m
<1> DEFINE R == {k \in 0..N : N - k \in T}
<1>1. R \in SUBSET Nat
  OBVIOUS
<1>2. R # {}
  <2>1. PICK n \in T : TRUE
    OBVIOUS
  <2>2. N - n \in 0..N /\ N - (N - n) = n
    OBVIOUS
  <2>3. N - n \in R
    BY <2>1, <2>2
  <2>4. QED
    BY <2>3
<1>3. PICK k \in R : \A j \in R : k <= j
  <2> HIDE DEF R
  <2>1. QED
    BY <1>1, <1>2, LeastNatural
<1>4. k \in 0..N /\ N - k \in T
  BY <1>3
<1>5. ASSUME NEW m \in T
      PROVE  N - k >= m
  <2>1. N - m \in 0..N /\ N - (N - m) = m
    OBVIOUS
  <2>2. N - m \in R
    BY <2>1
  <2>3. QED
    BY <1>3, <1>4, <2>1, <2>2
<1>6. QED
  BY <1>4, <1>5

\* What holds of the empty sequence and survives an Append holds of all.
LEMMA SeqInduction ==
  ASSUME NEW S, NEW D, <<>> \in D,
         \A s \in Seq(S), e \in S : s \in D => Append(s, e) \in D
  PROVE  \A s \in Seq(S) : s \in D
<1> DEFINE P == {n \in Nat : \A s \in Seq(S) : Len(s) = n => s \in D}
<1>1. ASSUME NEW s \in Seq(S)
      PROVE  s \in D
  <2> DEFINE N == Len(s)
  <2>1. N \in Nat
    OBVIOUS
  <2>2. 0 \in P
    OBVIOUS
  <2>3. ASSUME NEW n \in 1..N, n - 1 \in P
        PROVE  n \in P
    <3>1. ASSUME NEW t \in Seq(S), Len(t) = n
          PROVE  t \in D
      <4>1. t # <<>>
        BY <3>1
      <4>2. PICK u \in Seq(S), e \in S : t = Append(u, e)
        BY <4>1, SequenceEmptyOrAppend
      <4>3. Len(u) = n - 1
        BY <3>1, <4>2
      <4>4. u \in D
        BY <2>3, <4>3
      <4>5. QED
        BY <4>2, <4>4
    <3>2. QED
      BY <3>1
  <2> HIDE DEF P, N
  <2>4. \A n \in 0..N : n \in P
    BY <2>1, <2>2, <2>3, InductionUpTo
  <2>5. N \in P
    BY <2>1, <2>4
  <2>6. QED
    BY <2>5 DEF P, N
<1>2. QED
  BY <1>1

Rounds(T, N) == [1..N -> [T -> T]]

Iterates(f, T, b, N, g) ==
  f \in [0..N -> T] /\ f[0] = b /\ \A n \in 1..N : f[n] = g[n][f[n - 1]]

\* A definition by recursion over 0..N has a solution; g[n] is its n-th step.
LEMMA RecursionUpTo ==
  ASSUME NEW T, NEW b \in T, NEW N \in Nat, NEW g \in Rounds(T, N)
  PROVE  \E f : Iterates(f, T, b, N, g)
<1> DEFINE Solves(f, m) ==
             f \in [0..m -> T] /\ f[0] = b /\ \A n \in 1..m : f[n] = g[n][f[n - 1]]
           D == {m \in 0..N : \E f : Solves(f, m)}
<1>1. 0 \in D
  <2> DEFINE f == [n \in 0..0 |-> b]
  <2>1. Solves(f, 0)
    OBVIOUS
  <2> HIDE DEF f, Solves
  <2>2. \E h : Solves(h, 0)
    BY <2>1
  <2>3. 0 \in 0..N
    OBVIOUS
  <2>4. QED
    BY <2>2, <2>3
<1>2. ASSUME NEW m \in 1..N, m - 1 \in D
      PROVE  m \in D
  <2>1. PICK f : Solves(f, m - 1)
    BY <1>2
  <2> DEFINE h == [n \in 0..m |-> IF n = m THEN g[m][f[m - 1]] ELSE f[n]]
  <2>2. m - 1 \in 0..m - 1 /\ f[m - 1] \in T
    BY <2>1
  <2>3. g[m][f[m - 1]] \in T
    BY <2>2 DEF Rounds
  <2>4. h \in [0..m -> T]
    <3>1. ASSUME NEW n \in 0..m, n # m
          PROVE  f[n] \in T
      <4>1. n \in 0..m - 1
        BY <3>1
      <4>2. QED
        BY <2>1, <4>1
    <3>2. QED
      BY <2>3, <3>1
  <2>5. h[0] = b
    BY <2>1
  <2>6. ASSUME NEW n \in 1..m
        PROVE  h[n] = g[n][h[n - 1]]
    <3>1. n - 1 \in 0..m /\ n - 1 # m
      OBVIOUS
    <3>2. h[n - 1] = f[n - 1]
      BY <3>1
    <3>3. CASE n = m
      BY <3>2, <3>3
    <3>4. CASE n # m
      <4>1. n \in 1..m - 1
        BY <3>4
      <4>2. QED
        BY <2>1, <3>2, <3>4, <4>1
    <3>5. QED
      BY <3>3, <3>4
  <2> HIDE DEF h
  <2>7. Solves(h, m)
    BY <2>4, <2>5, <2>6
  <2> HIDE DEF Solves
  <2>8. \E f0 : Solves(f0, m)
    BY <2>7
  <2>9. m \in 0..N
    OBVIOUS
  <2>10. QED
    BY <2>8, <2>9
<1> HIDE DEF D
<1>3. \A n \in 0..N : n \in D
  BY <1>1, <1>2, InductionUpTo
<1>4. N \in D
  BY <1>3
<1>5. QED
  BY <1>4 DEF D, Iterates

(***************************************************************************)
(* Types: what the operators of reading and writing a history return.      *)
(***************************************************************************)
Kinds == {"user", "assistant", "call", "result"}
EntrySet ==
  {e \in [kind : Kinds, text : Seq(Lines), id : AnyId, name : Words, ok : BOOLEAN] :
     /\ e.kind \in {"user", "assistant"} => e.id = NoId /\ e.name = "" /\ e.ok = TRUE
     /\ e.kind = "call" => e.text = <<>> /\ e.ok = TRUE}
OpenCalls == [id : AnyId, name : Words]
Readers == [entries : Seq(EntrySet), pending : Seq(OpenCalls),
            plain : Seq(Lines), taken : Seq(Lines)]

LEMMA WordTypes ==
  "" \in Words /\ "legacy" \in Words /\ NoId \in AnyId
<1>1. "" \in Words /\ "legacy" \in Words
  BY TextsAssumption
<1>2. QED
  BY <1>1 DEF AnyId, NoId, Id

LEMMA LineTypes ==
  /\ Open \in Lines /\ Close \in Lines /\ Open.line = "open"
  /\ \A l \in Lines : l.line \in {"payload", "inline"} => l.id \in AnyId /\ l.name \in Words
<1>1. Open \in Lines /\ Close \in Lines /\ Open.line = "open" /\ Close.line = "close"
  BY DEF Lines, Open, Close
<1>2. ASSUME NEW l \in Lines, l.line \in {"payload", "inline"}
      PROVE  l.id \in AnyId /\ l.name \in Words
  <2>1. CASE l \in [line : {"plain"}, size : Nat]
    BY <1>2, <2>1
  <2>2. CASE l \in {Open, Close}
    BY <1>1, <1>2, <2>2
  <2>3. CASE l \in [line : {"payload", "inline"}, id : AnyId, name : Words]
    BY <2>3
  <2>4. QED
    BY <2>1, <2>2, <2>3 DEF Lines
<1>3. QED
  BY <1>1, <1>2

LEMMA EntryTypes ==
  /\ \A text \in Seq(Lines) : User(text) \in EntrySet /\ Assistant(text) \in EntrySet
  /\ \A id \in AnyId, name \in Words : ToolCall(id, name) \in EntrySet
  /\ \A id \in AnyId, name \in Words, text \in Seq(Lines), ok \in BOOLEAN :
       ToolResult(id, name, text, ok) \in EntrySet
<1>1. {"user", "assistant", "call", "result"} = Kinds /\ <<>> \in Seq(Lines) /\ TRUE \in BOOLEAN
  BY DEF Kinds
<1>2. \A text \in Seq(Lines) : User(text) \in EntrySet /\ Assistant(text) \in EntrySet
  BY <1>1, WordTypes DEF User, Assistant, Entry, EntrySet
<1>3. \A id \in AnyId, name \in Words : ToolCall(id, name) \in EntrySet
  BY <1>1 DEF ToolCall, Entry, EntrySet
<1>4. \A id \in AnyId, name \in Words, text \in Seq(Lines), ok \in BOOLEAN :
        ToolResult(id, name, text, ok) \in EntrySet
  BY <1>1 DEF ToolResult, Entry, EntrySet
<1>5. QED
  BY <1>2, <1>3, <1>4

LEMMA EntryIs ==
  ASSUME NEW e \in EntrySet
  PROVE  /\ e.kind \in Kinds /\ e.text \in Seq(Lines) /\ e.id \in AnyId
         /\ e.name \in Words /\ e.ok \in BOOLEAN
         /\ e.kind = "user" => e = User(e.text)
         /\ e.kind = "assistant" => e = Assistant(e.text)
         /\ e.kind = "call" => e = ToolCall(e.id, e.name)
         /\ e.kind = "result" => e = ToolResult(e.id, e.name, e.text, e.ok)
BY DEF EntrySet, User, Assistant, ToolCall, ToolResult, Entry

LEMMA EntryKinds ==
  /\ \A text : User(text).kind = "user" /\ Assistant(text).kind = "assistant"
  /\ \A id, name : ToolCall(id, name).kind = "call"
  /\ \A id, name, text, ok : ToolResult(id, name, text, ok).kind = "result"
BY DEF User, Assistant, ToolCall, ToolResult, Entry

LEMMA ReaderIs ==
  ASSUME NEW r \in Readers
  PROVE  /\ r.entries \in Seq(EntrySet) /\ r.pending \in Seq(OpenCalls)
         /\ r.plain \in Seq(Lines) /\ r.taken \in Seq(Lines)
         /\ r = [entries |-> r.entries, pending |-> r.pending, plain |-> r.plain, taken |-> r.taken]
BY DEF Readers

LEMMA ReaderMade ==
  ASSUME NEW es \in Seq(EntrySet), NEW p \in Seq(OpenCalls),
         NEW text \in Seq(Lines), NEW took \in Seq(Lines)
  PROVE  [entries |-> es, pending |-> p, plain |-> text, taken |-> took] \in Readers
BY DEF Readers

LEMMA ReaderExcept ==
  ASSUME NEW r \in Readers
  PROVE  /\ \A es \in Seq(EntrySet) : [r EXCEPT !.entries = es] \in Readers
         /\ \A p \in Seq(OpenCalls) : [r EXCEPT !.pending = p] \in Readers
         /\ \A text \in Seq(Lines) :
              [r EXCEPT !.plain = text] \in Readers /\ [r EXCEPT !.taken = text] \in Readers
BY DEF Readers

LEMMA ReaderFlushed ==
  ASSUME NEW r \in Readers, NEW es \in Seq(EntrySet), NEW text \in Seq(Lines)
  PROVE  [r EXCEPT !.entries = es, !.plain = text] =
           [entries |-> es, pending |-> r.pending, plain |-> text, taken |-> r.taken]
<1> DEFINE q == [r EXCEPT !.entries = es, !.plain = text]
<1>1. q \in Readers
  BY DEF Readers
<1>2. q.entries = es /\ q.pending = r.pending /\ q.plain = text /\ q.taken = r.taken
  BY DEF Readers
<1> HIDE DEF q
<1>3. q = [entries |-> es, pending |-> r.pending, plain |-> text, taken |-> r.taken]
  BY <1>1, <1>2, ReaderIs
<1>4. QED
  BY <1>3 DEF q

LEMMA FlushIs ==
  ASSUME NEW r \in Readers
  PROVE  /\ Flush(r) \in Readers /\ Flush(r).pending = r.pending /\ Flush(r).taken = r.taken
         /\ Flush(r).plain = <<>>
         /\ r.plain = <<>> => Flush(r).entries = r.entries
         /\ r.plain # <<>> => Flush(r).entries = Append(r.entries, Assistant(r.plain))
<1>1. CASE r.plain = <<>>
  BY <1>1 DEF Flush
<1>2. CASE r.plain # <<>>
  <2> DEFINE es == Append(r.entries, Assistant(r.plain))
  <2>1. es \in Seq(EntrySet) /\ <<>> \in Seq(Lines)
    BY EntryTypes, ReaderIs
  <2> HIDE DEF es
  <2>2. Flush(r) = [r EXCEPT !.entries = es, !.plain = <<>>]
    BY <1>2 DEF Flush, es
  <2>3. Flush(r) = [entries |-> es, pending |-> r.pending, plain |-> <<>>, taken |-> r.taken]
    BY <2>1, <2>2, ReaderFlushed
  <2>4. Flush(r) \in Readers
    <3>1. r.pending \in Seq(OpenCalls) /\ r.taken \in Seq(Lines)
      BY ReaderIs
    <3>2. [entries |-> es, pending |-> r.pending, plain |-> <<>>, taken |-> r.taken] \in Readers
      BY <2>1, <3>1, ReaderMade, Zenon
    <3>3. QED
      BY <2>3, <3>2, Zenon
  <2>5. QED
    BY <1>2, <2>3, <2>4 DEF es
<1>3. QED
  BY <1>1, <1>2

LEMMA RecognisedIs ==
  ASSUME NEW r \in Readers, NEW id \in AnyId, NEW name \in Words
  PROVE  /\ Recognised(r, id, name) \in Readers
         /\ Recognised(r, id, name).entries = Append(Flush(r).entries, ToolCall(id, name))
         /\ Recognised(r, id, name).pending = Append(r.pending, [id |-> id, name |-> name])
         /\ Recognised(r, id, name).plain = <<>> /\ Recognised(r, id, name).taken = <<>>
<1> DEFINE q == Flush(r)
           es == Append(q.entries, ToolCall(id, name))
           p == Append(q.pending, [id |-> id, name |-> name])
<1>1. q \in Readers /\ q.pending = r.pending /\ q.plain = <<>>
  BY FlushIs
<1>2. [id |-> id, name |-> name] \in OpenCalls /\ <<>> \in Seq(Lines)
  BY DEF OpenCalls
<1>3. Recognised(r, id, name) = [q EXCEPT !.entries = es, !.pending = p, !.taken = <<>>]
  BY DEF Recognised
<1> HIDE DEF q
<1>4. es \in Seq(EntrySet) /\ p \in Seq(OpenCalls)
  BY <1>1, <1>2, EntryTypes, ReaderIs
<1> HIDE DEF es, p
<1>5. Recognised(r, id, name) \in Readers
  BY <1>1, <1>2, <1>3, <1>4 DEF Readers
<1>6. /\ Recognised(r, id, name).entries = es /\ Recognised(r, id, name).pending = p
      /\ Recognised(r, id, name).plain = <<>> /\ Recognised(r, id, name).taken = <<>>
  BY <1>1, <1>3 DEF Readers
<1>7. QED
  BY <1>1, <1>5, <1>6 DEF es, p, q

LEMMA KeepLineIs ==
  ASSUME NEW r \in Readers, NEW l \in Lines
  PROVE  /\ KeepLine(r, l) \in Readers
         /\ KeepLine(r, l).entries = r.entries /\ KeepLine(r, l).pending = r.pending
         /\ KeepLine(r, l).plain = Append(r.plain, l) /\ KeepLine(r, l).taken = <<>>
<1> DEFINE text == Append(r.plain, l)
<1>1. text \in Seq(Lines) /\ <<>> \in Seq(Lines)
  BY ReaderIs
<1>2. KeepLine(r, l) = [r EXCEPT !.plain = text, !.taken = <<>>]
  BY DEF KeepLine
<1> HIDE DEF text
<1>3. QED
  BY <1>1, <1>2 DEF Readers, text

LEMMA ReadLineCases ==
  ASSUME NEW r, NEW l
  PROVE  /\ Len(r.taken) = 1 => ReadLine(r, l) = [r EXCEPT !.taken = Append(@, l)]
         /\ Len(r.taken) = 2 /\ l = Close /\ r.taken[2].line = "payload" =>
              ReadLine(r, l) = Recognised(r, r.taken[2].id, r.taken[2].name)
         /\ Len(r.taken) = 2 /\ ~(l = Close /\ r.taken[2].line = "payload") =>
              ReadLine(r, l) = KeepLine(r, Open)
         /\ r.taken = <<>> /\ l = Open => ReadLine(r, l) = [r EXCEPT !.taken = <<l>>]
         /\ r.taken = <<>> /\ l # Open /\ l.line = "inline" =>
              ReadLine(r, l) = Recognised(r, l.id, l.name)
         /\ Len(r.taken) # 1 /\ Len(r.taken) # 2 /\ ~(r.taken = <<>> /\ l = Open)
              /\ ~(r.taken = <<>> /\ l.line = "inline") => ReadLine(r, l) = KeepLine(r, l)
<1> DEFINE A == Len(r.taken) = 1
           B == Len(r.taken) = 2
           C == l = Close /\ r.taken[2].line = "payload"
           E == r.taken = <<>>
           O == l = Open
           I == l.line = "inline"
<1>1. ~(A /\ B) /\ (E => ~A /\ ~B)
  OBVIOUS
<1>2. ReadLine(r, l) =
        CASE A -> [r EXCEPT !.taken = Append(@, l)]
          [] B -> IF C THEN Recognised(r, r.taken[2].id, r.taken[2].name) ELSE KeepLine(r, Open)
          [] E /\ O -> [r EXCEPT !.taken = <<l>>]
          [] E /\ I -> Recognised(r, l.id, l.name)
          [] OTHER -> KeepLine(r, l)
  BY Zenon DEF ReadLine
<1>3. O => ~I
  BY DEF Open
<1> HIDE DEF A, B, C, E, O, I
<1>4. /\ A => ReadLine(r, l) = [r EXCEPT !.taken = Append(@, l)]
      /\ B /\ C => ReadLine(r, l) = Recognised(r, r.taken[2].id, r.taken[2].name)
      /\ B /\ ~C => ReadLine(r, l) = KeepLine(r, Open)
      /\ E /\ O => ReadLine(r, l) = [r EXCEPT !.taken = <<l>>]
      /\ E /\ ~O /\ I => ReadLine(r, l) = Recognised(r, l.id, l.name)
      /\ ~A /\ ~B /\ ~(E /\ O) /\ ~(E /\ I) => ReadLine(r, l) = KeepLine(r, l)
  BY <1>1, <1>2, <1>3, Zenon
<1>5. QED
  BY <1>4, Zenon DEF A, B, C, E, O, I

LEMMA ReadLineType ==
  ASSUME NEW r \in Readers, NEW l \in Lines
  PROVE  ReadLine(r, l) \in Readers
<1>1. Append(r.taken, l) \in Seq(Lines) /\ <<l>> \in Seq(Lines)
  BY ReaderIs
<1>2. [r EXCEPT !.taken = Append(@, l)] \in Readers /\ [r EXCEPT !.taken = <<l>>] \in Readers
  <2> DEFINE took == Append(r.taken, l)
  <2>1. [r EXCEPT !.taken = Append(@, l)] = [r EXCEPT !.taken = took]
    OBVIOUS
  <2> HIDE DEF took
  <2>2. QED
    BY <1>1, <2>1, ReaderExcept DEF took
<1>3. Len(r.taken) = 2 => r.taken[2] \in Lines
  BY ReaderIs
<1>4. KeepLine(r, l) \in Readers /\ KeepLine(r, Open) \in Readers
  BY KeepLineIs, LineTypes
<1>5. l.line = "inline" => Recognised(r, l.id, l.name) \in Readers
  BY LineTypes, RecognisedIs
<1>6. Len(r.taken) = 2 /\ r.taken[2].line = "payload"
        => Recognised(r, r.taken[2].id, r.taken[2].name) \in Readers
  BY <1>3, LineTypes, RecognisedIs
<1>7. QED
  BY <1>2, <1>4, <1>5, <1>6, Zenon DEF ReadLine

ReadLinesRuns(f, r, lines) ==
  f = [n \in 0..Len(lines) |-> IF n = 0 THEN r ELSE ReadLine(f[n - 1], lines[n])]

LEMMA ReadLinesIs ==
  ASSUME NEW r \in Readers, NEW lines \in Seq(Lines)
  PROVE  \E f : ReadLinesRuns(f, r, lines) /\ ReadLines(r, lines) = f[Len(lines)]
<1> DEFINE N == Len(lines)
           g == [n \in 1..N |-> [a \in Readers |-> ReadLine(a, lines[n])]]
<1>1. N \in Nat /\ r \in Readers
  OBVIOUS
<1>2. \A n \in 1..N : \A a \in Readers : ReadLine(a, lines[n]) \in Readers
  BY ReadLineType
<1>3. g \in Rounds(Readers, N)
  BY <1>2 DEF Rounds
<1>4. PICK f : f \in [0..N -> Readers] /\ f[0] = r /\ \A n \in 1..N : f[n] = g[n][f[n - 1]]
  <2> HIDE DEF g, N
  <2>1. \E f : Iterates(f, Readers, r, N, g)
    BY <1>1, <1>3, RecursionUpTo
  <2>2. QED
    BY <2>1 DEF Iterates
<1>5. \A n \in 1..N : f[n] = ReadLine(f[n - 1], lines[n])
  <2> TAKE n \in 1..N
  <2>1. n - 1 \in 0..N
    BY <1>1
  <2>2. QED
    BY <1>4, <2>1
<1>6. f = [n \in 0..N |-> IF n = 0 THEN r ELSE ReadLine(f[n - 1], lines[n])]
  <2>1. \A n \in 0..N : n = 0 \/ n \in 1..N
    BY <1>1
  <2> HIDE DEF N, g
  <2>2. \A n \in 0..N : f[n] = IF n = 0 THEN r ELSE ReadLine(f[n - 1], lines[n])
    BY <1>4, <1>5, <2>1, Zenon
  <2>3. QED
    BY <1>4, <2>2
<1>7. ReadLinesRuns(f, r, lines)
  BY <1>6 DEF ReadLinesRuns, N
<1> HIDE DEF g, N
<1>8. ReadLinesRuns(CHOOSE h : ReadLinesRuns(h, r, lines), r, lines)
  BY <1>7
<1>9. ReadLines(r, lines) = (CHOOSE h : ReadLinesRuns(h, r, lines))[Len(lines)]
  BY DEF ReadLines, ReadLinesRuns
<1>10. QED
  BY <1>8, <1>9

LEMMA ReadLinesStep ==
  ASSUME NEW r \in Readers, NEW lines \in Seq(Lines)
  PROVE  /\ ReadLines(r, lines) \in Readers
         /\ ReadLines(r, <<>>) = r
         /\ \A e \in Lines :
              ReadLines(r, Append(lines, e)) = ReadLine(ReadLines(r, lines), Append(lines, e)[Len(lines) + 1])
<1> DEFINE N == Len(lines)
<1>1. N \in Nat /\ r \in Readers /\ <<>> \in Seq(Lines)
  OBVIOUS
<1>2. PICK f : ReadLinesRuns(f, r, lines) /\ ReadLines(r, lines) = f[N]
  BY ReadLinesIs
<1>3. f[0] = r /\ \A n \in 1..N : f[n] = ReadLine(f[n - 1], lines[n])
  <2>1. \A n \in 0..N : f[n] = IF n = 0 THEN r ELSE ReadLine(f[n - 1], lines[n])
    BY <1>2, Zenon DEF ReadLinesRuns
  <2>2. 0 \in 0..N /\ \A n \in 1..N : n \in 0..N /\ n # 0
    BY <1>1
  <2>3. QED
    BY <2>1, <2>2, Zenon
<1>4. ReadLines(r, lines) \in Readers
  <2> DEFINE D == {n \in 0..N : f[n] \in Readers}
  <2>1. 0 \in D
    <3>1. 0 \in 0..N /\ f[0] \in Readers
      BY <1>1, <1>3
    <3>2. QED
      BY <3>1
  <2>2. ASSUME NEW n \in 1..N, n - 1 \in D
        PROVE  n \in D
    <3>1. ReadLine(f[n - 1], lines[n]) \in Readers
      BY <2>2, ReadLineType
    <3>2. QED
      BY <1>3, <3>1
  <2> HIDE DEF D, N
  <2>3. \A n \in 0..N : n \in D
    BY <1>1, <2>1, <2>2, InductionUpTo
  <2>4. QED
    BY <1>1, <1>2, <2>3 DEF D
<1>5. ReadLines(r, <<>>) = r
  <2>1. PICK h : ReadLinesRuns(h, r, <<>>) /\ ReadLines(r, <<>>) = h[Len(<<>>)]
    BY <1>1, ReadLinesIs
  <2>2. QED
    BY <2>1 DEF ReadLinesRuns
<1>6. ASSUME NEW e \in Lines
      PROVE  ReadLines(r, Append(lines, e)) = ReadLine(ReadLines(r, lines), Append(lines, e)[Len(lines) + 1])
  <2> DEFINE t == Append(lines, e)
  <2>1. t \in Seq(Lines) /\ Len(t) = N + 1 /\ \A n \in 1..N : t[n] = lines[n]
    OBVIOUS
  <2> HIDE DEF t
  <2>2. PICK h : ReadLinesRuns(h, r, t) /\ ReadLines(r, t) = h[N + 1]
    BY <2>1, ReadLinesIs
  <2>3. h[0] = r /\ \A n \in 1..N + 1 : h[n] = ReadLine(h[n - 1], t[n])
    <3>1. \A n \in 0..N + 1 : h[n] = IF n = 0 THEN r ELSE ReadLine(h[n - 1], t[n])
      BY <2>1, <2>2, Zenon DEF ReadLinesRuns
    <3>2. 0 \in 0..N + 1 /\ \A n \in 1..N + 1 : n \in 0..N + 1 /\ n # 0
      BY <1>1
    <3>3. QED
      BY <3>1, <3>2, Zenon
  <2> DEFINE D == {n \in 0..N : f[n] = h[n]}
  <2>4. 0 \in D
    BY <1>1, <1>3, <2>3
  <2>5. ASSUME NEW n \in 1..N, n - 1 \in D
        PROVE  n \in D
    <3>1. n \in 1..N + 1 /\ f[n - 1] = h[n - 1] /\ t[n] = lines[n]
      BY <1>1, <2>1, <2>5
    <3>2. h[n] = f[n]
      BY <1>3, <2>3, <3>1
    <3>3. QED
      BY <3>2
  <2>6. f[N] = h[N]
    <3> HIDE DEF D, N
    <3>1. \A n \in 0..N : n \in D
      BY <1>1, <2>4, <2>5, InductionUpTo
    <3>2. QED
      BY <1>1, <3>1 DEF D
  <2>7. N + 1 \in 1..N + 1 /\ (N + 1) - 1 = N
    BY <1>1
  <2>8. h[N + 1] = ReadLine(h[N], t[N + 1])
    BY <2>3, <2>7
  <2>9. QED
    BY <1>2, <2>2, <2>6, <2>8 DEF t
<1>7. QED
  BY <1>4, <1>5, <1>6

(***************************************************************************)
(* Reading on from another reader: the entries and the open calls found    *)
(* before stay in front.                                                   *)
(***************************************************************************)
After(es, p, r, q) ==
  /\ r.entries = es \o q.entries /\ r.pending = p \o q.pending
  /\ r.plain = q.plain /\ r.taken = q.taken

Moves(a, b, e) == Append(a \o b, e) = a \o Append(b, e)

LEMMA AppendBehind ==
  ASSUME NEW S, NEW a \in Seq(S), NEW b \in Seq(S), NEW e \in S
  PROVE  Moves(a, b, e)
<1>1. Append(a \o b, e) = (a \o b) \o <<e>> /\ Append(b, e) = b \o <<e>> /\ <<e>> \in Seq(S)
  BY AppendIsConcat, ConcatProperties
<1>2. (a \o b) \o <<e>> = a \o (b \o <<e>>)
  BY <1>1, ConcatAssociative
<1>3. QED
  BY <1>1, <1>2, Zenon DEF Moves

LEMMA FlushAfter ==
  ASSUME NEW es \in Seq(EntrySet), NEW p \in Seq(OpenCalls),
         NEW r \in Readers, NEW q \in Readers, After(es, p, r, q)
  PROVE  After(es, p, Flush(r), Flush(q))
<1>1. CASE q.plain = <<>>
  BY <1>1, FlushIs DEF After
<1>2. CASE q.plain # <<>>
  <2> DEFINE e == Assistant(q.plain)
  <2>1. e \in EntrySet /\ q.entries \in Seq(EntrySet)
    BY EntryTypes, ReaderIs
  <2>2. Flush(q).entries = Append(q.entries, e) /\ Flush(r).entries = Append(es \o q.entries, e)
    BY <1>2, FlushIs DEF After
  <2> HIDE DEF e
  <2>3. Moves(es, q.entries, e)
    BY <2>1, AppendBehind
  <2>4. QED
    BY <2>2, <2>3, FlushIs, Zenon DEF After, Moves
<1>3. QED
  BY <1>1, <1>2

LEMMA RecognisedAfter ==
  ASSUME NEW es \in Seq(EntrySet), NEW p \in Seq(OpenCalls),
         NEW r \in Readers, NEW q \in Readers, After(es, p, r, q),
         NEW id \in AnyId, NEW name \in Words
  PROVE  After(es, p, Recognised(r, id, name), Recognised(q, id, name))
<1> DEFINE e == ToolCall(id, name)
           c == [id |-> id, name |-> name]
<1>1. e \in EntrySet /\ c \in OpenCalls
  BY EntryTypes DEF OpenCalls
<1>2. Flush(q).entries \in Seq(EntrySet) /\ q.pending \in Seq(OpenCalls)
  BY FlushIs, ReaderIs
<1>3. Flush(r).entries = es \o Flush(q).entries /\ r.pending = p \o q.pending
  BY FlushAfter DEF After
<1>4. /\ Recognised(r, id, name).entries = Append(Flush(r).entries, e)
      /\ Recognised(r, id, name).pending = Append(r.pending, c)
      /\ Recognised(r, id, name).plain = <<>> /\ Recognised(r, id, name).taken = <<>>
  BY RecognisedIs
<1>5. /\ Recognised(q, id, name).entries = Append(Flush(q).entries, e)
      /\ Recognised(q, id, name).pending = Append(q.pending, c)
      /\ Recognised(q, id, name).plain = <<>> /\ Recognised(q, id, name).taken = <<>>
  BY RecognisedIs
<1> HIDE DEF e, c
<1>6. Moves(es, Flush(q).entries, e) /\ Moves(p, q.pending, c)
  BY <1>1, <1>2, AppendBehind
<1>8. QED
  BY <1>3, <1>4, <1>5, <1>6, Zenon DEF After, Moves

LEMMA KeepLineAfter ==
  ASSUME NEW es \in Seq(EntrySet), NEW p \in Seq(OpenCalls),
         NEW r \in Readers, NEW q \in Readers, After(es, p, r, q), NEW l \in Lines
  PROVE  After(es, p, KeepLine(r, l), KeepLine(q, l))
<1>1. /\ KeepLine(r, l).entries = r.entries /\ KeepLine(r, l).pending = r.pending
      /\ KeepLine(r, l).plain = Append(r.plain, l) /\ KeepLine(r, l).taken = <<>>
  BY KeepLineIs
<1>2. /\ KeepLine(q, l).entries = q.entries /\ KeepLine(q, l).pending = q.pending
      /\ KeepLine(q, l).plain = Append(q.plain, l) /\ KeepLine(q, l).taken = <<>>
  BY KeepLineIs
<1>3. QED
  BY <1>1, <1>2, Zenon DEF After

LEMMA ReadLineAfter ==
  ASSUME NEW es \in Seq(EntrySet), NEW p \in Seq(OpenCalls),
         NEW r \in Readers, NEW q \in Readers, After(es, p, r, q), NEW l \in Lines
  PROVE  After(es, p, ReadLine(r, l), ReadLine(q, l))
<1>0. r.taken = q.taken
  BY DEF After
<1>1. After(es, p, [r EXCEPT !.taken = Append(@, l)], [q EXCEPT !.taken = Append(@, l)])
  BY DEF After, Readers
<1>2. After(es, p, [r EXCEPT !.taken = <<l>>], [q EXCEPT !.taken = <<l>>])
  BY DEF After, Readers
<1>3. Len(q.taken) = 2 => q.taken[2] \in Lines
  BY ReaderIs
<1>4. After(es, p, KeepLine(r, l), KeepLine(q, l)) /\ After(es, p, KeepLine(r, Open), KeepLine(q, Open))
  BY KeepLineAfter, LineTypes
<1>5. l.line = "inline" => After(es, p, Recognised(r, l.id, l.name), Recognised(q, l.id, l.name))
  BY LineTypes, RecognisedAfter
<1>6. Len(q.taken) = 2 /\ q.taken[2].line = "payload"
        => After(es, p, Recognised(r, q.taken[2].id, q.taken[2].name),
                        Recognised(q, q.taken[2].id, q.taken[2].name))
  BY <1>3, LineTypes, RecognisedAfter
<1>7. CASE Len(q.taken) = 1
  <2>1. ReadLine(q, l) = [q EXCEPT !.taken = Append(@, l)]
    BY <1>7, ReadLineCases, Zenon
  <2>2. Len(r.taken) = 1
    BY <1>0, <1>7
  <2>3. ReadLine(r, l) = [r EXCEPT !.taken = Append(@, l)]
    BY <2>2, ReadLineCases, Zenon
  <2>4. QED
    BY <1>0, <2>1, <2>3, <1>1, <1>7, Zenon
<1>8. CASE Len(q.taken) = 2 /\ l = Close /\ q.taken[2].line = "payload"
  <2>1. ReadLine(q, l) = Recognised(q, q.taken[2].id, q.taken[2].name)
    BY <1>8, ReadLineCases, Zenon
  <2>2. Len(r.taken) = 2 /\ l = Close /\ r.taken[2].line = "payload"
    BY <1>0, <1>8
  <2>3. ReadLine(r, l) = Recognised(r, r.taken[2].id, r.taken[2].name)
    BY <2>2, ReadLineCases, Zenon
  <2>4. QED
    BY <1>0, <2>1, <2>3, <1>6, <1>8, Zenon
<1>9. CASE Len(q.taken) = 2 /\ ~(l = Close /\ q.taken[2].line = "payload")
  <2>1. ReadLine(q, l) = KeepLine(q, Open)
    BY <1>9, ReadLineCases, Zenon
  <2>2. Len(r.taken) = 2 /\ ~(l = Close /\ r.taken[2].line = "payload")
    BY <1>0, <1>9
  <2>3. ReadLine(r, l) = KeepLine(r, Open)
    BY <2>2, ReadLineCases, Zenon
  <2>4. QED
    BY <1>0, <2>1, <2>3, <1>4, <1>9, Zenon
<1>10. CASE q.taken = <<>> /\ l = Open
  <2>1. ReadLine(q, l) = [q EXCEPT !.taken = <<l>>]
    BY <1>10, ReadLineCases, Zenon
  <2>2. r.taken = <<>> /\ l = Open
    BY <1>0, <1>10
  <2>3. ReadLine(r, l) = [r EXCEPT !.taken = <<l>>]
    BY <2>2, ReadLineCases, Zenon
  <2>4. QED
    BY <1>0, <2>1, <2>3, <1>2, <1>10, Zenon
<1>11. CASE q.taken = <<>> /\ l # Open /\ l.line = "inline"
  <2>1. ReadLine(q, l) = Recognised(q, l.id, l.name)
    BY <1>11, ReadLineCases, Zenon
  <2>2. r.taken = <<>> /\ l # Open /\ l.line = "inline"
    BY <1>0, <1>11
  <2>3. ReadLine(r, l) = Recognised(r, l.id, l.name)
    BY <2>2, ReadLineCases, Zenon
  <2>4. QED
    BY <1>0, <2>1, <2>3, <1>5, <1>11, Zenon
<1>12. CASE /\ Len(q.taken) # 1 /\ Len(q.taken) # 2 /\ ~(q.taken = <<>> /\ l = Open)
            /\ ~(q.taken = <<>> /\ l.line = "inline")
  <2>1. ReadLine(q, l) = KeepLine(q, l)
    BY <1>12, ReadLineCases, Zenon
  <2>2. /\ Len(r.taken) # 1 /\ Len(r.taken) # 2 /\ ~(r.taken = <<>> /\ l = Open)
        /\ ~(r.taken = <<>> /\ l.line = "inline")
    BY <1>0, <1>12
  <2>3. ReadLine(r, l) = KeepLine(r, l)
    BY <2>2, ReadLineCases, Zenon
  <2>4. QED
    BY <1>0, <2>1, <2>3, <1>4, <1>12, Zenon
<1>13. QED
  BY <1>7, <1>8, <1>9, <1>10, <1>11, <1>12, LineTypes, Zenon

LEMMA ReadLinesAfter ==
  ASSUME NEW es \in Seq(EntrySet), NEW p \in Seq(OpenCalls),
         NEW r \in Readers, NEW q \in Readers, After(es, p, r, q), NEW lines \in Seq(Lines)
  PROVE  After(es, p, ReadLines(r, lines), ReadLines(q, lines))
<1> DEFINE D == {text \in Seq(Lines) : After(es, p, ReadLines(r, text), ReadLines(q, text))}
<1>1. <<>> \in D
  BY ReadLinesStep
<1>2. ASSUME NEW text \in Seq(Lines), NEW l \in Lines, text \in D
      PROVE  Append(text, l) \in D
  <2>1. ReadLines(r, text) \in Readers /\ ReadLines(q, text) \in Readers
    BY ReadLinesStep
  <2>2. /\ ReadLines(r, Append(text, l)) = ReadLine(ReadLines(r, text), Append(text, l)[Len(text) + 1])
        /\ ReadLines(q, Append(text, l)) = ReadLine(ReadLines(q, text), Append(text, l)[Len(text) + 1])
    BY ReadLinesStep
  <2>3. Append(text, l) \in Seq(Lines) /\ Append(text, l)[Len(text) + 1] = l
    OBVIOUS
  <2>4. After(es, p, ReadLine(ReadLines(r, text), l), ReadLine(ReadLines(q, text), l))
    BY <1>2, <2>1, ReadLineAfter
  <2>5. QED
    BY <2>2, <2>3, <2>4
<1> HIDE DEF D
<1>3. lines \in D
  BY <1>1, <1>2, SeqInduction
<1>4. QED
  BY <1>3 DEF D

\* Reading a text on from another reader leaves what that reader had in front.
LEMMA EndOfTextAfter ==
  ASSUME NEW es \in Seq(EntrySet), NEW p \in Seq(OpenCalls),
         NEW r \in Readers, NEW q \in Readers, After(es, p, r, q)
  PROVE  After(es, p, EndOfText(r), EndOfText(q))
<1>1. r.taken = q.taken
  BY DEF After
<1>2. CASE q.taken = <<>>
  BY <1>1, <1>2, FlushAfter DEF EndOfText
<1>3. CASE q.taken # <<>>
  <2>1. /\ After(es, p, KeepLine(r, Open), KeepLine(q, Open))
        /\ KeepLine(r, Open) \in Readers /\ KeepLine(q, Open) \in Readers
    BY LineTypes, KeepLineAfter, KeepLineIs
  <2>2. QED
    BY <1>1, <1>3, <2>1, FlushAfter DEF EndOfText
<1>4. QED
  BY <1>2, <1>3

LEMMA EndOfTextIs ==
  ASSUME NEW r \in Readers
  PROVE  EndOfText(r) \in Readers /\ EndOfText(r).plain = <<>> /\ EndOfText(r).taken = <<>>
<1>1. CASE r.taken = <<>>
  BY <1>1, FlushIs DEF EndOfText
<1>2. CASE r.taken # <<>>
  <2>1. KeepLine(r, Open) \in Readers /\ KeepLine(r, Open).taken = <<>>
    BY LineTypes, KeepLineIs
  <2>2. QED
    BY <1>2, <2>1, FlushIs DEF EndOfText
<1>3. QED
  BY <1>1, <1>2

(***************************************************************************)
(* One message read, and then a whole history: the entries of two texts    *)
(* put together are theirs put together, because nothing of the first is   *)
(* read again except the open calls an id-less result may go to.           *)
(***************************************************************************)
LEMMA MaxIs ==
  ASSUME NEW N \in Nat, NEW T \in SUBSET (1..N), T # {}
  PROVE  Max(T) \in T /\ Max(T) \in 1..N /\ \A m \in T : m <= Max(T)
<1>1. \E n \in T : \A m \in T : n >= m
  BY GreatestUpTo
<1>2. Max(T) \in T /\ \A m \in T : Max(T) >= m
  BY <1>1, Zenon DEF Max
<1>3. QED
  BY <1>2

LEMMA MaxIsThat ==
  ASSUME NEW N \in Nat, NEW T \in SUBSET (1..N), NEW n \in T, \A m \in T : m <= n
  PROVE  Max(T) = n
<1>1. Max(T) \in T /\ Max(T) \in 1..N /\ n <= Max(T)
  BY MaxIs
<1>2. QED
  BY <1>1

LEMMA RemoveAtIs ==
  ASSUME NEW S, NEW s \in Seq(S), NEW i \in 1..Len(s)
  PROVE  /\ RemoveAt(s, i) \in Seq(S) /\ Len(RemoveAt(s, i)) = Len(s) - 1
         /\ \A j \in 1..Len(s) - 1 : RemoveAt(s, i)[j] = IF j < i THEN s[j] ELSE s[j + 1]
<1> DEFINE a == SubSeq(s, 1, i - 1)
           b == SubSeq(s, i + 1, Len(s))
<1>1. a \in Seq(S) /\ Len(a) = i - 1 /\ \A j \in 1..i - 1 : a[j] = s[j]
  OBVIOUS
<1>2. b \in Seq(S) /\ Len(b) = Len(s) - i /\ \A j \in 1..Len(s) - i : b[j] = s[i + j]
  OBVIOUS
<1>3. RemoveAt(s, i) = a \o b
  BY DEF RemoveAt
<1> HIDE DEF a, b
<1>4. Len(s) \in Nat /\ Len(a) + Len(b) = Len(s) - 1
  BY <1>1, <1>2
<1>5. /\ a \o b \in Seq(S) /\ Len(a \o b) = Len(s) - 1
      /\ \A j \in 1..Len(s) - 1 : (a \o b)[j] = IF j <= Len(a) THEN a[j] ELSE b[j - Len(a)]
  <2>1. /\ a \o b \in Seq(S) /\ Len(a \o b) = Len(a) + Len(b)
        /\ \A j \in 1..Len(a) + Len(b) : (a \o b)[j] = IF j <= Len(a) THEN a[j] ELSE b[j - Len(a)]
    BY <1>1, <1>2, ConcatProperties
  <2>2. QED
    BY <1>4, <2>1, Zenon
<1>6. ASSUME NEW j \in 1..Len(s) - 1
      PROVE  (IF j <= Len(a) THEN a[j] ELSE b[j - Len(a)]) = IF j < i THEN s[j] ELSE s[j + 1]
  <2>1. CASE j < i
    BY <1>1, <1>4, <2>1
  <2>2. CASE ~(j < i)
    <3>1. ~(j <= Len(a)) /\ j - Len(a) \in 1..Len(s) - i /\ i + (j - Len(a)) = j + 1
      BY <1>1, <1>4, <2>2
    <3>2. QED
      BY <1>2, <2>2, <3>1
  <2>3. QED
    BY <2>1, <2>2
<1>7. QED
  BY <1>3, <1>5, <1>6, Zenon

Removes(a, b, i) == RemoveAt(a \o b, Len(a) + i) = a \o RemoveAt(b, i)

LEMMA RemoveAtBehind ==
  ASSUME NEW S, NEW a \in Seq(S), NEW b \in Seq(S), NEW i \in 1..Len(b)
  PROVE  Removes(a, b, i)
<1> DEFINE x == a \o b
           n == Len(a)
           m == Len(b)
           u == RemoveAt(x, n + i)
           v == RemoveAt(b, i)
           w == a \o v
<1>1. n \in Nat /\ m \in Nat /\ x \in Seq(S) /\ Len(x) = n + m /\ n + i \in 1..n + m
  OBVIOUS
<1>2. \A j \in 1..n + m : x[j] = IF j <= n THEN a[j] ELSE b[j - n]
  OBVIOUS
<1> HIDE DEF x
<1>3. /\ u \in Seq(S) /\ Len(u) = n + m - 1
      /\ \A j \in 1..n + m - 1 : u[j] = IF j < n + i THEN x[j] ELSE x[j + 1]
  <2> HIDE DEF n, m
  <2>1. n + i \in 1..Len(x)
    BY <1>1
  <2>2. /\ u \in Seq(S) /\ Len(u) = Len(x) - 1
        /\ \A j \in 1..Len(x) - 1 : u[j] = IF j < n + i THEN x[j] ELSE x[j + 1]
    BY <1>1, <2>1, RemoveAtIs, Zenon
  <2>3. Len(x) - 1 = n + m - 1
    BY <1>1
  <2>4. QED
    BY <2>2, <2>3
<1>4. /\ v \in Seq(S) /\ Len(v) = m - 1
      /\ \A j \in 1..m - 1 : v[j] = IF j < i THEN b[j] ELSE b[j + 1]
  BY RemoveAtIs, Zenon
<1> HIDE DEF u, v
<1>5. /\ w \in Seq(S) /\ Len(w) = n + Len(v)
      /\ \A j \in 1..n + Len(v) : w[j] = IF j <= n THEN a[j] ELSE v[j - n]
  BY <1>4, ConcatProperties, Zenon
<1> HIDE DEF w, n, m
<1>6. n + Len(v) = n + m - 1
  BY <1>1, <1>4
<1>7. ASSUME NEW j \in 1..n + m - 1
      PROVE  u[j] = w[j]
  <2>1. w[j] = IF j <= n THEN a[j] ELSE v[j - n]
    BY <1>5, <1>6
  <2>2. CASE j <= n
    BY <1>1, <1>2, <1>3, <2>1, <2>2
  <2>3. CASE ~(j <= n)
    <3> DEFINE k == j + 1
               l == j - n
    <3>1. /\ l \in 1..m - 1 /\ j \in 1..n + m /\ k \in 1..n + m /\ ~(k <= n)
          /\ l + 1 = k - n /\ (j < n + i <=> l < i)
      BY <1>1, <2>3
    <3>2. u[j] = IF j < n + i THEN x[j] ELSE x[k]
      BY <1>3
    <3>3. v[l] = IF l < i THEN b[l] ELSE b[l + 1]
      BY <1>4, <3>1
    <3>4. w[j] = v[l]
      BY <2>1, <2>3
    <3>5. \A h \in 1..n + m : ~(h <= n) => x[h] = b[h - n]
      BY <1>2
    <3>6. x[j] = b[l]
      BY <2>3, <3>1, <3>5
    <3> HIDE DEF k
    <3>7. x[k] = b[k - n]
      BY <3>1, <3>5, Zenon
    <3> HIDE DEF l
    <3>8. QED
      BY <3>1, <3>2, <3>3, <3>4, <3>6, <3>7, Zenon
  <2>4. QED
    BY <2>2, <2>3
<1>8. u = w
  BY <1>3, <1>5, <1>6, <1>7, SeqEqual
<1>9. QED
  BY <1>8 DEF u, v, w, x, n, Removes

AllSettled(es) == \A i \in DOMAIN es : Settled(es[i])
NoUsers(es) == \A i \in DOMAIN es : es[i].kind # "user"

AppendedAll(s, e) ==
  /\ AllSettled(Append(s, e)) <=> AllSettled(s) /\ Settled(e)
  /\ NoUsers(Append(s, e)) <=> NoUsers(s) /\ e.kind # "user"

LEMMA AppendAll ==
  ASSUME NEW S, NEW s \in Seq(S), NEW e \in S
  PROVE  AppendedAll(s, e)
<1>1. /\ DOMAIN Append(s, e) = 1..Len(s) + 1 /\ DOMAIN s = 1..Len(s) /\ Len(s) \in Nat
      /\ Append(s, e)[Len(s) + 1] = e /\ \A i \in 1..Len(s) : Append(s, e)[i] = s[i]
  OBVIOUS
<1>2. \A i : i \in 1..Len(s) + 1 <=> i \in 1..Len(s) \/ i = Len(s) + 1
  BY <1>1
<1>3. AllSettled(Append(s, e)) <=> AllSettled(s) /\ Settled(e)
  BY <1>1, <1>2, Zenon DEF AllSettled
<1>4. NoUsers(Append(s, e)) <=> NoUsers(s) /\ e.kind # "user"
  BY <1>1, <1>2, Zenon DEF NoUsers
<1>5. QED
  BY <1>3, <1>4, Zenon DEF AppendedAll

JoinedAll(s, t) ==
  /\ AllSettled(s \o t) <=> AllSettled(s) /\ AllSettled(t)
  /\ NoUsers(s \o t) <=> NoUsers(s) /\ NoUsers(t)

LEMMA JoinAll ==
  ASSUME NEW S, NEW s \in Seq(S), NEW t \in Seq(S)
  PROVE  JoinedAll(s, t)
<1> DEFINE n == Len(s)
           m == Len(t)
           u == s \o t
<1>1. /\ n \in Nat /\ m \in Nat /\ DOMAIN s = 1..n /\ DOMAIN t = 1..m /\ DOMAIN u = 1..n + m
      /\ \A i \in 1..n : u[i] = s[i]
      /\ \A i \in 1..m : u[n + i] = t[i]
  OBVIOUS
<1> HIDE DEF n, m, u
<1>2. /\ \A i \in 1..n : i \in 1..n + m
      /\ \A i \in 1..m : n + i \in 1..n + m
      /\ \A i \in 1..n + m : i \in 1..n \/ \E j \in 1..m : i = n + j
  <2>1. ASSUME NEW i \in 1..n + m, i \notin 1..n
        PROVE  \E j \in 1..m : i = n + j
    <3>1. i - n \in 1..m /\ i = n + (i - n)
      BY <1>1, <2>1
    <3>2. QED
      BY <3>1
  <2>2. QED
    BY <1>1, <2>1
<1>3. AllSettled(u) <=> AllSettled(s) /\ AllSettled(t)
  <2>1. AllSettled(u) => AllSettled(s) /\ AllSettled(t)
    BY <1>1, <1>2 DEF AllSettled
  <2>2. ASSUME AllSettled(s), AllSettled(t), NEW i \in 1..n + m
        PROVE  Settled(u[i])
    BY <1>1, <1>2, <2>2 DEF AllSettled
  <2>3. QED
    BY <1>1, <2>1, <2>2 DEF AllSettled
<1>4. NoUsers(u) <=> NoUsers(s) /\ NoUsers(t)
  <2>1. NoUsers(u) => NoUsers(s) /\ NoUsers(t)
    BY <1>1, <1>2 DEF NoUsers
  <2>2. ASSUME NoUsers(s), NoUsers(t), NEW i \in 1..n + m
        PROVE  u[i].kind # "user"
    BY <1>1, <1>2, <2>2 DEF NoUsers
  <2>3. QED
    BY <1>1, <2>1, <2>2 DEF NoUsers
<1>5. QED
  BY <1>3, <1>4, Zenon DEF u, JoinedAll

LEMMA FlushNoUsers ==
  ASSUME NEW r \in Readers, NoUsers(r.entries)
  PROVE  NoUsers(Flush(r).entries) /\ Flush(r).entries \in Seq(EntrySet)
<1> DEFINE e == Assistant(r.plain)
<1>1. e \in EntrySet /\ e.kind # "user" /\ r.entries \in Seq(EntrySet) /\ Flush(r) \in Readers
  BY ReaderIs, EntryTypes, EntryKinds, FlushIs
<1>2. r.plain = <<>> \/ Flush(r).entries = Append(r.entries, e)
  BY FlushIs
<1> HIDE DEF e
<1>3. AppendedAll(r.entries, e)
  BY <1>1, AppendAll
<1>4. r.plain = <<>> => Flush(r).entries = r.entries
  BY FlushIs
<1>5. NoUsers(Flush(r).entries)
  BY <1>1, <1>2, <1>3, <1>4, Zenon DEF AppendedAll
<1>6. QED
  BY <1>1, <1>5, ReaderIs

LEMMA NoneIs ==
  ASSUME NEW S
  PROVE  <<>> \in Seq(S) /\ AllSettled(<<>>) /\ NoUsers(<<>>)
BY DEF AllSettled, NoUsers

LEMMA ReadLineNoUsers ==
  ASSUME NEW r \in Readers, NEW l \in Lines, NoUsers(r.entries)
  PROVE  NoUsers(ReadLine(r, l).entries)
<1>2. NoUsers(Flush(r).entries) /\ Flush(r).entries \in Seq(EntrySet)
  BY FlushNoUsers
<1>3. ASSUME NEW id \in AnyId, NEW name \in Words
      PROVE  NoUsers(Recognised(r, id, name).entries)
  <2>1. ToolCall(id, name) \in EntrySet /\ ToolCall(id, name).kind # "user"
    BY EntryTypes, EntryKinds
  <2>2. AppendedAll(Flush(r).entries, ToolCall(id, name))
    BY <1>2, <2>1, AppendAll
  <2>3. Recognised(r, id, name).entries = Append(Flush(r).entries, ToolCall(id, name))
    BY RecognisedIs
  <2>4. QED
    BY <1>2, <2>1, <2>2, <2>3, Zenon DEF AppendedAll
<1>4. \A k \in Lines : NoUsers(KeepLine(r, k).entries)
  BY KeepLineIs
<1>5. /\ [r EXCEPT !.taken = Append(@, l)].entries = r.entries
      /\ [r EXCEPT !.taken = <<l>>].entries = r.entries
  BY DEF Readers
<1>6. Len(r.taken) = 2 => r.taken[2] \in Lines
  BY ReaderIs
<1>7. CASE Len(r.taken) = 1
  BY <1>5, <1>7, ReadLineCases, Zenon
<1>8. CASE Len(r.taken) = 2 /\ l = Close /\ r.taken[2].line = "payload"
  <2>1. r.taken[2].id \in AnyId /\ r.taken[2].name \in Words
    BY <1>6, <1>8, LineTypes
  <2>2. QED
    BY <1>3, <1>8, <2>1, ReadLineCases, Zenon
<1>9. CASE Len(r.taken) = 2 /\ ~(l = Close /\ r.taken[2].line = "payload")
  BY <1>4, <1>9, ReadLineCases, LineTypes, Zenon
<1>10. CASE r.taken = <<>> /\ l = Open
  BY <1>5, <1>10, ReadLineCases, Zenon
<1>11. CASE r.taken = <<>> /\ l # Open /\ l.line = "inline"
  <2>1. l.id \in AnyId /\ l.name \in Words
    BY <1>11, LineTypes
  <2>2. QED
    BY <1>3, <1>11, <2>1, ReadLineCases, Zenon
<1>12. CASE /\ Len(r.taken) # 1 /\ Len(r.taken) # 2 /\ ~(r.taken = <<>> /\ l = Open)
            /\ ~(r.taken = <<>> /\ l.line = "inline")
  BY <1>4, <1>12, ReadLineCases, Zenon
<1>13. QED
  BY <1>7, <1>8, <1>9, <1>10, <1>11, <1>12, LineTypes, Zenon

LEMMA ReaderEmpty ==
  /\ Reader \in Readers
  /\ Reader.entries = <<>> /\ Reader.pending = <<>> /\ Reader.plain = <<>> /\ Reader.taken = <<>>
BY DEF Reader, Readers

LEMMA ReadLinesNoUsers ==
  ASSUME NEW lines \in Seq(Lines)
  PROVE  NoUsers(EndOfText(ReadLines(Reader, lines)).entries)
<1> DEFINE D == {text \in Seq(Lines) : NoUsers(ReadLines(Reader, text).entries)}
<1>1. <<>> \in D
  BY ReadLinesStep, ReaderEmpty, NoneIs
<1>2. ASSUME NEW text \in Seq(Lines), NEW l \in Lines, text \in D
      PROVE  Append(text, l) \in D
  <2>1. ReadLines(Reader, text) \in Readers
    BY ReadLinesStep, ReaderEmpty
  <2>2. ReadLines(Reader, Append(text, l)) =
          ReadLine(ReadLines(Reader, text), Append(text, l)[Len(text) + 1])
    BY ReadLinesStep, ReaderEmpty
  <2>3. Append(text, l) \in Seq(Lines) /\ Append(text, l)[Len(text) + 1] = l
    OBVIOUS
  <2>4. NoUsers(ReadLine(ReadLines(Reader, text), l).entries)
    BY <1>2, <2>1, ReadLineNoUsers
  <2>5. QED
    BY <2>2, <2>3, <2>4
<1> HIDE DEF D
<1>3. lines \in D
  BY <1>1, <1>2, SeqInduction
<1> DEFINE r == ReadLines(Reader, lines)
<1>4. r \in Readers /\ NoUsers(r.entries)
  BY <1>3, ReadLinesStep, ReaderEmpty DEF D
<1> HIDE DEF r
<1>5. KeepLine(r, Open) \in Readers /\ NoUsers(KeepLine(r, Open).entries)
  BY <1>4, KeepLineIs, LineTypes
<1>6. NoUsers(EndOfText(r).entries)
  BY <1>4, <1>5, FlushNoUsers DEF EndOfText
<1>7. QED
  BY <1>6 DEF r

OpenFor(r, name) == {i \in DOMAIN r.pending : r.pending[i].name = name}
Unowned(result) == result.id = NoId /\ result.name # "legacy"

LEMMA OpenForIs ==
  ASSUME NEW r \in Readers, NEW name
  PROVE  /\ OpenFor(r, name) \in SUBSET (1..Len(r.pending)) /\ Len(r.pending) \in Nat
         /\ OpenFor(r, name) # {} =>
              /\ Max(OpenFor(r, name)) \in OpenFor(r, name)
              /\ Max(OpenFor(r, name)) \in 1..Len(r.pending)
              /\ r.pending[Max(OpenFor(r, name))].name = name
              /\ r.pending[Max(OpenFor(r, name))].id \in AnyId
              /\ \A j \in OpenFor(r, name) : j <= Max(OpenFor(r, name))
<1>1. r.pending \in Seq(OpenCalls) /\ Len(r.pending) \in Nat
  BY ReaderIs
<1>2. OpenFor(r, name) \in SUBSET (1..Len(r.pending))
  BY <1>1 DEF OpenFor
<1>3. ASSUME OpenFor(r, name) # {}
      PROVE  /\ Max(OpenFor(r, name)) \in OpenFor(r, name)
             /\ Max(OpenFor(r, name)) \in 1..Len(r.pending)
             /\ \A j \in OpenFor(r, name) : j <= Max(OpenFor(r, name))
  BY <1>1, <1>2, <1>3, MaxIs
<1>4. \A j \in OpenFor(r, name) : r.pending[j].name = name
  BY DEF OpenFor
<1>5. ASSUME NEW j \in 1..Len(r.pending)
      PROVE  r.pending[j].id \in AnyId
  <2>1. r.pending[j] \in OpenCalls
    BY <1>1
  <2>2. QED
    BY <2>1 DEF OpenCalls
<1>6. QED
  BY <1>1, <1>2, <1>3, <1>4, <1>5, Zenon

LEMMA ResolveIs ==
  ASSUME NEW r \in Readers, NEW result \in EntrySet, result.kind = "result"
  PROVE  /\ ~(Unowned(result) /\ OpenFor(r, result.name) # {}) =>
              Resolve(r, result) = [r EXCEPT !.entries = Append(@, result)]
         /\ Unowned(result) /\ OpenFor(r, result.name) # {} =>
              Resolve(r, result) =
                [r EXCEPT !.entries = Append(@, [result EXCEPT !.id = r.pending[Max(OpenFor(r, result.name))].id]),
                          !.pending = RemoveAt(@, Max(OpenFor(r, result.name)))]
BY Zenon DEF Resolve, OpenFor, Unowned

\* What resolving adds, and what stays open
Resolved(r, result) ==
  IF Unowned(result) /\ OpenFor(r, result.name) # {}
  THEN [result EXCEPT !.id = r.pending[Max(OpenFor(r, result.name))].id]
  ELSE result

StillOpen(r, result) ==
  IF Unowned(result) /\ OpenFor(r, result.name) # {}
  THEN RemoveAt(r.pending, Max(OpenFor(r, result.name)))
  ELSE r.pending

LEMMA ResolveFields ==
  ASSUME NEW r \in Readers, NEW result \in EntrySet, result.kind = "result"
  PROVE  /\ Resolved(r, result) \in EntrySet /\ Resolved(r, result).kind = "result"
         /\ Resolve(r, result) \in Readers
         /\ Resolve(r, result).entries = Append(r.entries, Resolved(r, result))
         /\ Resolve(r, result).pending = StillOpen(r, result)
         /\ Resolve(r, result).plain = r.plain /\ Resolve(r, result).taken = r.taken
<1> DEFINE open == OpenFor(r, result.name)
<1>1. r.entries \in Seq(EntrySet) /\ r.pending \in Seq(OpenCalls)
  BY ReaderIs
<1>2. CASE Unowned(result) /\ open # {}
  <2> DEFINE id == r.pending[Max(open)].id
             e == [result EXCEPT !.id = id]
             p == RemoveAt(r.pending, Max(open))
             es == Append(r.entries, e)
  <2>1. id \in AnyId /\ Max(open) \in 1..Len(r.pending)
    BY <1>2, OpenForIs
  <2> HIDE DEF id
  <2>2. e \in EntrySet /\ e.kind = "result"
    BY <2>1 DEF EntrySet
  <2>3. p \in Seq(OpenCalls)
    BY <1>1, <2>1, RemoveAtIs
  <2>4. Resolved(r, result) = e /\ StillOpen(r, result) = p
    BY <1>2 DEF Resolved, StillOpen, id
  <2>5. Resolve(r, result) = [r EXCEPT !.entries = es, !.pending = p]
    BY <1>2, ResolveIs DEF id
  <2> HIDE DEF e, p
  <2>6. es \in Seq(EntrySet)
    BY <1>1, <2>2
  <2> HIDE DEF es
  <2>7. Resolve(r, result) \in Readers
    BY <2>3, <2>5, <2>6 DEF Readers
  <2>8. /\ Resolve(r, result).entries = es /\ Resolve(r, result).pending = p
        /\ Resolve(r, result).plain = r.plain /\ Resolve(r, result).taken = r.taken
    BY <2>5 DEF Readers
  <2>9. QED
    BY <2>2, <2>4, <2>7, <2>8 DEF es
<1>3. CASE ~(Unowned(result) /\ open # {})
  <2> DEFINE es == Append(r.entries, result)
  <2>1. es \in Seq(EntrySet)
    BY <1>1
  <2>2. Resolve(r, result) = [r EXCEPT !.entries = es]
    BY <1>3, ResolveIs, Zenon
  <2> HIDE DEF es
  <2>3. Resolve(r, result) \in Readers
    BY <2>1, <2>2 DEF Readers
  <2>4. /\ Resolve(r, result).entries = es /\ Resolve(r, result).pending = r.pending
        /\ Resolve(r, result).plain = r.plain /\ Resolve(r, result).taken = r.taken
    BY <2>2 DEF Readers
  <2>5. Resolved(r, result) = result /\ StillOpen(r, result) = r.pending
    BY <1>3, Zenon DEF Resolved, StillOpen
  <2>6. QED
    BY <2>3, <2>4, <2>5 DEF es
<1>4. QED
  BY <1>2, <1>3

\* A result whose call is found without the entries before finds the same call with them.
LEMMA ResolveAfter ==
  ASSUME NEW es \in Seq(EntrySet), NEW p \in Seq(OpenCalls),
         NEW r \in Readers, NEW q \in Readers, After(es, p, r, q),
         NEW result \in EntrySet, result.kind = "result", Settled(Resolved(q, result))
  PROVE  After(es, p, Resolve(r, result), Resolve(q, result))
<1> DEFINE name == result.name
           n == Len(p)
<1>1. /\ r.entries = es \o q.entries /\ r.pending = p \o q.pending
      /\ r.plain = q.plain /\ r.taken = q.taken
  BY DEF After
<1>2. q.entries \in Seq(EntrySet) /\ q.pending \in Seq(OpenCalls) /\ n \in Nat /\ Len(q.pending) \in Nat
  BY ReaderIs
<1>3. Resolved(r, result) = Resolved(q, result) /\ StillOpen(r, result) = p \o StillOpen(q, result)
  <2>1. CASE ~Unowned(result)
    BY <1>1, <2>1 DEF Resolved, StillOpen
  <2>2. CASE Unowned(result)
    <3>1. OpenFor(q, name) # {}
      <4>1. SUFFICES ASSUME OpenFor(q, name) = {}
                     PROVE  FALSE
        OBVIOUS
      <4>2. Resolved(q, result) = result
        BY <4>1 DEF Resolved
      <4>3. QED
        BY <2>2, <4>2 DEF Unowned, Settled
    <3> DEFINE m == Max(OpenFor(q, name))
    <3>2. m \in 1..Len(q.pending) /\ m \in OpenFor(q, name) /\ \A j \in OpenFor(q, name) : j <= m
      BY <3>1, OpenForIs
    <3> HIDE DEF m
    <3>3. /\ DOMAIN r.pending = 1..n + Len(q.pending) /\ DOMAIN q.pending = 1..Len(q.pending)
          /\ \A j \in 1..n + Len(q.pending) :
               r.pending[j] = IF j <= n THEN p[j] ELSE q.pending[j - n]
      BY <1>1, <1>2
    <3>4. n + m \in OpenFor(r, name) /\ r.pending[n + m] = q.pending[m]
      <4>1. n + m \in 1..n + Len(q.pending) /\ ~(n + m <= n) /\ (n + m) - n = m
        BY <1>2, <3>2
      <4>2. r.pending[n + m] = q.pending[m]
        BY <3>3, <4>1
      <4>3. q.pending[m].name = name
        BY <3>2 DEF OpenFor
      <4>4. QED
        BY <3>3, <4>1, <4>2, <4>3 DEF OpenFor
    <3>5. ASSUME NEW j \in OpenFor(r, name)
          PROVE  j <= n + m
      <4>1. j \in 1..n + Len(q.pending) /\ r.pending[j].name = name
        BY <3>3 DEF OpenFor
      <4>2. CASE j <= n
        BY <1>2, <3>2, <4>1, <4>2
      <4>3. CASE ~(j <= n)
        <5>1. j - n \in 1..Len(q.pending) /\ r.pending[j] = q.pending[j - n]
          BY <1>2, <3>3, <4>1, <4>3
        <5>2. j - n \in OpenFor(q, name)
          BY <3>3, <4>1, <5>1 DEF OpenFor
        <5>3. QED
          BY <1>2, <3>2, <4>1, <5>1, <5>2
      <4>4. QED
        BY <4>2, <4>3
    <3>6. Max(OpenFor(r, name)) = n + m
      BY <3>4, <3>5, OpenForIs, MaxIsThat
    <3>7. Resolved(r, result) = Resolved(q, result)
      BY <2>2, <3>1, <3>4, <3>6 DEF Resolved, m
    <3>8. Removes(p, q.pending, m)
      BY <1>2, <3>2, RemoveAtBehind
    <3>9. StillOpen(r, result) = RemoveAt(r.pending, n + m) /\ StillOpen(q, result) = RemoveAt(q.pending, m)
      BY <2>2, <3>1, <3>4, <3>6 DEF StillOpen, m
    <3>10. QED
      BY <1>1, <3>7, <3>8, <3>9, Zenon DEF Removes
  <2>3. QED
    BY <2>1, <2>2
<1>4. /\ Resolved(q, result) \in EntrySet
      /\ Resolve(r, result).entries = Append(r.entries, Resolved(r, result))
      /\ Resolve(r, result).pending = StillOpen(r, result)
      /\ Resolve(r, result).plain = r.plain /\ Resolve(r, result).taken = r.taken
  BY ResolveFields
<1>5. /\ Resolve(q, result).entries = Append(q.entries, Resolved(q, result))
      /\ Resolve(q, result).pending = StillOpen(q, result)
      /\ Resolve(q, result).plain = q.plain /\ Resolve(q, result).taken = q.taken
  BY ResolveFields
<1>6. Moves(es, q.entries, Resolved(q, result))
  BY <1>2, <1>4, AppendBehind
<1>7. QED
  BY <1>1, <1>3, <1>4, <1>5, <1>6, Zenon DEF After, Moves

\* Readers between two messages
Rests == {r \in Readers : r.plain = <<>> /\ r.taken = <<>>}

LEMMA MessageIs ==
  ASSUME NEW m \in Messages
  PROVE  /\ m.kind \in {"user", "assistant", "tool"} /\ m.lines \in Seq(Lines)
         /\ m.header.id \in AnyId /\ m.header.name \in Words /\ m.header.ok \in BOOLEAN
BY DEF Messages, Headers

LEMMA ReadToolResultIs ==
  ASSUME NEW m \in Messages
  PROVE  ReadToolResult(m) \in EntrySet /\ ReadToolResult(m).kind = "result"
<1>1. m.lines \in Seq(Lines) /\ TRUE \in BOOLEAN
  BY MessageIs
<1>2. ToolResult(NoId, "legacy", m.lines, TRUE) \in EntrySet
  BY <1>1, WordTypes, EntryTypes
<1>3. ToolResult(m.header.id, m.header.name, m.lines, m.header.ok) \in EntrySet
  BY MessageIs, EntryTypes
<1>4. CASE m.header = Unread
  <2>1. ReadToolResult(m) = ToolResult(NoId, "legacy", m.lines, TRUE)
    BY <1>4 DEF ReadToolResult
  <2>2. QED
    BY <1>2, <2>1, EntryKinds
<1>5. CASE m.header # Unread
  <2>1. ReadToolResult(m) = ToolResult(m.header.id, m.header.name, m.lines, m.header.ok)
    BY <1>5 DEF ReadToolResult
  <2>2. QED
    BY <1>3, <2>1, EntryKinds
<1>6. QED
  BY <1>4, <1>5

LEMMA ReaderRests ==
  /\ Reader \in Rests
  /\ \A r \in Rests : r \in Readers /\ After(r.entries, r.pending, r, Reader)
<1>1. Reader \in Rests
  BY ReaderEmpty DEF Rests
<1>2. ASSUME NEW r \in Rests
      PROVE  r \in Readers /\ After(r.entries, r.pending, r, Reader)
  <2>1. r \in Readers /\ r.plain = <<>> /\ r.taken = <<>>
    BY DEF Rests
  <2>2. r.entries \in Seq(EntrySet) /\ r.pending \in Seq(OpenCalls)
    BY <2>1, ReaderIs
  <2>3. r.entries \o <<>> = r.entries /\ r.pending \o <<>> = r.pending
    BY <2>2, ConcatEmptySeq
  <2>4. QED
    BY <2>1, <2>3, ReaderEmpty DEF After
<1>3. QED
  BY <1>1, <1>2

\* What a message adds to the entries
Adds(m, new) ==
  /\ new \in Seq(EntrySet)
  /\ IF m.kind = "user" THEN new = <<User(m.lines)>> ELSE NoUsers(new)

LEMMA ReadMessageAdds ==
  ASSUME NEW r \in Rests, NEW m \in Messages
  PROVE  /\ ReadMessage(r, m) \in Rests
         /\ \E new : Adds(m, new) /\ ReadMessage(r, m).entries = r.entries \o new
<1>1. r \in Readers /\ r.entries \in Seq(EntrySet) /\ r.plain = <<>> /\ r.taken = <<>>
  BY ReaderIs DEF Rests
<1>2. m.kind \in {"user", "assistant", "tool"} /\ m.lines \in Seq(Lines)
  BY MessageIs
<1>3. CASE m.kind = "user"
  <2> DEFINE e == User(m.lines)
             es == Append(r.entries, e)
  <2>1. e \in EntrySet
    BY <1>2, EntryTypes
  <2>2. ReadMessage(r, m) = [r EXCEPT !.entries = es]
    BY <1>3 DEF ReadMessage
  <2>3. es \in Seq(EntrySet) /\ es = r.entries \o <<e>> /\ <<e>> \in Seq(EntrySet)
    BY <1>1, <2>1, AppendIsConcat
  <2> HIDE DEF es
  <2>4. ReadMessage(r, m) \in Rests /\ ReadMessage(r, m).entries = es
    BY <1>1, <2>2, <2>3 DEF Readers, Rests
  <2>5. Adds(m, <<e>>)
    BY <1>3, <2>3, Zenon DEF Adds
  <2>6. QED
    BY <2>3, <2>4, <2>5, Zenon
<1>4. CASE m.kind = "assistant"
  <2> DEFINE q == ReadLines(Reader, m.lines)
             p == ReadLines(r, m.lines)
  <2>1. Reader \in Readers /\ After(r.entries, r.pending, r, Reader)
    BY ReaderRests DEF Rests
  <2>2. q \in Readers /\ p \in Readers
    BY <1>1, <1>2, <2>1, ReadLinesStep
  <2>3. After(r.entries, r.pending, p, q)
    BY <1>1, <1>2, <2>1, ReadLinesAfter, ReaderIs
  <2>4. NoUsers(EndOfText(q).entries)
    BY <1>2, ReadLinesNoUsers
  <2>5. ReadMessage(r, m) = EndOfText(p)
    BY <1>4 DEF ReadMessage
  <2> HIDE DEF p, q
  <2>6. After(r.entries, r.pending, EndOfText(p), EndOfText(q))
    BY <1>1, <2>2, <2>3, EndOfTextAfter, ReaderIs
  <2>7. EndOfText(p) \in Rests /\ EndOfText(q).entries \in Seq(EntrySet)
    BY <2>2, EndOfTextIs, ReaderIs DEF Rests
  <2>8. Adds(m, EndOfText(q).entries)
    BY <1>4, <2>4, <2>7 DEF Adds
  <2>9. QED
    BY <2>5, <2>6, <2>7, <2>8, Zenon DEF After
<1>5. CASE m.kind = "tool"
  <2> DEFINE result == ReadToolResult(m)
             e == Resolved(r, result)
  <2>1. result \in EntrySet /\ result.kind = "result"
    BY ReadToolResultIs
  <2>2. ReadMessage(r, m) = Resolve(r, result)
    BY <1>5 DEF ReadMessage
  <2> HIDE DEF result
  <2>3. /\ e \in EntrySet /\ e.kind = "result" /\ Resolve(r, result) \in Readers
        /\ Resolve(r, result).entries = Append(r.entries, e)
        /\ Resolve(r, result).plain = <<>> /\ Resolve(r, result).taken = <<>>
    BY <1>1, <2>1, ResolveFields
  <2> HIDE DEF e
  <2>4. Append(r.entries, e) = r.entries \o <<e>> /\ <<e>> \in Seq(EntrySet)
    BY <1>1, <2>3, AppendIsConcat
  <2>5. NoUsers(<<e>>)
    BY <2>3 DEF NoUsers
  <2>6. Adds(m, <<e>>)
    BY <1>5, <2>4, <2>5 DEF Adds
  <2>7. QED
    BY <2>2, <2>3, <2>4, <2>6, Zenon DEF Rests
<1>6. QED
  BY <1>2, <1>3, <1>4, <1>5

LEMMA ReadMessageRests ==
  ASSUME NEW r \in Rests, NEW m \in Messages
  PROVE  ReadMessage(r, m) \in Rests
BY ReadMessageAdds

\* A message read after another history adds to it what it adds to an empty one.
LEMMA ReadMessageAfter ==
  ASSUME NEW es \in Seq(EntrySet), NEW p \in Seq(OpenCalls),
         NEW r \in Rests, NEW q \in Rests, After(es, p, r, q), NEW m \in Messages,
         AllSettled(ReadMessage(q, m).entries)
  PROVE  After(es, p, ReadMessage(r, m), ReadMessage(q, m))
<1>1. /\ r \in Readers /\ q \in Readers /\ q.entries \in Seq(EntrySet)
      /\ r.entries = es \o q.entries /\ r.pending = p \o q.pending /\ r.plain = q.plain /\ r.taken = q.taken
  BY ReaderIs DEF Rests, After
<1>2. m.kind \in {"user", "assistant", "tool"} /\ m.lines \in Seq(Lines)
  BY MessageIs
<1>3. CASE m.kind = "user"
  <2> DEFINE e == User(m.lines)
  <2>1. e \in EntrySet
    BY <1>2, EntryTypes
  <2>2. /\ ReadMessage(r, m) = [r EXCEPT !.entries = Append(@, e)]
        /\ ReadMessage(q, m) = [q EXCEPT !.entries = Append(@, e)]
    BY <1>3 DEF ReadMessage
  <2> HIDE DEF e
  <2>3. /\ ReadMessage(r, m).entries = Append(r.entries, e) /\ ReadMessage(r, m).pending = r.pending
        /\ ReadMessage(r, m).plain = r.plain /\ ReadMessage(r, m).taken = r.taken
    BY <1>1, <2>2 DEF Readers
  <2>4. /\ ReadMessage(q, m).entries = Append(q.entries, e) /\ ReadMessage(q, m).pending = q.pending
        /\ ReadMessage(q, m).plain = q.plain /\ ReadMessage(q, m).taken = q.taken
    BY <1>1, <2>2 DEF Readers
  <2>5. Moves(es, q.entries, e)
    BY <1>1, <2>1, AppendBehind
  <2>6. QED
    BY <1>1, <2>3, <2>4, <2>5, Zenon DEF After, Moves
<1>4. CASE m.kind = "assistant"
  <2> DEFINE b == ReadLines(q, m.lines)
             a == ReadLines(r, m.lines)
  <2>1. a \in Readers /\ b \in Readers /\ After(es, p, a, b)
    BY <1>1, <1>2, ReadLinesStep, ReadLinesAfter
  <2>2. ReadMessage(r, m) = EndOfText(a) /\ ReadMessage(q, m) = EndOfText(b)
    BY <1>4 DEF ReadMessage
  <2> HIDE DEF a, b
  <2>3. QED
    BY <2>1, <2>2, EndOfTextAfter
<1>5. CASE m.kind = "tool"
  <2> DEFINE result == ReadToolResult(m)
             e == Resolved(q, result)
  <2>1. result \in EntrySet /\ result.kind = "result"
    BY ReadToolResultIs
  <2>2. ReadMessage(r, m) = Resolve(r, result) /\ ReadMessage(q, m) = Resolve(q, result)
    BY <1>5 DEF ReadMessage
  <2> HIDE DEF result
  <2>3. e \in EntrySet /\ Resolve(q, result).entries = Append(q.entries, e)
    BY <1>1, <2>1, ResolveFields
  <2>4. AppendedAll(q.entries, e)
    BY <1>1, <2>3, AppendAll
  <2>5. Settled(e)
    BY <2>2, <2>3, <2>4, Zenon DEF AppendedAll
  <2>6. QED
    BY <1>1, <2>1, <2>2, <2>5, ResolveAfter
<1>6. QED
  BY <1>2, <1>3, <1>4, <1>5

ReadAllRuns(f, r, legacy) ==
  f = [n \in 0..Len(legacy) |-> IF n = 0 THEN r ELSE ReadMessage(f[n - 1], legacy[n])]

LEMMA ReadAllIs ==
  ASSUME NEW r \in Rests, NEW legacy \in Seq(Messages)
  PROVE  \E f : ReadAllRuns(f, r, legacy) /\ ReadAll(r, legacy) = f[Len(legacy)]
<1> DEFINE N == Len(legacy)
           g == [n \in 1..N |-> [a \in Rests |-> ReadMessage(a, legacy[n])]]
<1>1. N \in Nat /\ r \in Rests
  OBVIOUS
<1>2. \A n \in 1..N : \A a \in Rests : ReadMessage(a, legacy[n]) \in Rests
  BY ReadMessageRests
<1>3. g \in Rounds(Rests, N)
  BY <1>2 DEF Rounds
<1>4. PICK f : f \in [0..N -> Rests] /\ f[0] = r /\ \A n \in 1..N : f[n] = g[n][f[n - 1]]
  <2> HIDE DEF g, N
  <2>1. \E f : Iterates(f, Rests, r, N, g)
    BY <1>1, <1>3, RecursionUpTo
  <2>2. QED
    BY <2>1 DEF Iterates
<1>5. \A n \in 1..N : f[n] = ReadMessage(f[n - 1], legacy[n])
  <2> TAKE n \in 1..N
  <2>1. n - 1 \in 0..N
    BY <1>1
  <2>2. QED
    BY <1>4, <2>1
<1>6. f = [n \in 0..N |-> IF n = 0 THEN r ELSE ReadMessage(f[n - 1], legacy[n])]
  <2>1. \A n \in 0..N : n = 0 \/ n \in 1..N
    BY <1>1
  <2> HIDE DEF N, g
  <2>2. \A n \in 0..N : f[n] = IF n = 0 THEN r ELSE ReadMessage(f[n - 1], legacy[n])
    BY <1>4, <1>5, <2>1, Zenon
  <2>3. QED
    BY <1>4, <2>2
<1>7. ReadAllRuns(f, r, legacy)
  BY <1>6 DEF ReadAllRuns, N
<1> HIDE DEF g, N
<1>8. ReadAllRuns(CHOOSE h : ReadAllRuns(h, r, legacy), r, legacy)
  BY <1>7
<1>9. ReadAll(r, legacy) = (CHOOSE h : ReadAllRuns(h, r, legacy))[Len(legacy)]
  BY DEF ReadAll, ReadAllRuns
<1>10. QED
  BY <1>8, <1>9

LEMMA ReadAllStep ==
  ASSUME NEW r \in Rests, NEW legacy \in Seq(Messages)
  PROVE  /\ ReadAll(r, legacy) \in Rests
         /\ ReadAll(r, <<>>) = r
         /\ \A e \in Messages :
              ReadAll(r, Append(legacy, e)) =
                ReadMessage(ReadAll(r, legacy), Append(legacy, e)[Len(legacy) + 1])
<1> DEFINE N == Len(legacy)
<1>1. N \in Nat /\ r \in Rests /\ <<>> \in Seq(Messages)
  OBVIOUS
<1>2. PICK f : ReadAllRuns(f, r, legacy) /\ ReadAll(r, legacy) = f[N]
  BY ReadAllIs
<1>3. f[0] = r /\ \A n \in 1..N : f[n] = ReadMessage(f[n - 1], legacy[n])
  <2>1. \A n \in 0..N : f[n] = IF n = 0 THEN r ELSE ReadMessage(f[n - 1], legacy[n])
    BY <1>2, Zenon DEF ReadAllRuns
  <2>2. 0 \in 0..N /\ \A n \in 1..N : n \in 0..N /\ n # 0
    BY <1>1
  <2>3. QED
    BY <2>1, <2>2, Zenon
<1>4. ReadAll(r, legacy) \in Rests
  <2> DEFINE D == {n \in 0..N : f[n] \in Rests}
  <2>1. 0 \in D
    <3>1. 0 \in 0..N /\ f[0] \in Rests
      BY <1>1, <1>3
    <3>2. QED
      BY <3>1
  <2>2. ASSUME NEW n \in 1..N, n - 1 \in D
        PROVE  n \in D
    <3>1. ReadMessage(f[n - 1], legacy[n]) \in Rests
      BY <2>2, ReadMessageRests
    <3>2. QED
      BY <1>3, <3>1
  <2> HIDE DEF D, N
  <2>3. \A n \in 0..N : n \in D
    BY <1>1, <2>1, <2>2, InductionUpTo
  <2>4. QED
    BY <1>1, <1>2, <2>3 DEF D
<1>5. ReadAll(r, <<>>) = r
  <2>1. PICK h : ReadAllRuns(h, r, <<>>) /\ ReadAll(r, <<>>) = h[Len(<<>>)]
    BY <1>1, ReadAllIs
  <2>2. QED
    BY <2>1 DEF ReadAllRuns
<1>6. ASSUME NEW e \in Messages
      PROVE  ReadAll(r, Append(legacy, e)) =
               ReadMessage(ReadAll(r, legacy), Append(legacy, e)[Len(legacy) + 1])
  <2> DEFINE t == Append(legacy, e)
  <2>1. t \in Seq(Messages) /\ Len(t) = N + 1 /\ \A n \in 1..N : t[n] = legacy[n]
    OBVIOUS
  <2> HIDE DEF t
  <2>2. PICK h : ReadAllRuns(h, r, t) /\ ReadAll(r, t) = h[N + 1]
    BY <2>1, ReadAllIs
  <2>3. h[0] = r /\ \A n \in 1..N + 1 : h[n] = ReadMessage(h[n - 1], t[n])
    <3>1. \A n \in 0..N + 1 : h[n] = IF n = 0 THEN r ELSE ReadMessage(h[n - 1], t[n])
      BY <2>1, <2>2, Zenon DEF ReadAllRuns
    <3>2. 0 \in 0..N + 1 /\ \A n \in 1..N + 1 : n \in 0..N + 1 /\ n # 0
      BY <1>1
    <3>3. QED
      BY <3>1, <3>2, Zenon
  <2> DEFINE D == {n \in 0..N : f[n] = h[n]}
  <2>4. 0 \in D
    BY <1>1, <1>3, <2>3
  <2>5. ASSUME NEW n \in 1..N, n - 1 \in D
        PROVE  n \in D
    <3>1. n \in 1..N + 1 /\ f[n - 1] = h[n - 1] /\ t[n] = legacy[n]
      BY <1>1, <2>1, <2>5
    <3>2. h[n] = f[n]
      BY <1>3, <2>3, <3>1
    <3>3. QED
      BY <3>2
  <2>6. f[N] = h[N]
    <3> HIDE DEF D, N
    <3>1. \A n \in 0..N : n \in D
      BY <1>1, <2>4, <2>5, InductionUpTo
    <3>2. QED
      BY <1>1, <3>1 DEF D
  <2>7. N + 1 \in 1..N + 1 /\ (N + 1) - 1 = N
    BY <1>1
  <2>8. h[N + 1] = ReadMessage(h[N], t[N + 1])
    BY <2>3, <2>7
  <2>9. QED
    BY <1>2, <2>2, <2>6, <2>8 DEF t
<1>7. QED
  BY <1>4, <1>5, <1>6

LEMMA ReadAllAfter ==
  ASSUME NEW es \in Seq(EntrySet), NEW p \in Seq(OpenCalls),
         NEW r \in Rests, NEW q \in Rests, After(es, p, r, q), NEW legacy \in Seq(Messages),
         AllSettled(ReadAll(q, legacy).entries)
  PROVE  After(es, p, ReadAll(r, legacy), ReadAll(q, legacy))
<1> DEFINE D == {ms \in Seq(Messages) :
                   AllSettled(ReadAll(q, ms).entries) => After(es, p, ReadAll(r, ms), ReadAll(q, ms))}
<1>1. <<>> \in D
  BY ReadAllStep
<1>2. ASSUME NEW ms \in Seq(Messages), NEW m \in Messages, ms \in D
      PROVE  Append(ms, m) \in D
  <2>1. ReadAll(r, ms) \in Rests /\ ReadAll(q, ms) \in Rests
    BY ReadAllStep
  <2>2. /\ ReadAll(r, Append(ms, m)) = ReadMessage(ReadAll(r, ms), Append(ms, m)[Len(ms) + 1])
        /\ ReadAll(q, Append(ms, m)) = ReadMessage(ReadAll(q, ms), Append(ms, m)[Len(ms) + 1])
    BY ReadAllStep
  <2>3. Append(ms, m) \in Seq(Messages) /\ Append(ms, m)[Len(ms) + 1] = m
    OBVIOUS
  <2>4. ASSUME AllSettled(ReadMessage(ReadAll(q, ms), m).entries)
        PROVE  After(es, p, ReadMessage(ReadAll(r, ms), m), ReadMessage(ReadAll(q, ms), m))
    <3>1. PICK new : Adds(m, new) /\ ReadMessage(ReadAll(q, ms), m).entries = ReadAll(q, ms).entries \o new
      BY <2>1, ReadMessageAdds
    <3>2. new \in Seq(EntrySet) /\ ReadAll(q, ms).entries \in Seq(EntrySet)
      BY <2>1, <3>1, ReaderIs DEF Adds, Rests
    <3>3. JoinedAll(ReadAll(q, ms).entries, new)
      BY <3>2, JoinAll
    <3>4. AllSettled(ReadAll(q, ms).entries)
      BY <2>4, <3>1, <3>3, Zenon DEF JoinedAll
    <3>5. After(es, p, ReadAll(r, ms), ReadAll(q, ms))
      BY <1>2, <3>4
    <3>6. QED
      BY <2>1, <2>4, <3>5, ReadMessageAfter
  <2>5. QED
    BY <2>2, <2>3, <2>4
<1> HIDE DEF D
<1>3. legacy \in D
  BY <1>1, <1>2, SeqInduction
<1>4. QED
  BY <1>3 DEF D

ReadsOn(r, a, b) == ReadAll(r, a \o b) = ReadAll(ReadAll(r, a), b)

LEMMA ReadAllConcat ==
  ASSUME NEW r \in Rests, NEW a \in Seq(Messages), NEW b \in Seq(Messages)
  PROVE  ReadsOn(r, a, b)
<1> DEFINE D == {c \in Seq(Messages) : ReadsOn(r, a, c)}
           q == ReadAll(r, a)
<1>0. q \in Rests
  BY ReadAllStep
<1> HIDE DEF q
<1>1. <<>> \in D
  <2>1. a \o <<>> = a /\ <<>> \in Seq(Messages)
    BY ConcatEmptySeq
  <2>2. ReadAll(q, <<>>) = q
    BY <1>0, <2>1, ReadAllStep
  <2>3. ReadsOn(r, a, <<>>)
    BY <2>1, <2>2, Zenon DEF ReadsOn, q
  <2>4. QED
    BY <2>1, <2>3
<1>2. ASSUME NEW c \in Seq(Messages), NEW m \in Messages, c \in D
      PROVE  Append(c, m) \in D
  <2> DEFINE x == a \o c
             y == Append(c, m)
  <2>1. x \in Seq(Messages) /\ y \in Seq(Messages) /\ Append(x, m)[Len(x) + 1] = m /\ y[Len(c) + 1] = m
    OBVIOUS
  <2>2. Moves(a, c, m)
    BY AppendBehind
  <2>3. ReadAll(r, x) = ReadAll(q, c)
    BY <1>2 DEF ReadsOn, q
  <2>4. Append(x, m) = a \o y
    BY <2>2, Zenon DEF Moves
  <2>5. ReadAll(q, y) = ReadMessage(ReadAll(q, c), m)
    BY <1>0, <2>1, ReadAllStep
  <2> HIDE DEF x
  <2>6. ReadAll(r, Append(x, m)) = ReadMessage(ReadAll(r, x), m)
    <3>1. ReadAll(r, Append(x, m)) = ReadMessage(ReadAll(r, x), Append(x, m)[Len(x) + 1])
      BY <2>1, ReadAllStep
    <3>2. QED
      BY <2>1, <3>1, Zenon
  <2> HIDE DEF y
  <2>7. ReadsOn(r, a, y)
    BY <2>3, <2>4, <2>5, <2>6, Zenon DEF ReadsOn, q
  <2>8. QED
    BY <2>1, <2>7 DEF y
<1> HIDE DEF D
<1>3. b \in D
  BY <1>1, <1>2, SeqInduction
<1>4. QED
  BY <1>3 DEF D

LEMMA NormalizeType ==
  ASSUME NEW a \in Seq(Messages)
  PROVE  NormalizeLegacy(a) \in Seq(EntrySet) /\ NormalizeLegacy(<<>>) = <<>>
<1>1. Reader \in Rests /\ <<>> \in Seq(Messages)
  BY ReaderRests
<1>2. ReadAll(Reader, a) \in Rests /\ ReadAll(Reader, <<>>) = Reader
  BY <1>1, ReadAllStep
<1>3. QED
  BY <1>2, ReaderEmpty, ReaderIs DEF NormalizeLegacy, Rests

NormalizesOn(a, b) == NormalizeLegacy(a \o b) = NormalizeLegacy(a) \o NormalizeLegacy(b)

\* Text behind other text is read as it is alone, if no result of it lacks its call.
LEMMA NormalizeConcat ==
  ASSUME NEW a \in Seq(Messages), NEW b \in Seq(Messages), AllSettled(NormalizeLegacy(b))
  PROVE  NormalizesOn(a, b)
<1> DEFINE r == ReadAll(Reader, a)
<1>1. Reader \in Rests
  BY ReaderRests
<1>2. r \in Rests
  BY <1>1, ReadAllStep
<1>3. ReadsOn(Reader, a, b)
  BY <1>1, ReadAllConcat
<1>4. AllSettled(ReadAll(Reader, b).entries)
  BY DEF NormalizeLegacy
<1> HIDE DEF r
<1>5. After(r.entries, r.pending, r, Reader) /\ r.entries \in Seq(EntrySet) /\ r.pending \in Seq(OpenCalls)
  BY <1>2, ReaderRests, ReaderIs
<1>6. After(r.entries, r.pending, ReadAll(r, b), ReadAll(Reader, b))
  BY <1>1, <1>2, <1>4, <1>5, ReadAllAfter
<1>7. QED
  BY <1>3, <1>6, Zenon DEF After, ReadsOn, NormalizeLegacy, NormalizesOn, r

(***************************************************************************)
(* What is written is read back: the text form of a settled entry is read  *)
(* as that entry alone, after whatever text.                               *)
(***************************************************************************)
LEMMA PairAppended ==
  ASSUME NEW S, NEW x \in S, NEW y \in S
  PROVE  Append(<<x>>, y) = <<x, y>> /\ <<x, y>> \in Seq(S) /\ Len(<<x, y>>) = 2
<1>1. <<x>> \in Seq(S) /\ <<x, y>> \in Seq(S)
  OBVIOUS
<1>2. Len(<<x>>) = 1 /\ Len(<<x, y>>) = 2
  OBVIOUS
<1>3. Append(<<x>>, y) = <<x, y>>
  <2> DEFINE a == Append(<<x>>, y)
             b == <<x, y>>
  <2>1. a \in Seq(S) /\ Len(a) = 2 /\ a[1] = x /\ a[2] = y
    <3>1. /\ a \in Seq(S) /\ Len(a) = Len(<<x>>) + 1
          /\ \A i \in 1..Len(<<x>>) : a[i] = <<x>>[i]
          /\ a[Len(<<x>>) + 1] = y
      BY <1>1, AppendProperties
    <3>2. QED
      BY <1>2, <3>1
  <2>2. b \in Seq(S) /\ Len(b) = 2 /\ b[1] = x /\ b[2] = y
    BY <1>1
  <2> HIDE DEF a, b
  <2>3. \A i \in 1..2 : i = 1 \/ i = 2
    OBVIOUS
  <2>4. \A i \in 1..Len(a) : a[i] = b[i]
    BY <2>1, <2>2, <2>3
  <2>5. a = b
    BY <2>1, <2>2, <2>4, SeqEqual
  <2>6. QED
    BY <2>5 DEF a, b
<1>4. QED
  BY <1>1, <1>2, <1>3

LEMMA TripleAppended ==
  ASSUME NEW S, NEW x \in S, NEW y \in S, NEW z \in S
  PROVE  Append(<<x, y>>, z) = <<x, y, z>> /\ <<x, y, z>> \in Seq(S)
<1>1. <<x, y>> \in Seq(S) /\ <<x, y, z>> \in Seq(S)
  OBVIOUS
<1>2. Len(<<x, y>>) = 2 /\ Len(<<x, y, z>>) = 3
  OBVIOUS
<1>3. Append(<<x, y>>, z) = <<x, y, z>>
  <2> DEFINE a == Append(<<x, y>>, z)
             b == <<x, y, z>>
  <2>1. a \in Seq(S) /\ Len(a) = 3 /\ a[1] = x /\ a[2] = y /\ a[3] = z
    <3>1. /\ a \in Seq(S) /\ Len(a) = Len(<<x, y>>) + 1
          /\ \A i \in 1..Len(<<x, y>>) : a[i] = <<x, y>>[i]
          /\ a[Len(<<x, y>>) + 1] = z
      BY <1>1, AppendProperties
    <3>2. QED
      BY <1>2, <3>1
  <2>2. b \in Seq(S) /\ Len(b) = 3 /\ b[1] = x /\ b[2] = y /\ b[3] = z
    BY <1>1
  <2> HIDE DEF a, b
  <2>3. \A i \in 1..3 : i = 1 \/ i = 2 \/ i = 3
    OBVIOUS
  <2>4. \A i \in 1..Len(a) : a[i] = b[i]
    BY <2>1, <2>2, <2>3
  <2>5. a = b
    BY <2>1, <2>2, <2>4, SeqEqual
  <2>6. QED
    BY <2>5 DEF a, b
<1>4. QED
  BY <1>1, <1>3

LEMMA ToLegacyType ==
  ASSUME NEW e \in EntrySet
  PROVE  ToLegacy(e) \in Messages
<1>1. /\ e.kind \in {"user", "assistant", "call", "result"} /\ e.text \in Seq(Lines)
      /\ e.id \in AnyId /\ e.name \in Words /\ e.ok \in BOOLEAN
  BY EntryIs DEF Kinds
<1>2. \A kind \in {"user", "assistant", "tool"}, lines \in Seq(Lines), header \in Headers :
        Message(kind, lines, header) \in Messages
  BY DEF Message, Messages
<1>3. Unread \in Headers /\ Header(e.id, e.name, e.ok) \in Headers
  BY <1>1, WordTypes DEF Unread, Header, Headers
<1>4. Payload(e.id, e.name) \in Lines
  BY <1>1 DEF Payload, Lines
<1>5. <<Open, Payload(e.id, e.name), Close>> \in Seq(Lines)
  BY <1>4, LineTypes
<1>6. /\ Message("user", e.text, Unread) \in Messages
      /\ Message("assistant", e.text, Unread) \in Messages
      /\ Message("assistant", <<Open, Payload(e.id, e.name), Close>>, Unread) \in Messages
      /\ Message("tool", e.text, Header(e.id, e.name, e.ok)) \in Messages
  BY <1>1, <1>2, <1>3, <1>5, Zenon
<1>7. QED
  BY <1>1, <1>6, Zenon DEF ToLegacy

LEMMA NormalizeOneIs ==
  ASSUME NEW m \in Messages
  PROVE  NormalizeLegacy(<<m>>) = ReadMessage(Reader, m).entries
<1>1. Reader \in Rests /\ <<>> \in Seq(Messages) /\ Append(<<>>, m) = <<m>> /\ <<m>>[1] = m /\ Len(<<>>) + 1 = 1
  BY ReaderRests
<1>2. ReadAll(Reader, <<>>) = Reader
  BY <1>1, ReadAllStep
<1>3. ReadAll(Reader, Append(<<>>, m)) = ReadMessage(ReadAll(Reader, <<>>), Append(<<>>, m)[Len(<<>>) + 1])
  BY <1>1, ReadAllStep
<1>4. QED
  BY <1>1, <1>2, <1>3 DEF NormalizeLegacy

LEMMA ProseRead ==
  ASSUME NEW text \in Seq(Lines), Prose(text)
  PROVE  EndOfText(ReadLines(Reader, text)).entries = <<Assistant(text)>>
<1> DEFINE Reads(lines) ==
             (\A i \in DOMAIN lines : lines[i] # Open /\ lines[i].line # "inline") =>
               LET r == ReadLines(Reader, lines) IN
               r.entries = <<>> /\ r.plain = lines /\ r.taken = <<>>
           D == {lines \in Seq(Lines) : Reads(lines)}
<1>0. Reader \in Readers
  BY ReaderEmpty
<1>1. <<>> \in D
  BY ReadLinesStep, ReaderEmpty
<1>2. ASSUME NEW lines \in Seq(Lines), NEW l \in Lines, lines \in D
      PROVE  Append(lines, l) \in D
  <2> DEFINE more == Append(lines, l)
             r == ReadLines(Reader, lines)
  <2>1. more \in Seq(Lines) /\ more[Len(lines) + 1] = l /\ DOMAIN more = 1..Len(lines) + 1
        /\ Len(lines) \in Nat /\ DOMAIN lines = 1..Len(lines) /\ \A i \in 1..Len(lines) : more[i] = lines[i]
    OBVIOUS
  <2>2. ReadLines(Reader, more) = ReadLine(r, more[Len(lines) + 1]) /\ r \in Readers
    BY <1>0, ReadLinesStep
  <2>3. Reads(lines)
    BY <1>2
  <2> HIDE DEF r
  <2>4. ASSUME \A i \in DOMAIN more : more[i] # Open /\ more[i].line # "inline"
        PROVE  /\ ReadLine(r, l).entries = <<>> /\ ReadLine(r, l).plain = more
               /\ ReadLine(r, l).taken = <<>>
    <3> HIDE DEF more
    <3>1. /\ l # Open /\ l.line # "inline"
          /\ \A i \in DOMAIN lines : lines[i] # Open /\ lines[i].line # "inline"
      BY <2>1, <2>4
    <3>2. r.entries = <<>> /\ r.plain = lines /\ r.taken = <<>>
      BY <2>3, <3>1 DEF r
    <3>3. ReadLine(r, l) = KeepLine(r, l)
      <4>1. Len(r.taken) # 1 /\ Len(r.taken) # 2
        BY <3>2
      <4>2. QED
        BY <3>1, <3>2, <4>1, ReadLineCases, Zenon
    <3>4. QED
      BY <2>2, <3>2, <3>3, KeepLineIs DEF more
  <2> HIDE DEF more
  <2>5. Reads(more)
    BY <2>1, <2>2, <2>4
  <2>6. QED
    BY <2>1, <2>5 DEF more
<1> HIDE DEF D
<1>3. text \in D
  BY <1>1, <1>2, SeqInduction
<1> DEFINE q == ReadLines(Reader, text)
<1>4. q.entries = <<>> /\ q.plain = text /\ q.taken = <<>> /\ text # <<>> /\ q \in Readers
  BY <1>0, <1>3, ReadLinesStep DEF D, Prose
<1> HIDE DEF q
<1>5. Flush(q).entries = Append(<<>>, Assistant(text))
  BY <1>4, FlushIs
<1>6. EndOfText(q) = Flush(q)
  BY <1>4 DEF EndOfText
<1>7. QED
  BY <1>5, <1>6 DEF q

LEMMA CallRead ==
  ASSUME NEW id \in AnyId, NEW name \in Words
  PROVE  EndOfText(ReadLines(Reader, <<Open, Payload(id, name), Close>>)).entries = <<ToolCall(id, name)>>
<1> DEFINE l == Payload(id, name)
           r0 == Reader
           r1 == ReadLines(Reader, <<Open>>)
           r2 == ReadLines(Reader, <<Open, l>>)
           r3 == ReadLines(Reader, <<Open, l, Close>>)
<1>0. l \in Lines /\ l.line = "payload" /\ l.id = id /\ l.name = name /\ Open \in Lines /\ Close \in Lines
  BY LineTypes DEF Payload, Lines
<1>1. Reader \in Readers /\ <<>> \in Seq(Lines)
  BY ReaderEmpty
<1> HIDE DEF l
<1>2. r1 = ReadLine(Reader, Open)
  <2>1. Append(<<>>, Open) = <<Open>> /\ <<Open>>[1] = Open /\ Len(<<>>) + 1 = 1
    OBVIOUS
  <2>2. ReadLines(Reader, <<>>) = Reader
    BY <1>1, ReadLinesStep
  <2>3. ReadLines(Reader, Append(<<>>, Open)) =
          ReadLine(ReadLines(Reader, <<>>), Append(<<>>, Open)[Len(<<>>) + 1])
    BY <1>0, <1>1, ReadLinesStep
  <2>4. QED
    BY <2>1, <2>2, <2>3
<1>3. r2 = ReadLine(r1, l) /\ r1 \in Readers
  <2> DEFINE s == <<Open>>
  <2>0. Append(s, l) = <<Open, l>> /\ <<Open, l>>[2] = l
    BY <1>0, PairAppended
  <2>1. s \in Seq(Lines) /\ Append(s, l) = <<Open, l>> /\ <<Open, l>>[2] = l /\ Len(s) + 1 = 2
    BY <1>0, <2>0
  <2>2. /\ ReadLines(Reader, Append(s, l)) = ReadLine(ReadLines(Reader, s), Append(s, l)[Len(s) + 1])
        /\ ReadLines(Reader, s) \in Readers
    BY <1>0, <1>1, <2>1, ReadLinesStep
  <2>3. QED
    BY <2>1, <2>2
<1>4. r3 = ReadLine(r2, Close) /\ r2 \in Readers
  <2> DEFINE s == <<Open, l>>
  <2>0. Append(s, Close) = <<Open, l, Close>> /\ <<Open, l, Close>>[3] = Close
    BY <1>0, TripleAppended
  <2>1. s \in Seq(Lines) /\ Append(s, Close) = <<Open, l, Close>> /\ <<Open, l, Close>>[3] = Close /\ Len(s) + 1 = 3
    BY <1>0, <2>0
  <2>2. /\ ReadLines(Reader, Append(s, Close)) = ReadLine(ReadLines(Reader, s), Append(s, Close)[Len(s) + 1])
        /\ ReadLines(Reader, s) \in Readers
    BY <1>0, <1>1, <2>1, ReadLinesStep
  <2>3. QED
    BY <2>1, <2>2
<1> HIDE DEF r1, r2, r3
<1>5. r1 = [Reader EXCEPT !.taken = <<Open>>]
  BY <1>2, ReadLineCases, ReaderEmpty
<1>6. r1.entries = <<>> /\ r1.plain = <<>> /\ r1.taken = <<Open>>
  BY <1>5 DEF Reader
<1>7. r2 = [r1 EXCEPT !.taken = Append(@, l)]
  <2>1. Len(r1.taken) = 1
    BY <1>6
  <2>2. QED
    BY <1>3, <2>1, ReadLineCases, Zenon
<1>8. r2.entries = <<>> /\ r2.plain = <<>> /\ r2.taken = <<Open, l>>
  <2>1. Append(r1.taken, l) = <<Open, l>>
    BY <1>0, <1>6, PairAppended
  <2>2. r2 = [r1 EXCEPT !.taken = <<Open, l>>]
    BY <1>7, <2>1
  <2>3. QED
    BY <1>3, <1>6, <2>2 DEF Readers
<1>9. r3 = Recognised(r2, id, name)
  <2>1. Len(r2.taken) = 2 /\ r2.taken[2] = l
    BY <1>8
  <2>2. r3 = Recognised(r2, r2.taken[2].id, r2.taken[2].name)
    BY <1>0, <1>4, <2>1, ReadLineCases, Zenon
  <2>3. QED
    BY <1>0, <2>1, <2>2
<1>10. Flush(r2).entries = <<>>
  BY <1>4, <1>8, FlushIs
<1>11. /\ r3 \in Readers /\ r3.plain = <<>> /\ r3.taken = <<>>
       /\ r3.entries = Append(<<>>, ToolCall(id, name))
  <2>1. /\ Recognised(r2, id, name) \in Readers
        /\ Recognised(r2, id, name).entries = Append(Flush(r2).entries, ToolCall(id, name))
        /\ Recognised(r2, id, name).plain = <<>> /\ Recognised(r2, id, name).taken = <<>>
    BY <1>4, RecognisedIs
  <2>2. QED
    BY <1>9, <1>10, <2>1, Zenon
<1>12. EndOfText(r3).entries = r3.entries
  BY <1>11, FlushIs DEF EndOfText
<1>13. Append(<<>>, ToolCall(id, name)) = <<ToolCall(id, name)>>
  OBVIOUS
<1>14. QED
  BY <1>11, <1>12, <1>13 DEF r3, l

\* The text of a settled entry is read as that entry.
LEMMA NormalizeOne ==
  ASSUME NEW e \in EntrySet, Settled(e)
  PROVE  NormalizeLegacy(<<ToLegacy(e)>>) = <<e>>
<1> DEFINE m == ToLegacy(e)
<1>1. m \in Messages /\ NormalizeLegacy(<<m>>) = ReadMessage(Reader, m).entries
  BY ToLegacyType, NormalizeOneIs
<1>2. Reader.entries = <<>> /\ Reader \in Readers /\ Append(<<>>, e) = <<e>>
  BY ReaderEmpty
<1>3. e.kind \in {"user", "assistant", "call", "result"}
  BY EntryIs DEF Kinds
<1>4. CASE e.kind = "user"
  <2>1. m = Message("user", e.text, Unread)
    BY <1>4 DEF ToLegacy
  <2>2. m.kind = "user" /\ m.lines = e.text
    BY <2>1 DEF Message
  <2> HIDE DEF m
  <2>3. ReadMessage(Reader, m) = [Reader EXCEPT !.entries = Append(@, User(e.text))]
    BY <2>2 DEF ReadMessage
  <2>4. ReadMessage(Reader, m).entries = Append(<<>>, e)
    BY <1>2, <1>4, <2>3, EntryIs DEF Reader
  <2>5. QED
    BY <1>1, <1>2, <2>4 DEF m
<1>5. CASE e.kind = "assistant"
  <2>1. m = Message("assistant", e.text, Unread)
    BY <1>5 DEF ToLegacy
  <2>2. m.kind = "assistant" /\ m.lines = e.text
    BY <2>1 DEF Message
  <2> HIDE DEF m
  <2>3. ReadMessage(Reader, m) = EndOfText(ReadLines(Reader, e.text))
    BY <2>2 DEF ReadMessage
  <2>4. Prose(e.text) /\ e.text \in Seq(Lines) /\ e = Assistant(e.text)
    BY <1>5, EntryIs DEF Settled
  <2>5. EndOfText(ReadLines(Reader, e.text)).entries = <<Assistant(e.text)>>
    BY <2>4, ProseRead
  <2>6. QED
    BY <1>1, <2>3, <2>4, <2>5 DEF m
<1>6. CASE e.kind = "call"
  <2>1. m = Message("assistant", <<Open, Payload(e.id, e.name), Close>>, Unread)
    BY <1>6 DEF ToLegacy
  <2>2. m.kind = "assistant" /\ m.lines = <<Open, Payload(e.id, e.name), Close>>
    BY <2>1 DEF Message
  <2> HIDE DEF m
  <2>3. ReadMessage(Reader, m) = EndOfText(ReadLines(Reader, <<Open, Payload(e.id, e.name), Close>>))
    BY <2>2 DEF ReadMessage
  <2>4. e.id \in AnyId /\ e.name \in Words /\ e = ToolCall(e.id, e.name)
    BY <1>6, EntryIs
  <2>5. EndOfText(ReadLines(Reader, <<Open, Payload(e.id, e.name), Close>>)).entries = <<ToolCall(e.id, e.name)>>
    BY <2>4, CallRead
  <2>6. QED
    BY <1>1, <2>3, <2>4, <2>5, Zenon DEF m
<1>7. CASE e.kind = "result"
  <2>1. m = Message("tool", e.text, Header(e.id, e.name, e.ok))
    BY <1>7 DEF ToLegacy
  <2>2. m.kind = "tool" /\ m.lines = e.text /\ m.header = Header(e.id, e.name, e.ok)
    BY <2>1 DEF Message
  <2> HIDE DEF m
  <2>3. e.id # NoId \/ e.name = "legacy"
    BY <1>7 DEF Settled
  <2>4. m.header # Unread /\ m.header.id = e.id /\ m.header.name = e.name /\ m.header.ok = e.ok
    <3>1. m.header = [id |-> e.id, name |-> e.name, ok |-> e.ok]
      BY <2>2 DEF Header
    <3>2. Unread.id = NoId /\ Unread.name = "" /\ "" # "legacy"
      BY DEF Header, Unread
    <3>3. m.header.id = e.id /\ m.header.name = e.name /\ m.header.ok = e.ok
      BY <3>1
    <3>4. QED
      BY <2>3, <3>2, <3>3
  <2>5. ReadToolResult(m) = ToolResult(e.id, e.name, e.text, e.ok)
    BY <2>2, <2>4 DEF ReadToolResult
  <2>6. ReadMessage(Reader, m) = Resolve(Reader, e)
    BY <1>7, <2>2, <2>5, EntryIs DEF ReadMessage
  <2>7. Resolved(Reader, e) = e
    BY <2>3 DEF Resolved, Unowned
  <2>8. Resolve(Reader, e).entries = Append(<<>>, e)
    BY <1>2, <1>7, <2>7, ResolveFields
  <2>9. QED
    BY <1>1, <1>2, <2>6, <2>8 DEF m
<1>8. QED
  BY <1>3, <1>4, <1>5, <1>6, <1>7

NormalizesAppend(a, e) ==
  NormalizeLegacy(Append(a, ToLegacy(e))) = Append(NormalizeLegacy(a), e)

\* One entry more is written, and is read back behind the others.
LEMMA NormalizeAppend ==
  ASSUME NEW a \in Seq(Messages), NEW e \in EntrySet, Settled(e)
  PROVE  NormalizesAppend(a, e)
<1> DEFINE m == ToLegacy(e)
<1>1. m \in Messages /\ <<m>> \in Seq(Messages)
  BY ToLegacyType
<1>2. NormalizeLegacy(<<m>>) = <<e>>
  BY NormalizeOne
<1>3. AllSettled(<<e>>)
  BY DEF AllSettled
<1> HIDE DEF m
<1>4. NormalizesOn(a, <<m>>)
  BY <1>1, <1>2, <1>3, NormalizeConcat
<1>5. Append(a, m) = a \o <<m>>
  BY <1>1, AppendIsConcat
<1>6. NormalizeLegacy(a) \in Seq(EntrySet)
  BY NormalizeType
<1>7. Append(NormalizeLegacy(a), e) = NormalizeLegacy(a) \o <<e>>
  BY <1>6, AppendIsConcat
<1>8. QED
  BY <1>2, <1>4, <1>5, <1>7, Zenon DEF NormalizesOn, NormalizesAppend, m

(***************************************************************************)
(* Turns: a history is its turns put together, and a turn starts at a user *)
(* item or at the first one, nowhere else.                                 *)
(***************************************************************************)
TurnsOn(turns, e) ==
  IF turns = <<>> \/ e.kind = "user" THEN Append(turns, <<e>>)
  ELSE [turns EXCEPT ![Len(turns)] = Append(@, e)]

LEMMA TurnsOnType ==
  ASSUME NEW S, NEW turns \in Seq(Seq(S)), NEW e \in S
  PROVE  TurnsOn(turns, e) \in Seq(Seq(S))
<1>1. <<e>> \in Seq(S)
  OBVIOUS
<1>2. CASE turns = <<>> \/ e.kind = "user"
  <2>1. Append(turns, <<e>>) \in Seq(Seq(S))
    BY <1>1, AppendProperties
  <2>2. QED
    BY <1>2, <2>1 DEF TurnsOn
<1>3. CASE ~(turns = <<>> \/ e.kind = "user")
  <2> DEFINE n == Len(turns)
             t == Append(turns[n], e)
  <2>1. n \in 1..Len(turns) /\ turns[n] \in Seq(S)
    BY <1>3
  <2>2. t \in Seq(S)
    BY <2>1
  <2>3. TurnsOn(turns, e) = [turns EXCEPT ![n] = t]
    BY <1>3 DEF TurnsOn
  <2> HIDE DEF t, n
  <2>4. [turns EXCEPT ![n] = t] \in Seq(Seq(S))
    BY <2>1, <2>2, ExceptSeq
  <2>5. QED
    BY <2>3, <2>4
<1>4. QED
  BY <1>2, <1>3

TurnsRuns(f, items) ==
  f = [n \in 0..Len(items) |-> IF n = 0 THEN <<>> ELSE TurnsOn(f[n - 1], items[n])]

LEMMA TurnsIs ==
  ASSUME NEW S, NEW items \in Seq(S)
  PROVE  \E f : TurnsRuns(f, items) /\ Turns(items) = f[Len(items)]
<1> DEFINE N == Len(items)
           g == [n \in 1..N |-> [a \in Seq(Seq(S)) |-> TurnsOn(a, items[n])]]
<1>1. N \in Nat /\ <<>> \in Seq(Seq(S))
  OBVIOUS
<1>2. \A n \in 1..N : \A a \in Seq(Seq(S)) : TurnsOn(a, items[n]) \in Seq(Seq(S))
  BY TurnsOnType
<1>3. g \in Rounds(Seq(Seq(S)), N)
  BY <1>2 DEF Rounds
<1>4. PICK f : f \in [0..N -> Seq(Seq(S))] /\ f[0] = <<>> /\ \A n \in 1..N : f[n] = g[n][f[n - 1]]
  <2> HIDE DEF g, N
  <2>1. \E f : Iterates(f, Seq(Seq(S)), <<>>, N, g)
    BY <1>1, <1>3, RecursionUpTo
  <2>2. QED
    BY <2>1 DEF Iterates
<1>5. \A n \in 1..N : f[n] = TurnsOn(f[n - 1], items[n])
  <2> TAKE n \in 1..N
  <2>1. n - 1 \in 0..N
    BY <1>1
  <2>2. QED
    BY <1>4, <2>1
<1>6. f = [n \in 0..N |-> IF n = 0 THEN <<>> ELSE TurnsOn(f[n - 1], items[n])]
  <2>1. \A n \in 0..N : n = 0 \/ n \in 1..N
    BY <1>1
  <2> HIDE DEF N, g
  <2>2. \A n \in 0..N : f[n] = IF n = 0 THEN <<>> ELSE TurnsOn(f[n - 1], items[n])
    BY <1>4, <1>5, <2>1, Zenon
  <2>3. QED
    BY <1>4, <2>2
<1>7. TurnsRuns(f, items)
  BY <1>6 DEF TurnsRuns, N
<1> HIDE DEF g, N
<1>8. TurnsRuns(CHOOSE h : TurnsRuns(h, items), items)
  BY <1>7
<1>9. Turns(items) = (CHOOSE h : TurnsRuns(h, items))[Len(items)]
  BY DEF Turns, TurnsRuns, TurnsOn
<1>10. QED
  BY <1>8, <1>9

LEMMA TurnsStep ==
  ASSUME NEW S, NEW items \in Seq(S)
  PROVE  /\ Turns(items) \in Seq(Seq(S))
         /\ Turns(<<>>) = <<>>
         /\ \A e \in S :
              Turns(Append(items, e)) = TurnsOn(Turns(items), Append(items, e)[Len(items) + 1])
<1> DEFINE N == Len(items)
<1>1. N \in Nat /\ <<>> \in Seq(Seq(S)) /\ <<>> \in Seq(S)
  OBVIOUS
<1>2. PICK f : TurnsRuns(f, items) /\ Turns(items) = f[N]
  BY TurnsIs
<1>3. f[0] = <<>> /\ \A n \in 1..N : f[n] = TurnsOn(f[n - 1], items[n])
  <2>1. \A n \in 0..N : f[n] = IF n = 0 THEN <<>> ELSE TurnsOn(f[n - 1], items[n])
    BY <1>2, Zenon DEF TurnsRuns
  <2>2. 0 \in 0..N /\ \A n \in 1..N : n \in 0..N /\ n # 0
    BY <1>1
  <2>3. QED
    BY <2>1, <2>2, Zenon
<1>4. Turns(items) \in Seq(Seq(S))
  <2> DEFINE D == {n \in 0..N : f[n] \in Seq(Seq(S))}
  <2>1. 0 \in D
    <3>1. 0 \in 0..N /\ f[0] \in Seq(Seq(S))
      BY <1>1, <1>3
    <3>2. QED
      BY <3>1
  <2>2. ASSUME NEW n \in 1..N, n - 1 \in D
        PROVE  n \in D
    <3>1. TurnsOn(f[n - 1], items[n]) \in Seq(Seq(S))
      BY <2>2, TurnsOnType
    <3>2. QED
      BY <1>3, <3>1
  <2> HIDE DEF D, N
  <2>3. \A n \in 0..N : n \in D
    BY <1>1, <2>1, <2>2, InductionUpTo
  <2>4. QED
    BY <1>1, <1>2, <2>3 DEF D
<1>5. Turns(<<>>) = <<>>
  <2>1. PICK h : TurnsRuns(h, <<>>) /\ Turns(<<>>) = h[Len(<<>>)]
    BY <1>1, TurnsIs
  <2>2. QED
    BY <2>1 DEF TurnsRuns
<1>6. ASSUME NEW e \in S
      PROVE  Turns(Append(items, e)) = TurnsOn(Turns(items), Append(items, e)[Len(items) + 1])
  <2> DEFINE t == Append(items, e)
  <2>1. t \in Seq(S) /\ Len(t) = N + 1 /\ \A n \in 1..N : t[n] = items[n]
    OBVIOUS
  <2> HIDE DEF t
  <2>2. PICK h : TurnsRuns(h, t) /\ Turns(t) = h[N + 1]
    BY <2>1, TurnsIs
  <2>3. h[0] = <<>> /\ \A n \in 1..N + 1 : h[n] = TurnsOn(h[n - 1], t[n])
    <3>1. \A n \in 0..N + 1 : h[n] = IF n = 0 THEN <<>> ELSE TurnsOn(h[n - 1], t[n])
      BY <2>1, <2>2, Zenon DEF TurnsRuns
    <3>2. 0 \in 0..N + 1 /\ \A n \in 1..N + 1 : n \in 0..N + 1 /\ n # 0
      BY <1>1
    <3>3. QED
      BY <3>1, <3>2, Zenon
  <2> DEFINE D == {n \in 0..N : f[n] = h[n]}
  <2>4. 0 \in D
    BY <1>1, <1>3, <2>3
  <2>5. ASSUME NEW n \in 1..N, n - 1 \in D
        PROVE  n \in D
    <3>1. n \in 1..N + 1 /\ f[n - 1] = h[n - 1] /\ t[n] = items[n]
      BY <1>1, <2>1, <2>5
    <3>2. h[n] = f[n]
      BY <1>3, <2>3, <3>1
    <3>3. QED
      BY <3>2
  <2>6. f[N] = h[N]
    <3> HIDE DEF D, N
    <3>1. \A n \in 0..N : n \in D
      BY <1>1, <2>4, <2>5, InductionUpTo
    <3>2. QED
      BY <1>1, <3>1 DEF D
  <2>7. N + 1 \in 1..N + 1 /\ (N + 1) - 1 = N
    BY <1>1
  <2>8. h[N + 1] = TurnsOn(h[N], t[N + 1])
    BY <2>3, <2>7
  <2>9. QED
    BY <1>2, <2>2, <2>6, <2>8 DEF t
<1>7. QED
  BY <1>4, <1>5, <1>6

JoinsOn(items, turn, n, gone) == IF n \in gone THEN items ELSE items \o turn

LEMMA JoinsOnType ==
  ASSUME NEW S, NEW items \in Seq(S), NEW turn \in Seq(S), NEW n, NEW gone
  PROVE  JoinsOn(items, turn, n, gone) \in Seq(S)
BY DEF JoinsOn

WithoutTurnsRuns(f, gone, turns) ==
  f = [n \in 0..Len(turns) |-> IF n = 0 THEN <<>> ELSE JoinsOn(f[n - 1], turns[n], n, gone)]

LEMMA WithoutTurnsIs ==
  ASSUME NEW S, NEW gone, NEW turns \in Seq(Seq(S))
  PROVE  \E f : WithoutTurnsRuns(f, gone, turns) /\ WithoutTurns(turns, gone) = f[Len(turns)]
<1> DEFINE N == Len(turns)
           g == [n \in 1..N |-> [a \in Seq(S) |-> JoinsOn(a, turns[n], n, gone)]]
<1>1. N \in Nat /\ <<>> \in Seq(S)
  OBVIOUS
<1>2. \A n \in 1..N : \A a \in Seq(S) : JoinsOn(a, turns[n], n, gone) \in Seq(S)
  BY JoinsOnType
<1>3. g \in Rounds(Seq(S), N)
  BY <1>2 DEF Rounds
<1>4. PICK f : f \in [0..N -> Seq(S)] /\ f[0] = <<>> /\ \A n \in 1..N : f[n] = g[n][f[n - 1]]
  <2> HIDE DEF g, N
  <2>1. \E f : Iterates(f, Seq(S), <<>>, N, g)
    BY <1>1, <1>3, RecursionUpTo
  <2>2. QED
    BY <2>1 DEF Iterates
<1>5. \A n \in 1..N : f[n] = JoinsOn(f[n - 1], turns[n], n, gone)
  <2> TAKE n \in 1..N
  <2>1. n - 1 \in 0..N
    BY <1>1
  <2>2. QED
    BY <1>4, <2>1
<1>6. f = [n \in 0..N |-> IF n = 0 THEN <<>> ELSE JoinsOn(f[n - 1], turns[n], n, gone)]
  <2>1. \A n \in 0..N : n = 0 \/ n \in 1..N
    BY <1>1
  <2> HIDE DEF N, g
  <2>2. \A n \in 0..N : f[n] = IF n = 0 THEN <<>> ELSE JoinsOn(f[n - 1], turns[n], n, gone)
    BY <1>4, <1>5, <2>1, Zenon
  <2>3. QED
    BY <1>4, <2>2
<1>7. WithoutTurnsRuns(f, gone, turns)
  BY <1>6 DEF WithoutTurnsRuns, N
<1> HIDE DEF g, N
<1>8. WithoutTurnsRuns(CHOOSE h : WithoutTurnsRuns(h, gone, turns), gone, turns)
  BY <1>7
<1>9. WithoutTurns(turns, gone) = (CHOOSE h : WithoutTurnsRuns(h, gone, turns))[Len(turns)]
  BY DEF WithoutTurns, WithoutTurnsRuns, JoinsOn
<1>10. QED
  BY <1>8, <1>9

LEMMA WithoutTurnsStep ==
  ASSUME NEW S, NEW gone, NEW turns \in Seq(Seq(S))
  PROVE  /\ WithoutTurns(turns, gone) \in Seq(S)
         /\ WithoutTurns(<<>>, gone) = <<>>
         /\ \A e \in Seq(S) :
              WithoutTurns(Append(turns, e), gone) =
                JoinsOn(WithoutTurns(turns, gone), Append(turns, e)[Len(turns) + 1], Len(turns) + 1, gone)
<1> DEFINE N == Len(turns)
<1>1. N \in Nat /\ <<>> \in Seq(S) /\ <<>> \in Seq(Seq(S))
  OBVIOUS
<1>2. PICK f : WithoutTurnsRuns(f, gone, turns) /\ WithoutTurns(turns, gone) = f[N]
  BY WithoutTurnsIs
<1>3. f[0] = <<>> /\ \A n \in 1..N : f[n] = JoinsOn(f[n - 1], turns[n], n, gone)
  <2>1. \A n \in 0..N : f[n] = IF n = 0 THEN <<>> ELSE JoinsOn(f[n - 1], turns[n], n, gone)
    BY <1>2, Zenon DEF WithoutTurnsRuns
  <2>2. 0 \in 0..N /\ \A n \in 1..N : n \in 0..N /\ n # 0
    BY <1>1
  <2>3. QED
    BY <2>1, <2>2, Zenon
<1>4. WithoutTurns(turns, gone) \in Seq(S)
  <2> DEFINE D == {n \in 0..N : f[n] \in Seq(S)}
  <2>1. 0 \in D
    <3>1. 0 \in 0..N /\ f[0] \in Seq(S)
      BY <1>1, <1>3
    <3>2. QED
      BY <3>1
  <2>2. ASSUME NEW n \in 1..N, n - 1 \in D
        PROVE  n \in D
    <3>1. JoinsOn(f[n - 1], turns[n], n, gone) \in Seq(S)
      BY <2>2, JoinsOnType
    <3>2. QED
      BY <1>3, <3>1
  <2> HIDE DEF D, N
  <2>3. \A n \in 0..N : n \in D
    BY <1>1, <2>1, <2>2, InductionUpTo
  <2>4. QED
    BY <1>1, <1>2, <2>3 DEF D
<1>5. WithoutTurns(<<>>, gone) = <<>>
  <2>1. PICK h : WithoutTurnsRuns(h, gone, <<>>) /\ WithoutTurns(<<>>, gone) = h[Len(<<>>)]
    BY <1>1, WithoutTurnsIs
  <2>2. QED
    BY <2>1 DEF WithoutTurnsRuns
<1>6. ASSUME NEW e \in Seq(S)
      PROVE  WithoutTurns(Append(turns, e), gone) =
               JoinsOn(WithoutTurns(turns, gone), Append(turns, e)[Len(turns) + 1], Len(turns) + 1, gone)
  <2> DEFINE t == Append(turns, e)
  <2>1. t \in Seq(Seq(S)) /\ Len(t) = N + 1 /\ \A n \in 1..N : t[n] = turns[n]
    OBVIOUS
  <2> HIDE DEF t
  <2>2. PICK h : WithoutTurnsRuns(h, gone, t) /\ WithoutTurns(t, gone) = h[N + 1]
    BY <2>1, WithoutTurnsIs
  <2>3. h[0] = <<>> /\ \A n \in 1..N + 1 : h[n] = JoinsOn(h[n - 1], t[n], n, gone)
    <3>1. \A n \in 0..N + 1 : h[n] = IF n = 0 THEN <<>> ELSE JoinsOn(h[n - 1], t[n], n, gone)
      BY <2>1, <2>2, Zenon DEF WithoutTurnsRuns
    <3>2. 0 \in 0..N + 1 /\ \A n \in 1..N + 1 : n \in 0..N + 1 /\ n # 0
      BY <1>1
    <3>3. QED
      BY <3>1, <3>2, Zenon
  <2> DEFINE D == {n \in 0..N : f[n] = h[n]}
  <2>4. 0 \in D
    BY <1>1, <1>3, <2>3
  <2>5. ASSUME NEW n \in 1..N, n - 1 \in D
        PROVE  n \in D
    <3>1. n \in 1..N + 1 /\ f[n - 1] = h[n - 1] /\ t[n] = turns[n]
      BY <1>1, <2>1, <2>5
    <3>2. h[n] = f[n]
      BY <1>3, <2>3, <3>1
    <3>3. QED
      BY <3>2
  <2>6. f[N] = h[N]
    <3> HIDE DEF D, N
    <3>1. \A n \in 0..N : n \in D
      BY <1>1, <2>4, <2>5, InductionUpTo
    <3>2. QED
      BY <1>1, <3>1 DEF D
  <2>7. N + 1 \in 1..N + 1 /\ (N + 1) - 1 = N
    BY <1>1
  <2>8. h[N + 1] = JoinsOn(h[N], t[N + 1], N + 1, gone)
    BY <2>3, <2>7
  <2>9. QED
    BY <1>2, <2>2, <2>6, <2>8 DEF t
<1>7. QED
  BY <1>4, <1>5, <1>6

TurnsGoOn(items, e) == Turns(Append(items, e)) = TurnsOn(Turns(items), e)

LEMMA TurnsAppend ==
  ASSUME NEW S, NEW items \in Seq(S), NEW e \in S
  PROVE  TurnsGoOn(items, e) /\ Turns(items) \in Seq(Seq(S))
<1>1. Turns(Append(items, e)) = TurnsOn(Turns(items), Append(items, e)[Len(items) + 1])
  BY TurnsStep
<1>2. Append(items, e)[Len(items) + 1] = e
  OBVIOUS
<1>3. Turns(Append(items, e)) = TurnsOn(Turns(items), e)
  BY <1>1, <1>2, Zenon
<1>4. Turns(items) \in Seq(Seq(S))
  BY TurnsStep
<1>5. QED
  BY <1>3, <1>4, Zenon DEF TurnsGoOn

LEMMA NoTurns ==
  Turns(<<>>) = <<>> /\ \A gone : WithoutTurns(<<>>, gone) = <<>>
<1>1. <<>> \in Seq(Nat) /\ <<>> \in Seq(Seq(Nat))
  OBVIOUS
<1>2. QED
  BY <1>1, TurnsStep, WithoutTurnsStep

LEMMA ExtendLast ==
  ASSUME NEW S, NEW turns \in Seq(Seq(S)), NEW turn \in Seq(S), NEW e \in S, e.kind # "user"
  PROVE  TurnsOn(Append(turns, turn), e) = Append(turns, Append(turn, e))
<1> DEFINE ts == Append(turns, turn)
           n == Len(turns) + 1
           t == Append(turn, e)
           u == Append(turns, t)
           v == [ts EXCEPT ![n] = t]
<1>1. /\ ts \in Seq(Seq(S)) /\ ts # <<>> /\ Len(ts) = n /\ n \in 1..Len(ts) /\ ts[n] = turn
      /\ t \in Seq(S) /\ \A i \in 1..Len(turns) : ts[i] = turns[i]
  BY AppendProperties
<1> HIDE DEF ts
<1>2. TurnsOn(ts, e) = v
  <2>1. ~(ts = <<>> \/ e.kind = "user")
    BY <1>1
  <2> HIDE DEF n
  <2>2. QED
    BY <1>1, <2>1 DEF TurnsOn
<1> HIDE DEF t
<1>3. /\ v \in Seq(Seq(S)) /\ Len(v) = n
      /\ \A i \in 1..Len(ts) : v[i] = IF i = n THEN t ELSE ts[i]
  <2> HIDE DEF n
  <2>1. /\ v \in Seq(Seq(S)) /\ Len(v) = Len(ts)
        /\ \A i \in 1..Len(ts) : v[i] = IF i = n THEN t ELSE ts[i]
    <3>1. Seq(S) = Seq(S) /\ n \in 1..Len(ts) /\ ts \in Seq(Seq(S)) /\ t \in Seq(S)
      BY <1>1
    <3> HIDE DEF v
    <3>2. v = [ts EXCEPT ![n] = t]
      BY DEF v
    <3>3. [ts EXCEPT ![n] = t] \in Seq(Seq(S))
      BY <3>1, ExceptSeq
    <3>4. Len([ts EXCEPT ![n] = t]) = Len(ts)
      BY <3>1, ExceptSeq
    <3>5. \A i \in 1..Len(ts) : [ts EXCEPT ![n] = t][i] = IF i = n THEN t ELSE ts[i]
      BY <3>1
    <3>6. QED
      BY <3>2, <3>3, <3>4, <3>5
  <2>2. QED
    BY <1>1, <2>1, Zenon
<1>4. /\ u \in Seq(Seq(S)) /\ Len(u) = n /\ u[n] = t
      /\ \A i \in 1..Len(turns) : u[i] = turns[i]
  BY <1>1, AppendProperties
<1> HIDE DEF u, v
<1>5. \A i \in 1..Len(v) : v[i] = u[i]
  <2>1. ASSUME NEW i \in 1..n
        PROVE  v[i] = u[i]
    <3>1. Len(turns) \in Nat
      OBVIOUS
    <3>2. i = n \/ i \in 1..Len(turns)
      BY <3>1
    <3> HIDE DEF n
    <3>3. CASE i = n
      BY <1>1, <1>3, <1>4, <3>3, Zenon
    <3>4. CASE i \in 1..Len(turns) /\ i # n
      BY <1>1, <1>3, <1>4, <2>1, <3>4, Zenon
    <3>5. QED
      BY <3>2, <3>3, <3>4
  <2> HIDE DEF n
  <2>2. QED
    BY <1>3, <2>1
<1>6. u = v
  BY <1>3, <1>4, <1>5, SeqEqual
<1>7. QED
  BY <1>2, <1>6 DEF ts, u, t

JoinsNext(turns, turn, gone) ==
  WithoutTurns(Append(turns, turn), gone) =
    JoinsOn(WithoutTurns(turns, gone), turn, Len(turns) + 1, gone)

\* Of the turns that stay, the last one comes last.
LEMMA WithoutAppend ==
  ASSUME NEW S, NEW turns \in Seq(Seq(S)), NEW turn \in Seq(S), NEW gone
  PROVE  WithoutTurns(turns, gone) \in Seq(S) /\ JoinsNext(turns, turn, gone)
<1>1. WithoutTurns(Append(turns, turn), gone) =
        JoinsOn(WithoutTurns(turns, gone), Append(turns, turn)[Len(turns) + 1], Len(turns) + 1, gone)
  BY WithoutTurnsStep
<1>2. Append(turns, turn)[Len(turns) + 1] = turn
  BY AppendProperties
<1>3. WithoutTurns(turns, gone) \in Seq(S)
  BY WithoutTurnsStep
<1>4. QED
  BY <1>1, <1>2, <1>3, Zenon DEF JoinsNext

\* A turn: only its first item may be the user's, and is unless it is the first turn.
TurnLike(turn, first) ==
  /\ turn # <<>>
  /\ first \/ turn[1].kind = "user"
  /\ \A i \in 2..Len(turn) : turn[i].kind # "user"

Grouped(turns) == \A t \in DOMAIN turns : TurnLike(turns[t], t = 1)

GroupedOn(turns, turn) ==
  Grouped(Append(turns, turn)) <=> Grouped(turns) /\ TurnLike(turn, turns = <<>>)

LEMMA GroupedAppend ==
  ASSUME NEW S, NEW turns \in Seq(S), NEW turn \in S
  PROVE  GroupedOn(turns, turn)
<1> DEFINE ts == Append(turns, turn)
<1>1. /\ DOMAIN ts = 1..Len(turns) + 1 /\ DOMAIN turns = 1..Len(turns) /\ Len(turns) \in Nat
      /\ ts[Len(turns) + 1] = turn /\ \A i \in 1..Len(turns) : ts[i] = turns[i]
      /\ turns = <<>> <=> Len(turns) = 0
  OBVIOUS
<1>2. /\ \A i : i \in 1..Len(turns) + 1 <=> i \in 1..Len(turns) \/ i = Len(turns) + 1
      /\ Len(turns) + 1 = 1 <=> turns = <<>>
  BY <1>1
<1> HIDE DEF ts
<1>3. Grouped(ts) <=> Grouped(turns) /\ TurnLike(turn, Len(turns) + 1 = 1)
  BY <1>1, <1>2, Zenon DEF Grouped
<1>4. (Len(turns) + 1 = 1) = (turns = <<>>)
  BY <1>2
<1>5. QED
  BY <1>3, <1>4 DEF ts, GroupedOn

\* Turns are grouped as they should be, and put together they are the history.
LEMMA TurnsAre ==
  ASSUME NEW S, NEW items \in Seq(S)
  PROVE  /\ Grouped(Turns(items)) /\ WithoutTurns(Turns(items), {}) = items
         /\ Turns(items) = <<>> <=> items = <<>>
<1> DEFINE Good(s) == /\ Grouped(Turns(s)) /\ WithoutTurns(Turns(s), {}) = s
                      /\ Turns(s) = <<>> <=> s = <<>>
           D == {s \in Seq(S) : Good(s)}
<1>1. <<>> \in D
  BY NoTurns DEF Grouped
<1>2. ASSUME NEW s \in Seq(S), NEW e \in S, s \in D
      PROVE  Append(s, e) \in D
  <2> DEFINE ts == Turns(s)
             us == Turns(Append(s, e))
  <2>1. ts \in Seq(Seq(S)) /\ us = TurnsOn(ts, e)
    <3>1. ts \in Seq(Seq(S)) /\ TurnsGoOn(s, e)
      BY TurnsAppend
    <3>2. QED
      BY <3>1, Zenon DEF TurnsGoOn
  <2>2. Grouped(ts) /\ WithoutTurns(ts, {}) = s /\ (ts = <<>> <=> s = <<>>)
    BY <1>2
  <2>3. Append(s, e) = s \o <<e>> /\ Append(s, e) # <<>> /\ Append(s, e) \in Seq(S) /\ <<e>> \in Seq(S)
    BY AppendIsConcat, AppendProperties
  <2> HIDE DEF ts, us
  <2>4. CASE ts = <<>> \/ e.kind = "user"
    <3>1. us = Append(ts, <<e>>)
      BY <2>1, <2>4 DEF TurnsOn
    <3>2. WithoutTurns(us, {}) = JoinsOn(s, <<e>>, Len(ts) + 1, {})
      <4>1. JoinsNext(ts, <<e>>, {})
        BY <2>1, <2>3, WithoutAppend
      <4>2. QED
        BY <2>2, <3>1, <4>1, Zenon DEF JoinsNext
    <3>3. WithoutTurns(us, {}) = s \o <<e>>
      BY <3>2, Zenon DEF JoinsOn
    <3>4. TurnLike(<<e>>, ts = <<>>)
      BY <2>4 DEF TurnLike
    <3>5. GroupedOn(ts, <<e>>) /\ us # <<>>
      <4>1. GroupedOn(ts, <<e>>)
        BY <2>1, <2>3, GroupedAppend
      <4>2. Append(ts, <<e>>) # <<>>
        BY <2>1, <2>3, AppendProperties
      <4>3. QED
        BY <3>1, <4>1, <4>2
    <3>6. Grouped(us)
      BY <2>2, <3>1, <3>4, <3>5, Zenon DEF GroupedOn
    <3>7. Good(Append(s, e))
      BY <2>3, <3>3, <3>5, <3>6, Zenon DEF us
    <3>8. QED
      BY <2>3, <3>7
  <2>5. CASE ~(ts = <<>> \/ e.kind = "user")
    <3>1. PICK front \in Seq(Seq(S)), last \in Seq(S) : ts = Append(front, last)
      BY <2>1, <2>5, SequenceEmptyOrAppend
    <3> DEFINE more == Append(last, e)
    <3>2. us = Append(front, more) /\ more \in Seq(S)
      BY <2>1, <2>5, <3>1, ExtendLast, AppendProperties
    <3>3. GroupedOn(front, last) /\ GroupedOn(front, more) /\ us # <<>>
      <4>1. GroupedOn(front, last)
        BY <3>1, GroupedAppend
      <4>2. GroupedOn(front, more)
        BY <3>2, GroupedAppend
      <4> HIDE DEF more
      <4>3. Append(front, more) # <<>>
        BY <3>2, AppendProperties
      <4>4. QED
        BY <3>2, <4>1, <4>2, <4>3
    <3>4. Grouped(front) /\ TurnLike(last, front = <<>>)
      BY <2>2, <3>1, <3>3, Zenon DEF GroupedOn
    <3>5. TurnLike(more, front = <<>>)
      <4>1. /\ Len(last) \in Nat /\ Len(more) = Len(last) + 1 /\ more # <<>>
            /\ \A i \in 1..Len(last) : more[i] = last[i]
            /\ more[Len(last) + 1] = e
        BY AppendProperties
      <4>2. last # <<>> /\ Len(last) >= 1
        BY <3>4 DEF TurnLike
      <4> HIDE DEF more
      <4>3. \A i \in 2..Len(more) : i \in 2..Len(last) \/ i = Len(last) + 1
        BY <4>1
      <4>4. \A i \in 2..Len(more) : more[i].kind # "user"
        BY <2>5, <3>4, <4>1, <4>3 DEF TurnLike
      <4>5. more[1] = last[1]
        BY <4>1, <4>2
      <4>6. QED
        BY <3>4, <4>1, <4>4, <4>5 DEF TurnLike
    <3>6. Grouped(us)
      BY <3>2, <3>3, <3>4, <3>5, Zenon DEF GroupedOn
    <3> DEFINE w == WithoutTurns(front, {})
    <3>7. /\ w \in Seq(S) /\ s = JoinsOn(w, last, Len(front) + 1, {})
          /\ WithoutTurns(us, {}) = JoinsOn(w, more, Len(front) + 1, {})
      <4>1. w \in Seq(S) /\ JoinsNext(front, last, {}) /\ JoinsNext(front, more, {})
        BY <3>1, <3>2, WithoutAppend
      <4>2. QED
        BY <2>2, <3>1, <3>2, <4>1, Zenon DEF JoinsNext
    <3> HIDE DEF w
    <3>8. s = w \o last /\ WithoutTurns(us, {}) = w \o more
      BY <3>7, Zenon DEF JoinsOn
    <3>9. Moves(w, last, e)
      BY <3>7, AppendBehind
    <3>10. WithoutTurns(us, {}) = Append(s, e)
      BY <3>8, <3>9, Zenon DEF Moves
    <3>11. Good(Append(s, e))
      BY <2>3, <3>3, <3>6, <3>10, Zenon DEF us
    <3>12. QED
      BY <2>3, <3>11
  <2>6. QED
    BY <2>4, <2>5
<1> HIDE DEF D
<1>3. items \in D
  BY <1>1, <1>2, SeqInduction
<1>4. QED
  BY <1>3 DEF D

JoinsTurn(items, turn) == Turns(items \o turn) = Append(Turns(items), turn)

\* A turn put behind a history becomes its last turn.
LEMMA TurnsJoin ==
  ASSUME NEW S, NEW items \in Seq(S), NEW turn \in Seq(S), TurnLike(turn, items = <<>>)
  PROVE  JoinsTurn(items, turn)
<1> DEFINE D == {t \in Seq(S) : TurnLike(t, items = <<>>) => JoinsTurn(items, t)}
<1>1. <<>> \in D
  BY DEF TurnLike
<1>2. ASSUME NEW t \in Seq(S), NEW e \in S, t \in D, TurnLike(Append(t, e), items = <<>>)
      PROVE  JoinsTurn(items, Append(t, e))
  <2> DEFINE x == items \o t
  <2>1. x \in Seq(S) /\ Turns(items) \in Seq(Seq(S))
    BY TurnsAppend
  <2>2. Moves(items, t, e)
    BY AppendBehind
  <2>3. TurnsGoOn(x, e)
    BY <2>1, TurnsAppend
  <2> HIDE DEF x
  <2>4. Turns(items \o Append(t, e)) = TurnsOn(Turns(x), e)
    BY <2>2, <2>3, Zenon DEF Moves, TurnsGoOn, x
  <2>5. /\ Len(t) \in Nat /\ Len(Append(t, e)) = Len(t) + 1 /\ Append(t, e)[Len(t) + 1] = e
        /\ \A i \in 1..Len(t) : Append(t, e)[i] = t[i]
        /\ t = <<>> <=> Len(t) = 0
    OBVIOUS
  <2>6. CASE t = <<>>
    <3>1. x = items /\ Append(t, e) = <<e>>
      BY <2>6, ConcatEmptySeq DEF x
    <3>2. items = <<>> \/ e.kind = "user"
      BY <1>2, <3>1 DEF TurnLike
    <3>3. Turns(items) = <<>> \/ e.kind = "user"
      BY <3>2, NoTurns
    <3>4. TurnsOn(Turns(x), e) = Append(Turns(items), <<e>>)
      BY <3>1, <3>3 DEF TurnsOn
    <3>5. QED
      BY <2>4, <3>1, <3>4, Zenon DEF JoinsTurn
  <2>7. CASE t # <<>>
    <3> DEFINE u == Append(t, e)
    <3>0. u = Append(t, e)
      OBVIOUS
    <3> HIDE DEF u
    <3>1. e.kind # "user" /\ TurnLike(t, items = <<>>)
      <4>1. Len(t) >= 1 /\ Len(t) + 1 \in 2..Len(u)
        BY <2>5, <2>7, <3>0
      <4>2. u[1] = t[1] /\ u[Len(t) + 1] = e /\ \A i \in 2..Len(t) : i \in 2..Len(u) /\ u[i] = t[i]
        BY <2>5, <3>0, <4>1
      <4>3. TurnLike(u, items = <<>>)
        BY <1>2, <3>0
      <4>4. QED
        BY <2>7, <4>1, <4>2, <4>3 DEF TurnLike
    <3>2. Turns(x) = Append(Turns(items), t)
      BY <1>2, <3>1, Zenon DEF JoinsTurn, x
    <3>3. TurnsOn(Append(Turns(items), t), e) = Append(Turns(items), Append(t, e))
      BY <2>1, <3>1, ExtendLast
    <3>4. QED
      BY <2>4, <3>2, <3>3, Zenon DEF JoinsTurn
  <2>8. QED
    BY <2>6, <2>7
<1>3. ASSUME NEW t \in Seq(S), NEW e \in S, t \in D
      PROVE  Append(t, e) \in D
  <2>1. Append(t, e) \in Seq(S)
    OBVIOUS
  <2>2. QED
    BY <1>2, <1>3, <2>1
<1> HIDE DEF D
<1>4. turn \in D
  BY <1>1, <1>3, SeqInduction
<1>5. QED
  BY <1>4 DEF D

(***************************************************************************)
(* The two forms of a history tell the same: they have as many turns, and  *)
(* the text of each turn alone is read as its entries.  This survives the  *)
(* loss of whole turns, where "the text is read as the entries" would not: *)
(* an id-less result of a turn could find its call in the turn before.     *)
(***************************************************************************)
TurnTold(m, e) == NormalizeLegacy(m) = e /\ AllSettled(e) /\ Paired(e)

Matches(ms, es) == Len(ms) = Len(es) /\ \A t \in 1..Len(ms) : TurnTold(ms[t], es[t])

Tells(legacy, entries) == Matches(Turns(legacy), Turns(entries))

MatchesOn(ms, m, es, e) ==
  Matches(Append(ms, m), Append(es, e)) <=> Matches(ms, es) /\ TurnTold(m, e)

LEMMA MatchesAppend ==
  ASSUME NEW S, NEW T, NEW ms \in Seq(S), NEW m \in S, NEW es \in Seq(T), NEW e \in T
  PROVE  MatchesOn(ms, m, es, e)
<1> DEFINE x == Append(ms, m)
           y == Append(es, e)
           n == Len(ms)
<1>1. /\ Len(x) = n + 1 /\ x[n + 1] = m /\ \A t \in 1..n : x[t] = ms[t]
      /\ Len(y) = Len(es) + 1 /\ y[Len(es) + 1] = e /\ \A t \in 1..Len(es) : y[t] = es[t]
      /\ n \in Nat /\ Len(es) \in Nat
  BY AppendProperties
<1>2. Len(x) = Len(y) <=> n = Len(es)
  BY <1>1
<1>3. \A t : t \in 1..n + 1 <=> t \in 1..n \/ t = n + 1
  BY <1>1
<1> HIDE DEF x, y, n
<1>4. Matches(x, y) <=> Matches(ms, es) /\ TurnTold(m, e)
  <2>1. CASE n = Len(es)
    <3>1. Matches(x, y) <=> \A t \in 1..n + 1 : TurnTold(x[t], y[t])
      BY <1>1, <1>2, <2>1, Zenon DEF Matches
    <3>2. Matches(ms, es) <=> \A t \in 1..n : TurnTold(ms[t], es[t])
      BY <2>1, Zenon DEF Matches, n
    <3>3. TurnTold(x[n + 1], y[n + 1]) <=> TurnTold(m, e)
      BY <1>1, <2>1, Zenon
    <3>4. \A t \in 1..n : TurnTold(x[t], y[t]) <=> TurnTold(ms[t], es[t])
      BY <1>1, <2>1, Zenon
    <3>5. QED
      BY <1>3, <3>1, <3>2, <3>3, <3>4, Zenon
  <2>2. CASE n # Len(es)
    BY <1>2, <2>2 DEF Matches, n
  <2>3. QED
    BY <2>1, <2>2
<1>5. QED
  BY <1>4 DEF x, y, MatchesOn

MatchesGoOn(D, ms, m, es, e) == <<Append(ms, m), Append(es, e)>> \in D

\* Induction over the turns of two histories that tell the same.
LEMMA MatchInduction ==
  ASSUME NEW S, NEW T, NEW D, <<<<>>, <<>>>> \in D,
         \A ms \in Seq(S), es \in Seq(T), m \in S, e \in T :
           Matches(ms, es) /\ TurnTold(m, e) /\ <<ms, es>> \in D => MatchesGoOn(D, ms, m, es, e),
         NEW ms \in Seq(S), NEW es \in Seq(T), Matches(ms, es)
  PROVE  <<ms, es>> \in D
<1> DEFINE P == {a \in Seq(S) : \A b \in Seq(T) : Matches(a, b) => <<a, b>> \in D}
<1>1. <<>> \in P
  <2>1. \A b \in Seq(T) : Matches(<<>>, b) => b = <<>>
    BY DEF Matches
  <2>2. \A b \in Seq(T) : Matches(<<>>, b) => <<<<>>, b>> \in D
    BY <2>1, Zenon
  <2>3. <<>> \in Seq(S)
    OBVIOUS
  <2>4. QED
    BY <2>2, <2>3, Zenon
<1>2. ASSUME NEW a \in Seq(S), NEW m \in S, a \in P
      PROVE  Append(a, m) \in P
  <2>1. Append(a, m) \in Seq(S) /\ Len(Append(a, m)) = Len(a) + 1 /\ Len(a) \in Nat
    BY AppendProperties
  <2> DEFINE c == Append(a, m)
  <2>2. ASSUME NEW b \in Seq(T), Matches(c, b)
        PROVE  <<c, b>> \in D
    <3>1. Len(b) = Len(a) + 1
      BY <2>1, <2>2 DEF Matches
    <3>2. b # <<>>
      BY <2>1, <3>1
    <3>3. PICK f \in Seq(T), e \in T : b = Append(f, e)
      BY <3>2, SequenceEmptyOrAppend
    <3>4. MatchesOn(a, m, f, e)
      BY MatchesAppend
    <3>5. Matches(a, f) /\ TurnTold(m, e)
      BY <2>2, <3>3, <3>4, Zenon DEF MatchesOn
    <3>6. <<a, f>> \in D
      BY <1>2, <3>5
    <3>7. MatchesGoOn(D, a, m, f, e)
      BY <3>5, <3>6
    <3>8. QED
      BY <3>3, <3>7, Zenon DEF MatchesGoOn
  <2> HIDE DEF c
  <2>3. \A b \in Seq(T) : Matches(c, b) => <<c, b>> \in D
    BY <2>2
  <2>4. QED
    BY <2>1, <2>3, Zenon DEF c
<1> HIDE DEF P
<1>3. ms \in P
  BY <1>1, <1>2, SeqInduction
<1>4. QED
  BY <1>3 DEF P

\* What is left of two matching histories after the same turns are gone
LEMMA MatchesNormalize ==
  ASSUME NEW ms \in Seq(Seq(Messages)), NEW es \in Seq(Seq(EntrySet)), Matches(ms, es), NEW gone
  PROVE  /\ NormalizeLegacy(WithoutTurns(ms, gone)) = WithoutTurns(es, gone)
         /\ AllSettled(WithoutTurns(es, gone))
<1> DEFINE S == Seq(Messages)
           T == Seq(EntrySet)
           Good(a, b) == /\ NormalizeLegacy(WithoutTurns(a, gone)) = WithoutTurns(b, gone)
                         /\ AllSettled(WithoutTurns(b, gone))
           D == {q \in Seq(S) \X Seq(T) : Good(q[1], q[2])}
<1>1. <<<<>>, <<>>>> \in D
  <2>1. Good(<<>>, <<>>)
    BY NoTurns, NormalizeType, NoneIs, Zenon
  <2> HIDE DEF Good, S, T
  <2>2. <<>> \in Seq(S) /\ <<>> \in Seq(T)
    OBVIOUS
  <2> DEFINE none == <<>>
  <2> HIDE DEF none
  <2>3. <<none, none>> \in D
    BY <2>1, <2>2 DEF none
  <2>4. QED
    BY <2>3 DEF none
<1>2. ASSUME NEW a \in Seq(S), NEW b \in Seq(T), NEW m \in S, NEW e \in T,
             Matches(a, b), TurnTold(m, e), <<a, b>> \in D
      PROVE  MatchesGoOn(D, a, m, b, e)
  <2> DEFINE x == WithoutTurns(a, gone)
             y == WithoutTurns(b, gone)
             n == Len(a) + 1
             u == Append(a, m)
             v == Append(b, e)
  <2>1. /\ x \in S /\ y \in T
        /\ JoinsNext(a, m, gone) /\ JoinsNext(b, e, gone)
    BY WithoutAppend
  <2>2. Len(a) = Len(b)
    BY <1>2 DEF Matches
  <2>3. WithoutTurns(u, gone) = JoinsOn(x, m, n, gone) /\ WithoutTurns(v, gone) = JoinsOn(y, e, n, gone)
    BY <2>1, <2>2, Zenon DEF JoinsNext
  <2>4. NormalizeLegacy(x) = y /\ AllSettled(y)
    BY <1>2
  <2>5. u \in Seq(S) /\ v \in Seq(T)
    BY AppendProperties
  <2> HIDE DEF u, v, x, y, n
  <2>6. Good(u, v)
    <3>1. CASE n \in gone
      BY <2>3, <2>4, <3>1, Zenon DEF JoinsOn
    <3>2. CASE n \notin gone
      <4>1. WithoutTurns(u, gone) = x \o m /\ WithoutTurns(v, gone) = y \o e
        BY <2>3, <3>2, Zenon DEF JoinsOn
      <4>2. NormalizeLegacy(m) = e /\ AllSettled(e)
        BY <1>2 DEF TurnTold
      <4>3. NormalizesOn(x, m)
        BY <2>1, <4>2, NormalizeConcat
      <4>4. JoinedAll(y, e)
        BY <2>1, JoinAll
      <4>5. AllSettled(y \o e)
        BY <2>4, <4>2, <4>4, Zenon DEF JoinedAll
      <4>6. NormalizeLegacy(x \o m) = y \o e
        BY <2>4, <4>2, <4>3, Zenon DEF NormalizesOn
      <4>7. QED
        BY <4>1, <4>5, <4>6, Zenon
    <3>3. QED
      BY <3>1, <3>2
  <2> HIDE DEF Good, S, T
  <2>7. <<u, v>> \in D
    BY <2>5, <2>6
  <2> HIDE DEF D
  <2>8. QED
    BY <2>7, Zenon DEF MatchesGoOn, u, v
<1>3. ms \in Seq(S) /\ es \in Seq(T)
  OBVIOUS
<1> HIDE DEF D, S, T
<1>4. <<ms, es>> \in D
  BY <1>1, <1>2, <1>3, MatchInduction
<1>5. Good(ms, es)
  BY <1>4 DEF D
<1>6. QED
  BY <1>5

\* If the turns tell the same one by one, the whole text is read as the entries.
LEMMA TellsNormalize ==
  ASSUME NEW legacy \in Seq(Messages), NEW entries \in Seq(EntrySet), Tells(legacy, entries)
  PROVE  NormalizeLegacy(legacy) = entries /\ AllSettled(entries)
<1>1. /\ Turns(legacy) \in Seq(Seq(Messages)) /\ WithoutTurns(Turns(legacy), {}) = legacy
      /\ Turns(entries) \in Seq(Seq(EntrySet)) /\ WithoutTurns(Turns(entries), {}) = entries
  BY TurnsAppend, TurnsAre, TurnsStep
<1>2. Matches(Turns(legacy), Turns(entries))
  BY DEF Tells
<1> DEFINE a == Turns(legacy)
           b == Turns(entries)
<1> HIDE DEF a, b
<1>3. NormalizeLegacy(WithoutTurns(a, {})) = WithoutTurns(b, {}) /\ AllSettled(WithoutTurns(b, {}))
  <2>1. a \in Seq(Seq(Messages)) /\ b \in Seq(Seq(EntrySet)) /\ Matches(a, b)
    BY <1>1, <1>2 DEF a, b
  <2>2. QED
    BY <2>1, MatchesNormalize
<1>4. QED
  BY <1>1, <1>3 DEF a, b

\* A turn follows what is left of the turns before it.
LEMMA TurnLikeAfter ==
  ASSUME NEW S, NEW turns \in Seq(Seq(S)), NEW turn, TurnLike(turn, turns = <<>>), NEW gone
  PROVE  TurnLike(turn, WithoutTurns(turns, gone) = <<>>)
<1>1. CASE turns = <<>>
  BY <1>1, NoTurns
<1>2. CASE turns # <<>>
  BY <1>2 DEF TurnLike
<1>3. QED
  BY <1>1, <1>2

\* Turns taken out of both forms leave two that tell the same (compact_messages).
LEMMA TellsCompact ==
  ASSUME NEW ms \in Seq(Seq(Messages)), NEW es \in Seq(Seq(EntrySet)), Matches(ms, es),
         Grouped(ms), Grouped(es), NEW gone
  PROVE  Tells(WithoutTurns(ms, gone), WithoutTurns(es, gone))
<1> DEFINE S == Seq(Messages)
           T == Seq(EntrySet)
           Good(a, b) == Grouped(a) /\ Grouped(b) =>
                           Tells(WithoutTurns(a, gone), WithoutTurns(b, gone))
           D == {q \in Seq(S) \X Seq(T) : Good(q[1], q[2])}
<1>1. <<<<>>, <<>>>> \in D
  <2>1. Good(<<>>, <<>>)
    <3>1. Matches(<<>>, <<>>)
      BY DEF Matches
    <3>2. QED
      BY <3>1, NoTurns, Zenon DEF Tells
  <2> HIDE DEF Good, S, T
  <2>2. <<>> \in Seq(S) /\ <<>> \in Seq(T)
    OBVIOUS
  <2> DEFINE none == <<>>
  <2> HIDE DEF none
  <2>3. <<none, none>> \in D
    BY <2>1, <2>2 DEF none
  <2>4. QED
    BY <2>3 DEF none
<1>2. ASSUME NEW a \in Seq(S), NEW b \in Seq(T), NEW m \in S, NEW e \in T,
             Matches(a, b), TurnTold(m, e), <<a, b>> \in D
      PROVE  MatchesGoOn(D, a, m, b, e)
  <2> DEFINE x == WithoutTurns(a, gone)
             y == WithoutTurns(b, gone)
             n == Len(a) + 1
             u == Append(a, m)
             v == Append(b, e)
  <2>1. /\ x \in S /\ y \in T
        /\ JoinsNext(a, m, gone) /\ JoinsNext(b, e, gone)
    BY WithoutAppend
  <2>2. Len(a) = Len(b)
    BY <1>2 DEF Matches
  <2>3. WithoutTurns(u, gone) = JoinsOn(x, m, n, gone) /\ WithoutTurns(v, gone) = JoinsOn(y, e, n, gone)
    BY <2>1, <2>2, Zenon DEF JoinsNext
  <2>4. Good(a, b)
    BY <1>2
  <2>5. u \in Seq(S) /\ v \in Seq(T)
    BY AppendProperties
  <2>6. GroupedOn(a, m) /\ GroupedOn(b, e)
    BY GroupedAppend
  <2>7. ASSUME Grouped(u), Grouped(v)
        PROVE  Tells(WithoutTurns(u, gone), WithoutTurns(v, gone))
    <3>1. /\ Grouped(a) /\ TurnLike(m, a = <<>>)
          /\ Grouped(b) /\ TurnLike(e, b = <<>>)
      BY <2>6, <2>7, Zenon DEF GroupedOn
    <3>2. TurnLike(m, x = <<>>) /\ TurnLike(e, y = <<>>)
      BY <3>1, TurnLikeAfter
    <3>3. Tells(x, y)
      BY <2>4, <3>1
    <3> HIDE DEF u, v, x, y, n
    <3>4. CASE n \in gone
      BY <2>3, <3>3, <3>4, Zenon DEF JoinsOn
    <3>5. CASE n \notin gone
      <4>1. WithoutTurns(u, gone) = x \o m /\ WithoutTurns(v, gone) = y \o e
        BY <2>3, <3>5, Zenon DEF JoinsOn
      <4>2. JoinsTurn(x, m)
        BY <2>1, <3>2, TurnsJoin
      <4>3. JoinsTurn(y, e)
        BY <2>1, <3>2, TurnsJoin
      <4>4. Turns(x) \in Seq(S) /\ Turns(y) \in Seq(T)
        BY <2>1, TurnsAppend, TurnsStep
      <4>5. MatchesOn(Turns(x), m, Turns(y), e)
        BY <4>4, MatchesAppend
      <4>6. Matches(Append(Turns(x), m), Append(Turns(y), e))
        BY <1>2, <3>3, <4>5, Zenon DEF MatchesOn, Tells
      <4>7. QED
        BY <4>1, <4>2, <4>3, <4>6, Zenon DEF JoinsTurn, Tells
    <3>6. QED
      BY <3>4, <3>5
  <2> HIDE DEF u, v, S, T, x, y, n
  <2>8. Good(u, v)
    BY <2>7
  <2> HIDE DEF Good
  <2>9. <<u, v>> \in D
    BY <2>5, <2>8
  <2> HIDE DEF D
  <2>10. QED
    BY <2>9, Zenon DEF MatchesGoOn, u, v
<1>3. ms \in Seq(S) /\ es \in Seq(T)
  OBVIOUS
<1> HIDE DEF D, S, T
<1>4. <<ms, es>> \in D
  BY <1>1, <1>2, <1>3, MatchInduction
<1>5. Good(ms, es)
  BY <1>4 DEF D
<1>6. QED
  BY <1>5

(***************************************************************************)
(* A history that says one more entry, in both forms.                      *)
(***************************************************************************)
\* A result that names its call follows it in the turn.
Follows(turn, e) ==
  e.kind = "result" /\ e.id # NoId => Called(turn, Len(turn), e.id, e.name)

PairedOn(turn, e) == Paired(Append(turn, e)) <=> Paired(turn) /\ Follows(turn, e)

CalledStill(turn, e, n, id, name) ==
  Called(Append(turn, e), n, id, name) <=> Called(turn, n, id, name)

LEMMA CalledAppend ==
  ASSUME NEW S, NEW turn \in Seq(S), NEW e \in S, NEW n \in 0..Len(turn), NEW id, NEW name
  PROVE  CalledStill(turn, e, n, id, name)
<1> DEFINE u == Append(turn, e)
<1>1. Len(turn) \in Nat /\ \A i \in 1..Len(turn) : u[i] = turn[i]
  BY AppendProperties
<1>2. \A i \in 1..n : u[i] = turn[i] /\ \A k \in i + 1..n : u[k] = turn[k]
  BY <1>1
<1> HIDE DEF u
<1>3. Called(u, n, id, name) <=> Called(turn, n, id, name)
  BY <1>2, Zenon DEF Called
<1>4. QED
  BY <1>3 DEF CalledStill, u

FitsAt(entries, n, e) ==
  e.kind = "result" /\ e.id # NoId => Called(entries, n, e.id, e.name)

FitsIn(entries, j) == FitsAt(entries, j - 1, entries[j])

LEMMA PairedAppend ==
  ASSUME NEW S, NEW turn \in Seq(S), NEW e \in S
  PROVE  PairedOn(turn, e)
<1> DEFINE u == Append(turn, e)
           n == Len(turn)
<1>1. /\ n \in Nat /\ DOMAIN u = 1..n + 1 /\ DOMAIN turn = 1..n
      /\ u[n + 1] = e /\ \A i \in 1..n : u[i] = turn[i]
  BY AppendProperties
<1>2. /\ \A i : i \in 1..n + 1 <=> i \in 1..n \/ i = n + 1
      /\ n + 1 - 1 = n /\ n \in 0..n /\ \A i \in 1..n : i - 1 \in 0..n
  BY <1>1
<1>3. \A m \in 0..n : \A id, name : CalledStill(turn, e, m, id, name)
  BY CalledAppend
<1> HIDE DEF u
<1>4. \A m \in 0..n : \A d : FitsAt(u, m, d) <=> FitsAt(turn, m, d)
  BY <1>3, Zenon DEF CalledStill, FitsAt, u
<1>5. Follows(turn, e) <=> FitsAt(turn, n, e)
  BY DEF Follows, FitsAt
<1> HIDE DEF n
<1>6. ASSUME NEW j \in 1..n
      PROVE  FitsIn(u, j) <=> FitsIn(turn, j)
  <2>1. u[j] = turn[j] /\ j - 1 \in 0..n
    BY <1>1, <1>2
  <2>2. FitsAt(u, j - 1, u[j]) <=> FitsAt(turn, j - 1, turn[j])
    BY <1>4, <2>1, Zenon
  <2>3. QED
    BY <2>2 DEF FitsIn
<1>7. ASSUME NEW k, k = n + 1
      PROVE  FitsIn(u, k) <=> Follows(turn, e)
  <2>1. k - 1 = n /\ u[k] = e
    BY <1>1, <1>2, <1>7
  <2>2. FitsAt(u, k - 1, u[k]) = FitsAt(u, n, e)
    BY <2>1, Zenon
  <2>3. FitsIn(u, k) <=> FitsAt(u, n, e)
    BY <2>2 DEF FitsIn
  <2>4. QED
    BY <1>2, <1>4, <1>5, <2>3, Zenon
<1>8. /\ Paired(u) <=> \A j \in 1..n + 1 : FitsIn(u, j)
      /\ Paired(turn) <=> \A j \in 1..n : FitsIn(turn, j)
  BY <1>1, Zenon DEF Paired, FitsAt, FitsIn
<1>9. Paired(u) <=> Paired(turn) /\ Follows(turn, e)
  <2>1. n + 1 \in 1..n + 1 /\ \A j \in 1..n : j \in 1..n + 1
    BY <1>2
  <2>2. CASE Paired(u)
    BY <1>6, <1>7, <1>8, <2>1, <2>2, Zenon
  <2>3. ASSUME Paired(turn), Follows(turn, e)
        PROVE  Paired(u)
    <3>1. ASSUME NEW j \in 1..n + 1
          PROVE  FitsIn(u, j)
      <4>1. CASE j \in 1..n
        BY <1>6, <1>8, <2>3, <4>1, Zenon
      <4>2. CASE j = n + 1
        BY <1>7, <2>3, <4>2
      <4>3. QED
        BY <1>2, <4>1, <4>2, Zenon
    <3>2. QED
      BY <1>8, <3>1, Zenon
  <2>4. QED
    BY <2>2, <2>3, Zenon
<1>10. QED
  BY <1>9 DEF PairedOn, u

LEMMA OneEntry ==
  ASSUME NEW e \in EntrySet
  PROVE  /\ <<e>> \in Seq(EntrySet) /\ (AllSettled(<<e>>) <=> Settled(e))
         /\ Paired(<<e>>) <=> Follows(<<>>, e)
<1>1. <<>> \in Seq(EntrySet) /\ Append(<<>>, e) = <<e>> /\ <<e>> \in Seq(EntrySet)
  OBVIOUS
<1>2. PairedOn(<<>>, e) /\ AppendedAll(<<>>, e)
  BY <1>1, PairedAppend, AppendAll
<1>3. Paired(<<>>)
  BY DEF Paired
<1>4. AllSettled(<<>>)
  BY NoneIs
<1>5. QED
  BY <1>1, <1>2, <1>3, <1>4, Zenon DEF PairedOn, AppendedAll

LastTurn(entries) ==
  IF entries = <<>> THEN <<>> ELSE Turns(entries)[Len(Turns(entries))]

\* The entry "e" can be said after "entries".
Sayable(entries, e) ==
  /\ e \in EntrySet /\ Settled(e)
  /\ e.kind # "user" => Follows(LastTurn(entries), e)

TellsOn(legacy, entries, e) == Tells(Append(legacy, ToLegacy(e)), Append(entries, e))

StaysIn(S, items, e) ==
  \E front \in Seq(Seq(S)), last \in Seq(S) :
    /\ Turns(items) = Append(front, last) /\ LastTurn(items) = last
    /\ Turns(Append(items, e)) = Append(front, Append(last, e))

LEMMA NewTurn ==
  ASSUME NEW S, NEW items \in Seq(S), NEW e \in S
  PROVE  /\ (items = <<>> \/ e.kind = "user") => JoinsTurn(items, <<e>>)
         /\ ~(items = <<>> \/ e.kind = "user") => StaysIn(S, items, e)
<1>1. TurnsGoOn(items, e) /\ Turns(items) \in Seq(Seq(S))
  BY TurnsAppend
<1>2. Turns(items) = <<>> <=> items = <<>>
  BY TurnsAre
<1>3. CASE items = <<>> \/ e.kind = "user"
  <2>1. <<e>> \in Seq(S) /\ TurnLike(<<e>>, items = <<>>)
    BY <1>3 DEF TurnLike
  <2>2. JoinsTurn(items, <<e>>)
    BY <2>1, TurnsJoin
  <2>3. QED
    BY <1>3, <2>2
<1>4. CASE ~(items = <<>> \/ e.kind = "user")
  <2> DEFINE ts == Turns(items)
  <2>1. PICK front \in Seq(Seq(S)), last \in Seq(S) : ts = Append(front, last)
    BY <1>1, <1>2, <1>4, SequenceEmptyOrAppend
  <2>2. LastTurn(items) = last
    <3>1. ts[Len(ts)] = last
      BY <2>1, AppendProperties
    <3>2. QED
      BY <1>4, <3>1, Zenon DEF LastTurn
  <2>3. TurnsOn(Append(front, last), e) = Append(front, Append(last, e))
    BY <1>4, ExtendLast
  <2>4. Turns(Append(items, e)) = Append(front, Append(last, e))
    BY <1>1, <2>1, <2>3, Zenon DEF TurnsGoOn
  <2>5. QED
    BY <1>4, <2>1, <2>2, <2>4, Zenon DEF StaysIn
<1>5. QED
  BY <1>3, <1>4, Zenon

LEMMA ToLegacyUser ==
  ASSUME NEW e \in EntrySet
  PROVE  ToLegacy(e) \in Messages /\ (ToLegacy(e).kind = "user" <=> e.kind = "user")
<1>1. ToLegacy(e) \in Messages
  BY ToLegacyType
<1>2. e.kind \in Kinds
  BY EntryIs
<1>3. ToLegacy(e).kind = "user" <=> e.kind = "user"
  BY <1>2 DEF ToLegacy, Message, Kinds
<1>4. QED
  BY <1>1, <1>3

\* An entry pushed in both forms keeps them telling the same (push_canonical).
LEMMA TellsPush ==
  ASSUME NEW legacy \in Seq(Messages), NEW entries \in Seq(EntrySet), Tells(legacy, entries),
         NEW e, Sayable(entries, e)
  PROVE  TellsOn(legacy, entries, e)
<1>1. e \in EntrySet /\ Settled(e) /\ (e.kind # "user" => Follows(LastTurn(entries), e))
  BY DEF Sayable
<1> DEFINE m == ToLegacy(e)
<1>2. m \in Messages /\ (m.kind = "user" <=> e.kind = "user") /\ <<m>> \in Seq(Messages)
  BY <1>1, ToLegacyUser
<1>3. NormalizeLegacy(<<m>>) = <<e>>
  BY <1>1, NormalizeOne
<1>4. /\ Turns(legacy) \in Seq(Seq(Messages)) /\ Turns(entries) \in Seq(Seq(EntrySet))
      /\ Turns(legacy) = <<>> <=> legacy = <<>>
      /\ Turns(entries) = <<>> <=> entries = <<>>
  BY TurnsAppend, TurnsAre, TurnsStep
<1>5. legacy = <<>> <=> entries = <<>>
  <2>1. Len(Turns(legacy)) = Len(Turns(entries))
    BY DEF Tells, Matches
  <2> DEFINE a == Turns(legacy)
             b == Turns(entries)
  <2>2. a \in Seq(Seq(Messages)) /\ b \in Seq(Seq(EntrySet)) /\ Len(a) = Len(b)
    BY <1>4, <2>1
  <2> HIDE DEF a, b
  <2>3. a = <<>> <=> b = <<>>
    BY <2>2
  <2>4. QED
    BY <1>4, <2>3 DEF a, b
<1>6. Append(legacy, m) = legacy \o <<m>> /\ Append(entries, e) = entries \o <<e>>
  BY <1>1, <1>2, AppendIsConcat
<1>7. CASE entries = <<>> \/ e.kind = "user"
  <2>1. JoinsTurn(entries, <<e>>)
    BY <1>1, <1>7, NewTurn
  <2>2. JoinsTurn(legacy, <<m>>)
    BY <1>2, <1>5, <1>7, NewTurn
  <2>3. TurnTold(<<m>>, <<e>>)
    <3>1. Follows(<<>>, e)
      <4>1. CASE e.kind = "user"
        BY <4>1 DEF Follows
      <4>2. CASE e.kind # "user"
        BY <1>1, <1>7, <4>2 DEF LastTurn
      <4>3. QED
        BY <4>1, <4>2
    <3>2. AllSettled(<<e>>) /\ Paired(<<e>>)
      BY <1>1, <3>1, OneEntry
    <3>3. QED
      BY <1>3, <3>2, Zenon DEF TurnTold
  <2>4. MatchesOn(Turns(legacy), <<m>>, Turns(entries), <<e>>)
    <3>1. <<e>> \in Seq(EntrySet)
      BY <1>1
    <3>2. QED
      BY <1>2, <1>4, <3>1, MatchesAppend
  <2>5. QED
    BY <1>6, <2>1, <2>2, <2>3, <2>4, Zenon DEF JoinsTurn, MatchesOn, Tells, TellsOn
<1>8. CASE ~(entries = <<>> \/ e.kind = "user")
  <2>1. PICK f \in Seq(Seq(EntrySet)), l \in Seq(EntrySet) :
          /\ Turns(entries) = Append(f, l) /\ LastTurn(entries) = l
          /\ Turns(Append(entries, e)) = Append(f, Append(l, e))
    <3>1. StaysIn(EntrySet, entries, e)
      BY <1>1, <1>8, NewTurn
    <3>2. QED
      BY <3>1, Zenon DEF StaysIn
  <2> HIDE DEF m
  <2>2. PICK g \in Seq(Seq(Messages)), k \in Seq(Messages) :
          /\ Turns(legacy) = Append(g, k) /\ LastTurn(legacy) = k
          /\ Turns(Append(legacy, m)) = Append(g, Append(k, m))
    <3>1. StaysIn(Messages, legacy, m)
      BY <1>2, <1>5, <1>8, NewTurn
    <3>2. QED
      BY <3>1, Zenon DEF StaysIn
  <2>3. MatchesOn(g, k, f, l)
    BY MatchesAppend
  <2>4. Matches(g, f) /\ TurnTold(k, l)
    BY <2>1, <2>2, <2>3, Zenon DEF Tells, MatchesOn
  <2>5. TurnTold(Append(k, m), Append(l, e))
    <3>1. NormalizesAppend(k, e)
      BY <1>1, NormalizeAppend
    <3>2. AppendedAll(l, e) /\ PairedOn(l, e)
      BY <1>1, AppendAll, PairedAppend
    <3>3. Follows(l, e)
      BY <1>1, <1>8, <2>1
    <3>4. QED
      BY <1>1, <2>4, <3>1, <3>2, <3>3, Zenon DEF TurnTold, NormalizesAppend, AppendedAll, PairedOn, m
  <2>6. MatchesOn(g, Append(k, m), f, Append(l, e))
    <3>1. Append(k, m) \in Seq(Messages) /\ Append(l, e) \in Seq(EntrySet)
      BY <1>1, <1>2, AppendProperties
    <3>2. QED
      BY <3>1, MatchesAppend
  <2>7. QED
    BY <2>1, <2>2, <2>4, <2>5, <2>6, Zenon DEF MatchesOn, Tells, TellsOn, m
<1>9. QED
  BY <1>7, <1>8

TurnsPaired(entries) == \A t \in DOMAIN Turns(entries) : Paired(Turns(entries)[t])

\* Results of a history find their calls in their turn.
LEMMA TellsPaired ==
  ASSUME NEW legacy \in Seq(Messages), NEW entries \in Seq(EntrySet), Tells(legacy, entries)
  PROVE  TurnsPaired(entries)
<1>1. Turns(legacy) \in Seq(Seq(Messages)) /\ Turns(entries) \in Seq(Seq(EntrySet))
  BY TurnsStep
<1> DEFINE a == Turns(legacy)
           b == Turns(entries)
<1>2. Matches(a, b)
  BY DEF Tells
<1>3. a \in Seq(Seq(Messages)) /\ b \in Seq(Seq(EntrySet))
  BY <1>1
<1> HIDE DEF a, b
<1>4. \A t \in DOMAIN b : Paired(b[t])
  <2>1. DOMAIN b = 1..Len(a)
    BY <1>2, <1>3 DEF Matches
  <2>2. QED
    BY <1>2, <2>1, Zenon DEF Matches, TurnTold
<1>5. QED
  BY <1>4 DEF b, TurnsPaired

PairedUpTo(entries, e) ==
  TurnsPaired(Append(entries, e)) =>
    TurnsPaired(entries) /\ (e.kind # "user" => Follows(LastTurn(entries), e))

AllPairedOn(ts, t) ==
  (\A i \in DOMAIN Append(ts, t) : Paired(Append(ts, t)[i])) <=>
    (\A i \in DOMAIN ts : Paired(ts[i])) /\ Paired(t)

LEMMA AllPairedAppend ==
  ASSUME NEW S, NEW ts \in Seq(S), NEW t \in S
  PROVE  AllPairedOn(ts, t)
<1> DEFINE u == Append(ts, t)
           n == Len(ts)
<1>1. /\ n \in Nat /\ DOMAIN u = 1..n + 1 /\ DOMAIN ts = 1..n
      /\ u[n + 1] = t /\ \A i \in 1..n : u[i] = ts[i]
  BY AppendProperties
<1>2. \A i : i \in 1..n + 1 <=> i \in 1..n \/ i = n + 1
  BY <1>1
<1> HIDE DEF u, n
<1>3. (\A i \in DOMAIN u : Paired(u[i])) <=> (\A i \in DOMAIN ts : Paired(ts[i])) /\ Paired(t)
  BY <1>1, <1>2, Zenon
<1>4. QED
  BY <1>3, Zenon DEF u, AllPairedOn

LEMMA TurnsPairedAppend ==
  ASSUME NEW entries \in Seq(EntrySet), NEW e \in EntrySet
  PROVE  PairedUpTo(entries, e)
<1>1. /\ Turns(entries) \in Seq(Seq(EntrySet))
      /\ <<e>> \in Seq(EntrySet)
  BY TurnsStep
<1>2. Append(entries, e) = entries \o <<e>>
  BY AppendIsConcat
<1>3. CASE entries = <<>> \/ e.kind = "user"
  <2>1. JoinsTurn(entries, <<e>>)
    BY <1>3, NewTurn
  <2>2. AllPairedOn(Turns(entries), <<e>>)
    BY <1>1, AllPairedAppend
  <2>3. TurnsPaired(Append(entries, e)) => TurnsPaired(entries) /\ Paired(<<e>>)
    BY <1>2, <2>1, <2>2, Zenon DEF JoinsTurn, AllPairedOn, TurnsPaired
  <2>4. Paired(<<e>>) <=> Follows(<<>>, e)
    BY OneEntry
  <2>5. e.kind # "user" => LastTurn(entries) = <<>>
    BY <1>3 DEF LastTurn
  <2>6. QED
    BY <2>3, <2>4, <2>5, Zenon DEF PairedUpTo
<1>4. CASE ~(entries = <<>> \/ e.kind = "user")
  <2>1. StaysIn(EntrySet, entries, e)
    BY <1>4, NewTurn
  <2>2. PICK f \in Seq(Seq(EntrySet)), l \in Seq(EntrySet) :
          /\ Turns(entries) = Append(f, l) /\ LastTurn(entries) = l
          /\ Turns(Append(entries, e)) = Append(f, Append(l, e))
    BY <2>1, Zenon DEF StaysIn
  <2>3. Append(l, e) \in Seq(EntrySet)
    BY AppendProperties
  <2>4. AllPairedOn(f, l) /\ AllPairedOn(f, Append(l, e))
    BY <2>3, AllPairedAppend
  <2>5. PairedOn(l, e)
    BY PairedAppend
  <2>6. TurnsPaired(Append(entries, e)) => TurnsPaired(entries) /\ Follows(l, e)
    BY <2>2, <2>4, <2>5, Zenon DEF AllPairedOn, TurnsPaired, PairedOn
  <2>7. QED
    BY <2>2, <2>6, Zenon DEF PairedUpTo
<1>5. QED
  BY <1>3, <1>4

\* The text of entries, as it is written and as it is pushed
AsText(entries) == [i \in DOMAIN entries |-> ToLegacy(entries[i])]

TextGoesOn(entries, e) == AsText(Append(entries, e)) = Append(AsText(entries), ToLegacy(e))

LEMMA AsTextAppend ==
  ASSUME NEW entries \in Seq(EntrySet), NEW e \in EntrySet
  PROVE  AsText(entries) \in Seq(Messages) /\ TextGoesOn(entries, e)
<1> DEFINE u == Append(entries, e)
           n == Len(entries)
           m == ToLegacy(e)
           a == AsText(entries)
           b == AsText(u)
           c == Append(a, m)
<1>1. /\ n \in Nat /\ DOMAIN u = 1..n + 1 /\ DOMAIN entries = 1..n
      /\ u[n + 1] = e /\ \A i \in 1..n : u[i] = entries[i]
      /\ \A i \in 1..n : entries[i] \in EntrySet
      /\ u \in Seq(EntrySet) /\ \A i \in 1..n + 1 : u[i] \in EntrySet
  BY AppendProperties
<1>2. m \in Messages
  BY ToLegacyType
<1>3. /\ a \in [1..n -> Messages] /\ \A i \in 1..n : a[i] = ToLegacy(entries[i])
      /\ b \in [1..n + 1 -> Messages] /\ \A i \in 1..n + 1 : b[i] = ToLegacy(u[i])
  <2> HIDE DEF u, n
  <2>1. QED
    BY <1>1, ToLegacyType DEF AsText
<1> HIDE DEF a, b, u, n
<1>4. a \in Seq(Messages) /\ Len(a) = n /\ b \in Seq(Messages) /\ Len(b) = n + 1
  BY <1>1, <1>3, IsASeq, LenProperties
<1> HIDE DEF m
<1>5. c \in Seq(Messages) /\ Len(c) = n + 1 /\ c[n + 1] = m /\ \A i \in 1..n : c[i] = a[i]
  BY <1>2, <1>4, AppendProperties
<1> HIDE DEF c
<1>6. \A i \in 1..n + 1 : b[i] = c[i]
  <2>1. ASSUME NEW i \in 1..n + 1
        PROVE  b[i] = c[i]
    <3>1. CASE i \in 1..n
      BY <1>1, <1>3, <1>5, <3>1
    <3>2. CASE i = n + 1
      BY <1>1, <1>3, <1>5, <3>2, Zenon DEF m
    <3>3. QED
      BY <1>1, <3>1, <3>2
  <2>2. QED
    BY <2>1
<1>7. b = c
  BY <1>4, <1>5, <1>6, SeqEqual
<1>8. QED
  BY <1>4, <1>7, Zenon DEF a, b, c, u, m, TextGoesOn

LEMMA AsTextType ==
  ASSUME NEW entries \in Seq(EntrySet)
  PROVE  AsText(entries) \in Seq(Messages)
<1>1. EntrySet # {}
  <2>1. ToolCall(NoId, "") \in EntrySet
    BY EntryTypes, WordTypes
  <2>2. QED
    BY <2>1
<1>2. QED
  BY <1>1, AsTextAppend

\* A history written anew from its entries tells the same (Serialize).
LEMMA TellsAsText ==
  ASSUME NEW entries \in Seq(EntrySet), AllSettled(entries), TurnsPaired(entries)
  PROVE  Tells(AsText(entries), entries)
<1> DEFINE D == {s \in Seq(EntrySet) : AllSettled(s) /\ TurnsPaired(s) => Tells(AsText(s), s)}
<1>1. <<>> \in D
  <2>1. AsText(<<>>) = <<>>
    BY DEF AsText
  <2>2. Matches(<<>>, <<>>)
    BY DEF Matches
  <2>3. Tells(AsText(<<>>), <<>>)
    BY <2>1, <2>2, NoTurns, Zenon DEF Tells
  <2>4. <<>> \in Seq(EntrySet)
    OBVIOUS
  <2>5. QED
    BY <2>3, <2>4
<1>2. ASSUME NEW s \in Seq(EntrySet), NEW e \in EntrySet, s \in D
      PROVE  Append(s, e) \in D
  <2> DEFINE u == Append(s, e)
  <2>1. u \in Seq(EntrySet)
    BY AppendProperties
  <2>2. ASSUME AllSettled(u), TurnsPaired(u)
        PROVE  Tells(AsText(u), u)
    <3>1. AppendedAll(s, e) /\ PairedUpTo(s, e) /\ TextGoesOn(s, e) /\ AsText(s) \in Seq(Messages)
      BY AppendAll, TurnsPairedAppend, AsTextAppend
    <3>2. AllSettled(s) /\ Settled(e) /\ TurnsPaired(s) /\ (e.kind # "user" => Follows(LastTurn(s), e))
      BY <2>2, <3>1, Zenon DEF AppendedAll, PairedUpTo
    <3>3. Tells(AsText(s), s)
      BY <1>2, <3>2
    <3>4. Sayable(s, e)
      BY <3>2 DEF Sayable
    <3>5. TellsOn(AsText(s), s, e)
      BY <3>1, <3>3, <3>4, TellsPush
    <3>6. QED
      BY <3>1, <3>5, Zenon DEF TellsOn, TextGoesOn
  <2> HIDE DEF u
  <2>3. u \in D
    BY <2>1, <2>2
  <2>4. QED
    BY <2>3 DEF u
<1> HIDE DEF D
<1>3. entries \in D
  BY <1>1, <1>2, SeqInduction
<1>4. QED
  BY <1>3 DEF D

(***************************************************************************)
(* A file, read turn by turn.                                              *)
(***************************************************************************)
\* Reading the one message more adds its entries.
ReadsMore(s, m) ==
  \E new : Adds(m, new) /\ NormalizeLegacy(Append(s, m)) = NormalizeLegacy(s) \o new

LEMMA NormalizeMore ==
  ASSUME NEW s \in Seq(Messages), NEW m \in Messages
  PROVE  ReadsMore(s, m)
<1> DEFINE r == ReadAll(Reader, s)
<1>1. Reader \in Rests
  BY ReaderRests
<1>2. r \in Rests /\ ReadAll(Reader, Append(s, m)) = ReadMessage(r, Append(s, m)[Len(s) + 1])
  BY <1>1, ReadAllStep
<1>3. Append(s, m)[Len(s) + 1] = m
  BY AppendProperties
<1> HIDE DEF r
<1>4. ReadAll(Reader, Append(s, m)) = ReadMessage(r, m)
  BY <1>2, <1>3, Zenon
<1>5. PICK new : Adds(m, new) /\ ReadMessage(r, m).entries = r.entries \o new
  BY <1>2, ReadMessageAdds
<1>6. NormalizeLegacy(Append(s, m)) = NormalizeLegacy(s) \o new
  BY <1>4, <1>5, Zenon DEF NormalizeLegacy, r
<1>7. QED
  BY <1>5, <1>6, Zenon DEF ReadsMore

OnlyFirst(entries) == \A i \in 2..Len(entries) : entries[i].kind # "user"

FirstStays(a, b) ==
  /\ OnlyFirst(a \o b)
  /\ a # <<>> => a \o b # <<>> /\ (a \o b)[1] = a[1]

LEMMA OnlyFirstConcat ==
  ASSUME NEW a \in Seq(EntrySet), NEW b \in Seq(EntrySet), OnlyFirst(a), NoUsers(b)
  PROVE  FirstStays(a, b)
<1> DEFINE c == a \o b
           n == Len(a)
           m == Len(b)
<1>1. /\ n \in Nat /\ m \in Nat /\ Len(c) = n + m /\ DOMAIN b = 1..m
      /\ c \in Seq(EntrySet)
      /\ \A i \in 1..n + m : c[i] = IF i <= n THEN a[i] ELSE b[i - n]
      /\ a = <<>> <=> n = 0
  BY ConcatProperties
<1> HIDE DEF c, n, m
<1>2. ASSUME NEW i \in 2..Len(c)
      PROVE  c[i].kind # "user"
  <2>1. i \in 1..n + m
    BY <1>1, <1>2
  <2>2. CASE i <= n
    <3>1. c[i] = a[i] /\ i \in 2..n
      BY <1>1, <1>2, <2>1, <2>2
    <3>2. QED
      BY <3>1 DEF OnlyFirst, n
  <2>3. CASE ~(i <= n)
    <3>1. c[i] = b[i - n] /\ i - n \in 1..m
      BY <1>1, <1>2, <2>1, <2>3
    <3>2. QED
      BY <1>1, <3>1, Zenon DEF NoUsers
  <2>4. QED
    BY <2>2, <2>3
<1>3. ASSUME a # <<>>
      PROVE  c # <<>> /\ c[1] = a[1]
  <2>1. n >= 1 /\ 1 \in 1..n + m /\ Len(c) # 0
    BY <1>1, <1>3
  <2>2. c # <<>>
    BY <1>1, <2>1
  <2>3. QED
    BY <1>1, <2>1, <2>2
<1>4. QED
  BY <1>2, <1>3 DEF c, FirstStays, OnlyFirst

FirstUser(items) == items # <<>> /\ items[1].kind = "user"

\* The text of a turn is read as a turn: only its first entry can be a user's.
LEMMA TurnRead ==
  ASSUME NEW turn \in Seq(Messages), NEW first, TurnLike(turn, first), NormalizeLegacy(turn) # <<>>
  PROVE  TurnLike(NormalizeLegacy(turn), first)
<1> DEFINE Good(s) == OnlyFirst(NormalizeLegacy(s)) /\ (FirstUser(s) => FirstUser(NormalizeLegacy(s)))
           D == {s \in Seq(Messages) : (s # <<>> => TurnLike(s, TRUE)) => Good(s)}
<1>1. <<>> \in D
  <2>1. NormalizeLegacy(<<>>) = <<>> /\ <<>> \in Seq(Messages)
    BY NormalizeType
  <2>2. OnlyFirst(<<>>) /\ ~FirstUser(<<>>)
    BY DEF OnlyFirst, FirstUser
  <2>3. Good(<<>>)
    BY <2>1, <2>2, Zenon
  <2> HIDE DEF Good
  <2>4. QED
    BY <2>1, <2>3
<1>2. ASSUME NEW s \in Seq(Messages), NEW m \in Messages, s \in D, TurnLike(Append(s, m), TRUE)
      PROVE  Good(Append(s, m))
  <2> DEFINE u == Append(s, m)
             a == NormalizeLegacy(s)
  <2>1. PICK new : Adds(m, new) /\ NormalizeLegacy(u) = a \o new
    BY NormalizeMore, Zenon DEF ReadsMore
  <2>2. /\ Len(s) \in Nat /\ Len(u) = Len(s) + 1 /\ u[Len(s) + 1] = m
        /\ \A i \in 1..Len(s) : u[i] = s[i]
        /\ s = <<>> <=> Len(s) = 0
    BY AppendProperties
  <2>3. new \in Seq(EntrySet) /\ a \in Seq(EntrySet)
    BY <2>1, NormalizeType DEF Adds
  <2>4. TurnLike(u, TRUE)
    BY <1>2
  <2>5. CASE s = <<>>
    <3>1. a = <<>>
      BY <2>5, NormalizeType
    <3>2. NormalizeLegacy(u) = new
      BY <2>1, <2>3, <3>1, ConcatEmptySeq
    <3>3. u[1] = m
      BY <2>2, <2>5
    <3> HIDE DEF u
    <3>4. CASE m.kind = "user"
      <4>1. new = <<User(m.lines)>>
        BY <2>1, <3>4 DEF Adds
      <4>2. OnlyFirst(new) /\ FirstUser(new)
        BY <4>1, EntryKinds DEF OnlyFirst, FirstUser
      <4>3. QED
        BY <3>2, <4>2 DEF u
    <3>5. CASE m.kind # "user"
      <4>1. NoUsers(new)
        BY <2>1, <3>5 DEF Adds
      <4>2. OnlyFirst(new)
        BY <2>3, <4>1 DEF NoUsers, OnlyFirst
      <4>3. ~FirstUser(u)
        BY <3>3, <3>5 DEF FirstUser
      <4>4. QED
        BY <3>2, <4>2, <4>3 DEF u
    <3>6. QED
      BY <3>4, <3>5
  <2>6. CASE s # <<>>
    <3> HIDE DEF u, a
    <3>1. Len(s) >= 1
      BY <2>2, <2>6
    <3>2. m.kind # "user" /\ u[1] = s[1]
      <4>1. Len(s) + 1 \in 2..Len(u) /\ 1 \in 1..Len(s)
        BY <2>2, <3>1
      <4>2. QED
        BY <2>2, <2>4, <4>1, Zenon DEF TurnLike
    <3>3. TurnLike(s, TRUE)
      <4>1. \A i \in 2..Len(s) : i \in 2..Len(u) /\ u[i] = s[i]
        BY <2>2
      <4>2. QED
        BY <2>4, <2>6, <4>1, Zenon DEF TurnLike
    <3>4. Good(s)
      BY <1>2, <3>3
    <3>5. NoUsers(new)
      BY <2>1, <3>2 DEF Adds
    <3>6. FirstStays(a, new)
      BY <2>3, <3>4, <3>5, OnlyFirstConcat DEF a
    <3>7. FirstUser(u) => FirstUser(a \o new)
      <4>1. FirstUser(u) => FirstUser(s)
        BY <2>6, <3>2 DEF FirstUser
      <4>2. FirstUser(u) => FirstUser(a)
        BY <3>4, <4>1 DEF a
      <4>3. FirstUser(a) => FirstUser(a \o new)
        BY <3>6, Zenon DEF FirstUser, FirstStays
      <4>4. QED
        BY <4>2, <4>3
    <3>8. QED
      BY <2>1, <3>6, <3>7, Zenon DEF FirstStays, u
  <2>7. QED
    BY <2>5, <2>6
<1>3. ASSUME NEW s \in Seq(Messages), NEW m \in Messages, s \in D
      PROVE  Append(s, m) \in D
  <2>1. Append(s, m) \in Seq(Messages) /\ Append(s, m) # <<>>
    BY AppendProperties
  <2> DEFINE u == Append(s, m)
  <2>2. TurnLike(u, TRUE) => Good(u)
    BY <1>2, <1>3
  <2> HIDE DEF u, Good
  <2>3. u \in D
    BY <2>1, <2>2 DEF u
  <2>4. QED
    BY <2>3 DEF u
<1> HIDE DEF D
<1>4. turn \in D
  BY <1>1, <1>3, SeqInduction
<1>5. TurnLike(turn, TRUE)
  BY DEF TurnLike
<1>6. Good(turn)
  BY <1>4, <1>5 DEF D
<1>7. QED
  BY <1>6 DEF TurnLike, OnlyFirst, FirstUser

Readable(ms) ==
  \A t \in DOMAIN ms : NormalizeLegacy(ms[t]) # <<>> /\ AllSettled(NormalizeLegacy(ms[t]))
                       /\ Paired(NormalizeLegacy(ms[t]))

ReadableOn(ms, m) ==
  Readable(Append(ms, m)) =>
    Readable(ms) /\ NormalizeLegacy(m) # <<>> /\ TurnTold(m, NormalizeLegacy(m))

LEMMA ReadableAppend ==
  ASSUME NEW S, NEW ms \in Seq(S), NEW m \in S
  PROVE  ReadableOn(ms, m)
<1> DEFINE u == Append(ms, m)
           n == Len(ms)
<1>1. /\ n \in Nat /\ DOMAIN u = 1..n + 1 /\ DOMAIN ms = 1..n
      /\ u[n + 1] = m /\ \A i \in 1..n : u[i] = ms[i]
  BY AppendProperties
<1>2. n + 1 \in 1..n + 1 /\ \A i \in 1..n : i \in 1..n + 1
  BY <1>1
<1> HIDE DEF u, n
<1>3. Readable(u) => Readable(ms)
  BY <1>1, <1>2, Zenon DEF Readable
<1>4. Readable(u) => NormalizeLegacy(m) # <<>> /\ TurnTold(m, NormalizeLegacy(m))
  BY <1>1, <1>2, Zenon DEF Readable, TurnTold
<1>5. QED
  BY <1>3, <1>4, Zenon DEF ReadableOn, u

\* A text whose turns can be read tells what it is read as.
LEMMA TellsTurns ==
  ASSUME NEW turns \in Seq(Seq(Messages)), Grouped(turns), Readable(turns)
  PROVE  Matches(turns, Turns(NormalizeLegacy(WithoutTurns(turns, {}))))
<1> DEFINE S == Seq(Messages)
           Good(ms) == Matches(ms, Turns(NormalizeLegacy(WithoutTurns(ms, {}))))
           D == {ms \in Seq(S) : Grouped(ms) /\ Readable(ms) => Good(ms)}
<1>1. <<>> \in D
  <2>1. Matches(<<>>, <<>>)
    BY DEF Matches
  <2>2. Good(<<>>)
    <3>1. WithoutTurns(<<>>, {}) = <<>> /\ Turns(<<>>) = <<>>
      BY NoTurns
    <3>2. <<>> \in Seq(Messages)
      OBVIOUS
    <3>3. NormalizeLegacy(<<>>) = <<>>
      BY <3>2, NormalizeType
    <3>4. QED
      BY <2>1, <3>1, <3>3, Zenon
  <2> HIDE DEF Good, S
  <2>3. <<>> \in Seq(S)
    OBVIOUS
  <2>4. QED
    BY <2>2, <2>3
<1>2. ASSUME NEW ms \in Seq(S), NEW m \in S, ms \in D, Grouped(Append(ms, m)), Readable(Append(ms, m))
      PROVE  Good(Append(ms, m))
  <2> DEFINE x == WithoutTurns(ms, {})
             a == NormalizeLegacy(x)
             b == NormalizeLegacy(m)
  <2>1. Grouped(ms) /\ TurnLike(m, ms = <<>>)
    BY <1>2, GroupedAppend, Zenon DEF GroupedOn
  <2>2. Readable(ms) /\ b # <<>> /\ TurnTold(m, b)
    BY <1>2, ReadableAppend, Zenon DEF ReadableOn
  <2>3. x \in S /\ JoinsNext(ms, m, {})
    BY WithoutAppend
  <2>4. WithoutTurns(Append(ms, m), {}) = x \o m
    BY <2>3, Zenon DEF JoinsNext, JoinsOn
  <2>5. Matches(ms, Turns(a))
    BY <1>2, <2>1, <2>2
  <2>6. a \in Seq(EntrySet) /\ b \in Seq(EntrySet)
    BY <2>3, NormalizeType
  <2>7. NormalizesOn(x, m)
    <3>1. AllSettled(NormalizeLegacy(m))
      BY <2>2 DEF TurnTold
    <3>2. QED
      BY <2>3, <3>1, NormalizeConcat
  <2>8. TurnLike(b, a = <<>>)
    <3>1. CASE ms = <<>>
      <4>1. a = <<>>
        BY <3>1, NoTurns, NormalizeType
      <4>2. TurnLike(m, TRUE)
        BY <2>1, <3>1
      <4>3. TurnLike(b, TRUE)
        BY <2>2, <4>2, TurnRead
      <4>4. QED
        BY <4>1, <4>3
    <3>2. CASE ms # <<>>
      <4>1. TurnLike(m, FALSE)
        BY <2>1, <3>2
      <4>2. TurnLike(b, FALSE)
        BY <2>2, <4>1, TurnRead
      <4>3. QED
        BY <4>2 DEF TurnLike
    <3>3. QED
      BY <3>1, <3>2
  <2> HIDE DEF x, a, b
  <2>9. JoinsTurn(a, b)
    BY <2>6, <2>8, TurnsJoin
  <2>10. Turns(a) \in Seq(Seq(EntrySet))
    BY <2>6, TurnsStep
  <2>11. MatchesOn(ms, m, Turns(a), b)
    BY <2>6, <2>10, MatchesAppend
  <2>12. Matches(Append(ms, m), Append(Turns(a), b))
    BY <2>2, <2>5, <2>11, Zenon DEF MatchesOn
  <2>13. NormalizeLegacy(WithoutTurns(Append(ms, m), {})) = a \o b
    BY <2>4, <2>7, Zenon DEF NormalizesOn, a, b
  <2>14. QED
    BY <2>9, <2>12, <2>13, Zenon DEF JoinsTurn
<1>3. ASSUME NEW ms \in Seq(S), NEW m \in S, ms \in D
      PROVE  Append(ms, m) \in D
  <2> DEFINE u == Append(ms, m)
  <2>1. u \in Seq(S)
    BY AppendProperties
  <2>2. Grouped(u) /\ Readable(u) => Good(u)
    BY <1>2, <1>3
  <2> HIDE DEF u, Good
  <2>3. u \in D
    BY <2>1, <2>2
  <2>4. QED
    BY <2>3 DEF u
<1> HIDE DEF D, S
<1>4. \A ms \in Seq(S) : ms \in D
  BY <1>1, <1>3, SeqInduction
<1>5. turns \in Seq(S)
  BY DEF S
<1>6. QED
  BY <1>4, <1>5 DEF D

\* So does a file.
LEMMA TellsFile ==
  ASSUME NEW f \in Files
  PROVE  f \in Seq(Messages) /\ Tells(f, NormalizeLegacy(f))
<1>1. f \in Seq(Messages) /\ Readable(Turns(f))
  BY FilesAssumption DEF Readable, AllSettled
<1>2. Turns(f) \in Seq(Seq(Messages)) /\ Grouped(Turns(f)) /\ WithoutTurns(Turns(f), {}) = f
  BY <1>1, TurnsStep, TurnsAre
<1> DEFINE ts == Turns(f)
<1>3. Matches(ts, Turns(NormalizeLegacy(WithoutTurns(ts, {}))))
  <2>1. ts \in Seq(Seq(Messages)) /\ Grouped(ts) /\ Readable(ts)
    BY <1>1, <1>2
  <2> HIDE DEF ts
  <2>2. QED
    BY <2>1, TellsTurns
<1>4. QED
  BY <1>1, <1>2, <1>3 DEF Tells

(***************************************************************************)
(* Sums and sizes.                                                         *)
(***************************************************************************)
AddOn(total, size, n, at) == total + (IF n \in at THEN size ELSE 0)

LEMMA AddOnType ==
  ASSUME NEW total \in Nat, NEW size \in Nat, NEW n, NEW at
  PROVE  AddOn(total, size, n, at) \in Nat
BY DEF AddOn

SumOverRuns(f, at, sizes) ==
  f = [n \in 0..Len(sizes) |-> IF n = 0 THEN 0 ELSE AddOn(f[n - 1], sizes[n], n, at)]

LEMMA SumOverIs ==
  ASSUME NEW at, NEW sizes \in Seq(Nat)
  PROVE  \E f : SumOverRuns(f, at, sizes) /\ SumOver(sizes, at) = f[Len(sizes)]
<1> DEFINE N == Len(sizes)
           g == [n \in 1..N |-> [a \in Nat |-> AddOn(a, sizes[n], n, at)]]
<1>1. N \in Nat /\ 0 \in Nat
  OBVIOUS
<1>2. \A n \in 1..N : \A a \in Nat : AddOn(a, sizes[n], n, at) \in Nat
  BY AddOnType
<1>3. g \in Rounds(Nat, N)
  BY <1>2 DEF Rounds
<1>4. PICK f : f \in [0..N -> Nat] /\ f[0] = 0 /\ \A n \in 1..N : f[n] = g[n][f[n - 1]]
  <2> HIDE DEF g, N
  <2>1. \E f : Iterates(f, Nat, 0, N, g)
    BY <1>1, <1>3, RecursionUpTo
  <2>2. QED
    BY <2>1 DEF Iterates
<1>5. \A n \in 1..N : f[n] = AddOn(f[n - 1], sizes[n], n, at)
  <2> TAKE n \in 1..N
  <2>1. n - 1 \in 0..N
    BY <1>1
  <2>2. QED
    BY <1>4, <2>1
<1>6. f = [n \in 0..N |-> IF n = 0 THEN 0 ELSE AddOn(f[n - 1], sizes[n], n, at)]
  <2>1. \A n \in 0..N : n = 0 \/ n \in 1..N
    BY <1>1
  <2> HIDE DEF N, g
  <2>2. \A n \in 0..N : f[n] = IF n = 0 THEN 0 ELSE AddOn(f[n - 1], sizes[n], n, at)
    BY <1>4, <1>5, <2>1, Zenon
  <2>3. QED
    BY <1>4, <2>2
<1>7. SumOverRuns(f, at, sizes)
  BY <1>6 DEF SumOverRuns, N
<1> HIDE DEF g, N
<1>8. SumOverRuns(CHOOSE h : SumOverRuns(h, at, sizes), at, sizes)
  BY <1>7
<1>9. SumOver(sizes, at) = (CHOOSE h : SumOverRuns(h, at, sizes))[Len(sizes)]
  BY DEF SumOver, SumOverRuns, AddOn
<1>10. QED
  BY <1>8, <1>9

LEMMA SumOverStep ==
  ASSUME NEW at, NEW sizes \in Seq(Nat)
  PROVE  /\ SumOver(sizes, at) \in Nat
         /\ SumOver(<<>>, at) = 0
         /\ \A e \in Nat :
              SumOver(Append(sizes, e), at) =
                AddOn(SumOver(sizes, at), Append(sizes, e)[Len(sizes) + 1], Len(sizes) + 1, at)
<1> DEFINE N == Len(sizes)
<1>1. N \in Nat /\ 0 \in Nat /\ <<>> \in Seq(Nat)
  OBVIOUS
<1>2. PICK f : SumOverRuns(f, at, sizes) /\ SumOver(sizes, at) = f[N]
  BY SumOverIs
<1>3. f[0] = 0 /\ \A n \in 1..N : f[n] = AddOn(f[n - 1], sizes[n], n, at)
  <2>1. \A n \in 0..N : f[n] = IF n = 0 THEN 0 ELSE AddOn(f[n - 1], sizes[n], n, at)
    BY <1>2, Zenon DEF SumOverRuns
  <2>2. 0 \in 0..N /\ \A n \in 1..N : n \in 0..N /\ n # 0
    BY <1>1
  <2>3. QED
    BY <2>1, <2>2, Zenon
<1>4. SumOver(sizes, at) \in Nat
  <2> DEFINE D == {n \in 0..N : f[n] \in Nat}
  <2>1. 0 \in D
    <3>1. 0 \in 0..N /\ f[0] \in Nat
      BY <1>1, <1>3
    <3>2. QED
      BY <3>1
  <2>2. ASSUME NEW n \in 1..N, n - 1 \in D
        PROVE  n \in D
    <3>1. AddOn(f[n - 1], sizes[n], n, at) \in Nat
      BY <2>2, AddOnType
    <3>2. QED
      BY <1>3, <3>1
  <2> HIDE DEF D, N
  <2>3. \A n \in 0..N : n \in D
    BY <1>1, <2>1, <2>2, InductionUpTo
  <2>4. QED
    BY <1>1, <1>2, <2>3 DEF D
<1>5. SumOver(<<>>, at) = 0
  <2>1. PICK h : SumOverRuns(h, at, <<>>) /\ SumOver(<<>>, at) = h[Len(<<>>)]
    BY <1>1, SumOverIs
  <2>2. QED
    BY <2>1 DEF SumOverRuns
<1>6. ASSUME NEW e \in Nat
      PROVE  SumOver(Append(sizes, e), at) =
               AddOn(SumOver(sizes, at), Append(sizes, e)[Len(sizes) + 1], Len(sizes) + 1, at)
  <2> DEFINE t == Append(sizes, e)
  <2>1. t \in Seq(Nat) /\ Len(t) = N + 1 /\ \A n \in 1..N : t[n] = sizes[n]
    OBVIOUS
  <2> HIDE DEF t
  <2>2. PICK h : SumOverRuns(h, at, t) /\ SumOver(t, at) = h[N + 1]
    BY <2>1, SumOverIs
  <2>3. h[0] = 0 /\ \A n \in 1..N + 1 : h[n] = AddOn(h[n - 1], t[n], n, at)
    <3>1. \A n \in 0..N + 1 : h[n] = IF n = 0 THEN 0 ELSE AddOn(h[n - 1], t[n], n, at)
      BY <2>1, <2>2, Zenon DEF SumOverRuns
    <3>2. 0 \in 0..N + 1 /\ \A n \in 1..N + 1 : n \in 0..N + 1 /\ n # 0
      BY <1>1
    <3>3. QED
      BY <3>1, <3>2, Zenon
  <2> DEFINE D == {n \in 0..N : f[n] = h[n]}
  <2>4. 0 \in D
    BY <1>1, <1>3, <2>3
  <2>5. ASSUME NEW n \in 1..N, n - 1 \in D
        PROVE  n \in D
    <3>1. n \in 1..N + 1 /\ f[n - 1] = h[n - 1] /\ t[n] = sizes[n]
      BY <1>1, <2>1, <2>5
    <3>2. h[n] = f[n]
      BY <1>3, <2>3, <3>1
    <3>3. QED
      BY <3>2
  <2>6. f[N] = h[N]
    <3> HIDE DEF D, N
    <3>1. \A n \in 0..N : n \in D
      BY <1>1, <2>4, <2>5, InductionUpTo
    <3>2. QED
      BY <1>1, <3>1 DEF D
  <2>7. N + 1 \in 1..N + 1 /\ (N + 1) - 1 = N
    BY <1>1
  <2>8. h[N + 1] = AddOn(h[N], t[N + 1], N + 1, at)
    BY <2>3, <2>7
  <2>9. QED
    BY <1>2, <2>2, <2>6, <2>8 DEF t
<1>7. QED
  BY <1>4, <1>5, <1>6

SumsOn(sizes, size, at) ==
  SumOver(Append(sizes, size), at) = AddOn(SumOver(sizes, at), size, Len(sizes) + 1, at)

LEMMA SumAppend ==
  ASSUME NEW sizes \in Seq(Nat), NEW size \in Nat, NEW at
  PROVE  SumsOn(sizes, size, at)
<1>1. SumOver(Append(sizes, size), at) =
        AddOn(SumOver(sizes, at), Append(sizes, size)[Len(sizes) + 1], Len(sizes) + 1, at)
  BY SumOverStep
<1>2. Append(sizes, size)[Len(sizes) + 1] = size
  BY AppendProperties
<1>3. QED
  BY <1>1, <1>2, Zenon DEF SumsOn

LEMMA NoSum ==
  ASSUME NEW at
  PROVE  SumOver(<<>>, at) = 0
<1>1. <<>> \in Seq(Nat)
  OBVIOUS
<1>2. QED
  BY <1>1, SumOverStep

LEMMA SumGrows ==
  ASSUME NEW sizes \in Seq(Nat), NEW A, NEW B, \A n \in DOMAIN sizes : n \in A => n \in B
  PROVE  SumOver(sizes, A) <= SumOver(sizes, B)
<1> DEFINE D == {s \in Seq(Nat) : (\A n \in 1..Len(s) : n \in A => n \in B) =>
                                    SumOver(s, A) <= SumOver(s, B)}
<1>1. <<>> \in D
  BY NoSum
<1>2. ASSUME NEW s \in Seq(Nat), NEW e \in Nat, s \in D
      PROVE  Append(s, e) \in D
  <2> DEFINE u == Append(s, e)
             n == Len(s) + 1
  <2>1. u \in Seq(Nat) /\ Len(u) = n /\ Len(s) \in Nat
    BY AppendProperties
  <2>2. SumsOn(s, e, A) /\ SumsOn(s, e, B)
    BY SumAppend
  <2>3. SumOver(u, A) = AddOn(SumOver(s, A), e, n, A) /\ SumOver(u, B) = AddOn(SumOver(s, B), e, n, B)
    BY <2>2, Zenon DEF SumsOn
  <2>4. SumOver(s, A) \in Nat /\ SumOver(s, B) \in Nat
    BY SumOverStep
  <2> HIDE DEF u
  <2>5. ASSUME \A i \in 1..n : i \in A => i \in B
        PROVE  SumOver(u, A) <= SumOver(u, B)
    <3>1. SumOver(s, A) <= SumOver(s, B)
      BY <1>2, <2>1, <2>5
    <3>2. n \in A => n \in B
      BY <2>1, <2>5
    <3> HIDE DEF n
    <3>3. QED
      BY <2>3, <2>4, <3>1, <3>2 DEF AddOn
  <2>6. u \in D
    BY <2>1, <2>5
  <2>7. QED
    BY <2>6 DEF u
<1> HIDE DEF D
<1>3. sizes \in D
  BY <1>1, <1>2, SeqInduction
<1>4. QED
  BY <1>3 DEF D

\* One position more adds its size.
LEMMA SumMore ==
  ASSUME NEW sizes \in Seq(Nat), NEW A, NEW n \in DOMAIN sizes, n \notin A
  PROVE  SumOver(sizes, A \cup {n}) = SumOver(sizes, A) + sizes[n]
<1> DEFINE B == A \cup {n}
           D == {s \in Seq(Nat) :
                   /\ n > Len(s) => SumOver(s, B) = SumOver(s, A)
                   /\ n \in 1..Len(s) => SumOver(s, B) = SumOver(s, A) + s[n]}
<1>1. <<>> \in D
  BY NoSum
<1>2. ASSUME NEW s \in Seq(Nat), NEW e \in Nat, s \in D
      PROVE  Append(s, e) \in D
  <2> DEFINE u == Append(s, e)
             m == Len(s) + 1
  <2>1. u \in Seq(Nat) /\ Len(u) = m /\ Len(s) \in Nat /\ u[m] = e /\ \A i \in 1..Len(s) : u[i] = s[i]
    BY AppendProperties
  <2>2. SumsOn(s, e, A) /\ SumsOn(s, e, B)
    BY SumAppend
  <2>3. SumOver(u, A) = AddOn(SumOver(s, A), e, m, A) /\ SumOver(u, B) = AddOn(SumOver(s, B), e, m, B)
    BY <2>2, Zenon DEF SumsOn
  <2>4. SumOver(s, A) \in Nat /\ SumOver(s, B) \in Nat
    BY SumOverStep
  <2>5. n \in Nat
    OBVIOUS
  <2>6. m # n => (m \in B <=> m \in A)
    OBVIOUS
  <2> HIDE DEF u
  <2>7. n > Len(u) => SumOver(u, B) = SumOver(u, A)
    <3>1. n > Len(u) => n > Len(s) /\ m # n
      BY <2>1, <2>5
    <3>2. QED
      BY <1>2, <2>3, <2>4, <2>6, <3>1 DEF AddOn
  <2>8. n \in 1..Len(u) => SumOver(u, B) = SumOver(u, A) + u[n]
    <3>1. CASE n = m
      <4>1. n > Len(s) /\ m \in B /\ m \notin A /\ u[n] = e
        BY <2>1, <3>1
      <4>2. SumOver(s, B) = SumOver(s, A)
        BY <1>2, <4>1
      <4>3. QED
        BY <2>3, <2>4, <4>1, <4>2 DEF AddOn
    <3>2. CASE n # m /\ n \in 1..Len(u)
      <4>1. n \in 1..Len(s) /\ u[n] = s[n] /\ s[n] \in Nat
        BY <2>1, <3>2
      <4>2. SumOver(s, B) = SumOver(s, A) + s[n]
        BY <1>2, <4>1
      <4>3. m \in B <=> m \in A
        BY <2>6, <3>2
      <4>4. CASE m \in A
        <5>1. SumOver(u, A) = SumOver(s, A) + e /\ SumOver(u, B) = SumOver(s, B) + e
          BY <2>3, <4>3, <4>4, Zenon DEF AddOn
        <5>2. s[n] \in Nat
          BY <4>1
        <5>3. QED
          BY <2>4, <4>1, <4>2, <5>1, <5>2
      <4>5. CASE m \notin A
        <5>1. SumOver(u, A) = SumOver(s, A) + 0 /\ SumOver(u, B) = SumOver(s, B) + 0
          BY <2>3, <4>3, <4>5, Zenon DEF AddOn
        <5>2. SumOver(u, A) = SumOver(s, A) /\ SumOver(u, B) = SumOver(s, B)
          BY <2>4, <5>1
        <5>3. QED
          BY <4>1, <4>2, <5>2
      <4>6. QED
        BY <4>4, <4>5
    <3>3. QED
      BY <3>1, <3>2
  <2>9. u \in D
    BY <2>1, <2>7, <2>8
  <2>10. QED
    BY <2>9 DEF u
<1> HIDE DEF D
<1>3. sizes \in D
  BY <1>1, <1>2, SeqInduction
<1>4. QED
  BY <1>3 DEF D

LEMMA SizeType ==
  ASSUME NEW m \in Messages
  PROVE  Size(m) \in Nat
<1>1. m.lines \in Seq(Lines)
  BY MessageIs
<1>2. \A l \in Lines : LineSize(l) \in Nat
  BY DEF LineSize, Lines, Open, Close
<1> DEFINE s == [i \in DOMAIN m.lines |-> LineSize(m.lines[i])]
<1>3. s \in Seq(Nat)
  <2>1. \A i \in 1..Len(m.lines) : m.lines[i] \in Lines
    BY <1>1
  <2>2. s \in [1..Len(m.lines) -> Nat] /\ Len(m.lines) \in Nat
    BY <1>1, <1>2, <2>1
  <2>3. QED
    BY <2>2
<1> HIDE DEF s
<1>4. SumOver(s, DOMAIN s) \in Nat
  BY <1>3, SumOverStep
<1>5. QED
  BY <1>4 DEF Size, SumOf, s

(***************************************************************************)
(* The prompt window: the list of the starts of turns is in order, a start *)
(* further on fits if an earlier one does, so the binary search finds the  *)
(* first that fits.                                                        *)
(***************************************************************************)
StartsOn(starts, e, n) ==
  IF n = 1 \/ e.kind = "user" THEN Append(starts, n) ELSE starts

LEMMA StartsOnType ==
  ASSUME NEW starts \in Seq(Nat), NEW e, NEW n \in Nat
  PROVE  StartsOn(starts, e, n) \in Seq(Nat)
BY AppendProperties DEF StartsOn

TurnStartsRuns(f, entries) ==
  f = [n \in 0..Len(entries) |-> IF n = 0 THEN <<>> ELSE StartsOn(f[n - 1], entries[n], n)]

LEMMA TurnStartsIs ==
  ASSUME NEW entries \in Seq(EntrySet)
  PROVE  \E f : TurnStartsRuns(f, entries) /\ TurnStarts(entries) = f[Len(entries)]
<1> DEFINE N == Len(entries)
           g == [n \in 1..N |-> [a \in Seq(Nat) |-> StartsOn(a, entries[n], n)]]
<1>1. N \in Nat /\ <<>> \in Seq(Nat)
  OBVIOUS
<1>2. \A n \in 1..N : \A a \in Seq(Nat) : StartsOn(a, entries[n], n) \in Seq(Nat)
  BY StartsOnType
<1>3. g \in Rounds(Seq(Nat), N)
  BY <1>2 DEF Rounds
<1>4. PICK f : f \in [0..N -> Seq(Nat)] /\ f[0] = <<>> /\ \A n \in 1..N : f[n] = g[n][f[n - 1]]
  <2> HIDE DEF g, N
  <2>1. \E f : Iterates(f, Seq(Nat), <<>>, N, g)
    BY <1>1, <1>3, RecursionUpTo
  <2>2. QED
    BY <2>1 DEF Iterates
<1>5. \A n \in 1..N : f[n] = StartsOn(f[n - 1], entries[n], n)
  <2> TAKE n \in 1..N
  <2>1. n - 1 \in 0..N
    BY <1>1
  <2>2. QED
    BY <1>4, <2>1
<1>6. f = [n \in 0..N |-> IF n = 0 THEN <<>> ELSE StartsOn(f[n - 1], entries[n], n)]
  <2>1. \A n \in 0..N : n = 0 \/ n \in 1..N
    BY <1>1
  <2> HIDE DEF N, g
  <2>2. \A n \in 0..N : f[n] = IF n = 0 THEN <<>> ELSE StartsOn(f[n - 1], entries[n], n)
    BY <1>4, <1>5, <2>1, Zenon
  <2>3. QED
    BY <1>4, <2>2
<1>7. TurnStartsRuns(f, entries)
  BY <1>6 DEF TurnStartsRuns, N
<1> HIDE DEF g, N
<1>8. TurnStartsRuns(CHOOSE h : TurnStartsRuns(h, entries), entries)
  BY <1>7
<1>9. TurnStarts(entries) = (CHOOSE h : TurnStartsRuns(h, entries))[Len(entries)]
  BY DEF TurnStarts, TurnStartsRuns, StartsOn
<1>10. QED
  BY <1>8, <1>9

LEMMA TurnStartsStep ==
  ASSUME NEW entries \in Seq(EntrySet)
  PROVE  /\ TurnStarts(entries) \in Seq(Nat)
         /\ TurnStarts(<<>>) = <<>>
         /\ \A e \in EntrySet :
              TurnStarts(Append(entries, e)) =
                StartsOn(TurnStarts(entries), Append(entries, e)[Len(entries) + 1], Len(entries) + 1)
<1> DEFINE N == Len(entries)
<1>1. N \in Nat /\ <<>> \in Seq(Nat) /\ <<>> \in Seq(EntrySet)
  OBVIOUS
<1>2. PICK f : TurnStartsRuns(f, entries) /\ TurnStarts(entries) = f[N]
  BY TurnStartsIs
<1>3. f[0] = <<>> /\ \A n \in 1..N : f[n] = StartsOn(f[n - 1], entries[n], n)
  <2>1. \A n \in 0..N : f[n] = IF n = 0 THEN <<>> ELSE StartsOn(f[n - 1], entries[n], n)
    BY <1>2, Zenon DEF TurnStartsRuns
  <2>2. 0 \in 0..N /\ \A n \in 1..N : n \in 0..N /\ n # 0
    BY <1>1
  <2>3. QED
    BY <2>1, <2>2, Zenon
<1>4. TurnStarts(entries) \in Seq(Nat)
  <2> DEFINE D == {n \in 0..N : f[n] \in Seq(Nat)}
  <2>1. 0 \in D
    <3>1. 0 \in 0..N /\ f[0] \in Seq(Nat)
      BY <1>1, <1>3
    <3>2. QED
      BY <3>1
  <2>2. ASSUME NEW n \in 1..N, n - 1 \in D
        PROVE  n \in D
    <3>1. StartsOn(f[n - 1], entries[n], n) \in Seq(Nat)
      BY <2>2, StartsOnType
    <3>2. QED
      BY <1>3, <3>1
  <2> HIDE DEF D, N
  <2>3. \A n \in 0..N : n \in D
    BY <1>1, <2>1, <2>2, InductionUpTo
  <2>4. QED
    BY <1>1, <1>2, <2>3 DEF D
<1>5. TurnStarts(<<>>) = <<>>
  <2>1. PICK h : TurnStartsRuns(h, <<>>) /\ TurnStarts(<<>>) = h[Len(<<>>)]
    BY <1>1, TurnStartsIs
  <2>2. QED
    BY <2>1 DEF TurnStartsRuns
<1>6. ASSUME NEW e \in EntrySet
      PROVE  TurnStarts(Append(entries, e)) =
               StartsOn(TurnStarts(entries), Append(entries, e)[Len(entries) + 1], Len(entries) + 1)
  <2> DEFINE t == Append(entries, e)
  <2>1. t \in Seq(EntrySet) /\ Len(t) = N + 1 /\ \A n \in 1..N : t[n] = entries[n]
    OBVIOUS
  <2> HIDE DEF t
  <2>2. PICK h : TurnStartsRuns(h, t) /\ TurnStarts(t) = h[N + 1]
    BY <2>1, TurnStartsIs
  <2>3. h[0] = <<>> /\ \A n \in 1..N + 1 : h[n] = StartsOn(h[n - 1], t[n], n)
    <3>1. \A n \in 0..N + 1 : h[n] = IF n = 0 THEN <<>> ELSE StartsOn(h[n - 1], t[n], n)
      BY <2>1, <2>2, Zenon DEF TurnStartsRuns
    <3>2. 0 \in 0..N + 1 /\ \A n \in 1..N + 1 : n \in 0..N + 1 /\ n # 0
      BY <1>1
    <3>3. QED
      BY <3>1, <3>2, Zenon
  <2> DEFINE D == {n \in 0..N : f[n] = h[n]}
  <2>4. 0 \in D
    BY <1>1, <1>3, <2>3
  <2>5. ASSUME NEW n \in 1..N, n - 1 \in D
        PROVE  n \in D
    <3>1. n \in 1..N + 1 /\ f[n - 1] = h[n - 1] /\ t[n] = entries[n]
      BY <1>1, <2>1, <2>5
    <3>2. h[n] = f[n]
      BY <1>3, <2>3, <3>1
    <3>3. QED
      BY <3>2
  <2>6. f[N] = h[N]
    <3> HIDE DEF D, N
    <3>1. \A n \in 0..N : n \in D
      BY <1>1, <2>4, <2>5, InductionUpTo
    <3>2. QED
      BY <1>1, <3>1 DEF D
  <2>7. N + 1 \in 1..N + 1 /\ (N + 1) - 1 = N
    BY <1>1
  <2>8. h[N + 1] = StartsOn(h[N], t[N + 1], N + 1)
    BY <2>3, <2>7
  <2>9. QED
    BY <1>2, <2>2, <2>6, <2>8 DEF t
<1>7. QED
  BY <1>4, <1>5, <1>6

IsStart(entries, n) == n \in 1..Len(entries) /\ (n = 1 \/ entries[n].kind = "user")

\* "starts" lists the starts of turns of "entries", in order.
Lists(starts, entries) ==
  /\ starts \in Seq(Nat)
  /\ \A i \in 1..Len(starts) : IsStart(entries, starts[i])
  /\ \A n : IsStart(entries, n) => \E i \in 1..Len(starts) : starts[i] = n
  /\ \A i, j \in 1..Len(starts) : i < j => starts[i] < starts[j]

\* build_prompt's list of the starts of turns is complete and in order.
LEMMA TurnStartsList ==
  ASSUME NEW entries \in Seq(EntrySet)
  PROVE  Lists(TurnStarts(entries), entries)
<1> DEFINE D == {s \in Seq(EntrySet) : Lists(TurnStarts(s), s)}
<1>1. <<>> \in D
  <2>1. <<>> \in Seq(EntrySet) /\ TurnStarts(<<>>) = <<>>
    BY TurnStartsStep
  <2>2. Lists(<<>>, <<>>)
    BY DEF Lists, IsStart
  <2>3. QED
    BY <2>1, <2>2
<1>2. ASSUME NEW s \in Seq(EntrySet), NEW e \in EntrySet, s \in D
      PROVE  Append(s, e) \in D
  <2> DEFINE u == Append(s, e)
             n == Len(s) + 1
             a == TurnStarts(s)
             b == TurnStarts(u)
             m == Len(a)
  <2>1. /\ u \in Seq(EntrySet) /\ Len(u) = n /\ Len(s) \in Nat /\ u[n] = e
        /\ \A i \in 1..Len(s) : u[i] = s[i]
    BY AppendProperties
  <2>2. b = StartsOn(a, u[n], n)
    BY TurnStartsStep
  <2>3. Lists(a, s)
    BY <1>2
  <2>4. a \in Seq(Nat) /\ m \in Nat
    BY <2>3 DEF Lists
  <2>5. /\ \A i \in 1..m : IsStart(s, a[i])
        /\ \A k : IsStart(s, k) => \E i \in 1..m : a[i] = k
        /\ \A i, j \in 1..m : i < j => a[i] < a[j]
    BY <2>3 DEF Lists
  <2> HIDE DEF u, a, b
  <2>6. \A k : IsStart(u, k) <=> IsStart(s, k) \/ (k = n /\ (n = 1 \/ e.kind = "user"))
    <3>1. ASSUME NEW k
          PROVE  IsStart(u, k) <=> IsStart(s, k) \/ (k = n /\ (n = 1 \/ e.kind = "user"))
      <4>1. CASE k = n
        BY <2>1, <4>1 DEF IsStart
      <4>2. CASE k # n
        <5>1. k \in 1..n <=> k \in 1..Len(s)
          BY <2>1, <4>2
        <5>2. k \in 1..Len(s) => u[k] = s[k]
          BY <2>1
        <5> HIDE DEF n
        <5>3. QED
          BY <2>1, <4>2, <5>1, <5>2, Zenon DEF IsStart
      <4>3. QED
        BY <4>1, <4>2
    <3>2. QED
      BY <3>1
  <2>7. Lists(b, u)
    <3>1. CASE n = 1 \/ e.kind = "user"
      <4>1. b = Append(a, n)
        BY <2>1, <2>2, <3>1, Zenon DEF StartsOn
      <4>2. /\ b \in Seq(Nat) /\ Len(b) = m + 1 /\ b[m + 1] = n
            /\ \A i \in 1..m : b[i] = a[i]
        BY <2>1, <2>4, <4>1, AppendProperties
      <4>3. \A i \in 1..m + 1 : i \in 1..m \/ i = m + 1
        BY <2>4
      <4>4. \A i \in 1..m : a[i] \in 1..Len(s)
        BY <2>5 DEF IsStart
      <4> HIDE DEF m
      <4>5. \A i \in 1..m + 1 : IsStart(u, b[i])
        <5> TAKE i \in 1..m + 1
        <5>1. CASE i \in 1..m
          BY <2>5, <2>6, <4>2, <5>1, Zenon
        <5>2. CASE i = m + 1
          BY <2>6, <3>1, <4>2, <5>2, Zenon
        <5>3. QED
          BY <4>3, <5>1, <5>2
      <4>6. \A k : IsStart(u, k) => \E i \in 1..m + 1 : b[i] = k
        <5>1. ASSUME NEW k, IsStart(u, k)
              PROVE  \E i \in 1..m + 1 : b[i] = k
          <6>1. CASE IsStart(s, k)
            <7>1. PICK i \in 1..m : a[i] = k
              BY <2>5, <6>1
            <7>2. i \in 1..m + 1 /\ b[i] = k
              BY <2>4, <4>2, <7>1 DEF m
            <7>3. QED
              BY <7>2
          <6>2. CASE k = n
            <7>1. m + 1 \in 1..m + 1
              BY <2>4 DEF m
            <7>2. QED
              BY <4>2, <6>2, <7>1
          <6>3. QED
            BY <2>6, <5>1, <6>1, <6>2
        <5>2. QED
          BY <5>1
      <4>7. \A i, j \in 1..m + 1 : i < j => b[i] < b[j]
        <5> TAKE i, j \in 1..m + 1
        <5>1. CASE j \in 1..m /\ i < j
          <6>1. i \in 1..m
            BY <2>4, <5>1 DEF m
          <6>2. QED
            BY <2>5, <4>2, <5>1, <6>1
        <5>2. CASE j = m + 1 /\ i < j
          <6>1. i \in 1..m
            BY <2>4, <5>2 DEF m
          <6>2. b[i] \in 1..Len(s) /\ b[j] = n
            BY <4>2, <4>4, <5>2, <6>1
          <6>3. QED
            BY <2>1, <6>2
        <5>3. QED
          BY <4>3, <5>1, <5>2
      <4>8. QED
        BY <4>2, <4>5, <4>6, <4>7 DEF Lists
    <3>2. CASE ~(n = 1 \/ e.kind = "user")
      <4>1. b = a
        BY <2>1, <2>2, <3>2, Zenon DEF StartsOn
      <4>2. \A k : IsStart(u, k) <=> IsStart(s, k)
        BY <2>6, <3>2
      <4>3. QED
        BY <2>3, <4>1, <4>2, Zenon DEF Lists
    <3>3. QED
      BY <3>1, <3>2
  <2>8. QED
    BY <2>1, <2>7 DEF u, b
<1> HIDE DEF D
<1>3. entries \in D
  BY <1>1, <1>2, SeqInduction
<1>4. QED
  BY <1>3 DEF D

Middle(lo, hi) == lo + ((hi - lo) \div 2)

LEMMA MiddleIs ==
  ASSUME NEW lo \in Int, NEW hi \in Int, lo < hi
  PROVE  Middle(lo, hi) \in lo..hi - 1 /\ Middle(lo, hi) \in Int
<1> DEFINE d == hi - lo
<1>1. d \in Nat /\ d >= 1
  OBVIOUS
<1>2. d \div 2 \in Int /\ 0 <= d \div 2 /\ d \div 2 < d
  <2> HIDE DEF d
  <2>1. QED
    BY <1>1
<1>3. QED
  BY <1>2 DEF Middle

\* The position the search is after: the first one in "T", or the last one
Best(lo, hi, T, i) ==
  /\ i \in lo..hi
  /\ i = hi \/ i \in T
  /\ \A j \in lo..i - 1 : j \notin T

UpwardClosed(N, T) == \A i, j \in 1..N : i \in T /\ i < j => j \in T

\* There is a first start that fits, or the last start.
LEMMA BestExists ==
  ASSUME NEW lo \in Nat, NEW hi \in Nat, lo <= hi, NEW T
  PROVE  \E i : Best(lo, hi, T, i)
<1> DEFINE R == {i \in lo..hi : i = hi \/ i \in T}
<1>1. R \in SUBSET Nat /\ hi \in R
  OBVIOUS
<1>2. PICK i \in R : \A j \in R : i <= j
  <2> HIDE DEF R
  <2>1. R # {}
    BY <1>1
  <2>2. QED
    BY <1>1, <2>1, LeastNatural
<1>3. i \in lo..hi /\ (i = hi \/ i \in T)
  BY <1>2
<1>4. \A j \in lo..i - 1 : j \notin T
  <2>1. ASSUME NEW j \in lo..i - 1, j \in T
        PROVE  FALSE
    <3>1. j \in lo..hi /\ ~(i <= j)
      BY <1>3
    <3>2. j \in R
      BY <2>1, <3>1
    <3>3. QED
      BY <1>2, <3>1, <3>2
  <2>2. QED
    BY <2>1
<1>5. QED
  BY <1>3, <1>4 DEF Best

LEMMA BestUnique ==
  ASSUME NEW lo \in Nat, NEW hi \in Nat, NEW T, NEW i, NEW k, Best(lo, hi, T, i), Best(lo, hi, T, k)
  PROVE  i = k
<1>1. i \in lo..hi /\ k \in lo..hi /\ (i = hi \/ i \in T) /\ (k = hi \/ k \in T)
  BY DEF Best
<1>2. ~(i < k)
  <2>1. ASSUME i < k
        PROVE  FALSE
    <3>1. i \in lo..k - 1 /\ i # hi
      BY <1>1, <2>1
    <3>2. i \notin T
      BY <3>1 DEF Best
    <3>3. QED
      BY <1>1, <3>1, <3>2
  <2>2. QED
    BY <2>1
<1>3. ~(k < i)
  <2>1. ASSUME k < i
        PROVE  FALSE
    <3>1. k \in lo..i - 1 /\ k # hi
      BY <1>1, <2>1
    <3>2. k \notin T
      BY <3>1 DEF Best
    <3>3. QED
      BY <1>1, <3>1, <3>2
  <2>2. QED
    BY <2>1
<1>4. QED
  BY <1>1, <1>2, <1>3

\* Half of the range holds the position.
LEMMA BestHalf ==
  ASSUME NEW N \in Nat, NEW T, UpwardClosed(N, T),
         NEW lo \in 1..N, NEW hi \in 1..N, lo < hi, NEW i
  PROVE  /\ Middle(lo, hi) \in T /\ Best(lo, Middle(lo, hi), T, i) => Best(lo, hi, T, i)
         /\ Middle(lo, hi) \notin T /\ Best(Middle(lo, hi) + 1, hi, T, i) => Best(lo, hi, T, i)
<1> DEFINE mid == Middle(lo, hi)
<1>1. mid \in lo..hi - 1 /\ mid \in Int
  BY MiddleIs
<1> HIDE DEF mid
<1>2. ASSUME mid \in T, Best(lo, mid, T, i)
      PROVE  Best(lo, hi, T, i)
  <2>1. i \in lo..mid /\ i \in T /\ \A j \in lo..i - 1 : j \notin T
    BY <1>2 DEF Best
  <2>2. i \in lo..hi
    BY <1>1, <2>1
  <2>3. QED
    BY <2>1, <2>2 DEF Best
<1>3. ASSUME mid \notin T, Best(mid + 1, hi, T, i)
      PROVE  Best(lo, hi, T, i)
  <2>1. i \in mid + 1..hi /\ (i = hi \/ i \in T) /\ \A j \in mid + 1..i - 1 : j \notin T
    BY <1>3 DEF Best
  <2>2. i \in lo..hi
    BY <1>1, <2>1
  <2>3. ASSUME NEW j \in lo..i - 1
        PROVE  j \notin T
    <3>1. CASE j \in mid + 1..i - 1
      BY <2>1, <3>1
    <3>2. CASE j = mid
      BY <1>3, <3>2
    <3>3. CASE j < mid
      <4>1. j \in 1..N /\ mid \in 1..N
        BY <1>1, <2>2, <3>3
      <4>2. QED
        BY <1>3, <3>3, <4>1 DEF UpwardClosed
    <3>4. QED
      BY <1>1, <2>2, <3>1, <3>2, <3>3
  <2>4. QED
    BY <2>1, <2>2, <2>3 DEF Best
<1>4. QED
  BY <1>2, <1>3 DEF mid

Halves(f, starts, fitting) ==
  f = [range \in (1..Len(starts)) \X (1..Len(starts)) |->
        LET lo == range[1]
            hi == range[2]
            mid == lo + ((hi - lo) \div 2)
        IN  IF lo >= hi THEN lo
            ELSE f[IF starts[mid] \in fitting THEN <<lo, mid>> ELSE <<mid + 1, hi>>]]

Searches(f, N, T) ==
  f = [range \in (1..N) \X (1..N) |->
         IF range[1] >= range[2] THEN range[1]
         ELSE f[IF Middle(range[1], range[2]) \in T THEN <<range[1], Middle(range[1], range[2])>>
                ELSE <<Middle(range[1], range[2]) + 1, range[2]>>]]

Fitting(starts, fitting) == {i \in 1..Len(starts) : starts[i] \in fitting}

LEMMA HalvesSearches ==
  ASSUME NEW f, NEW starts \in Seq(Nat), NEW fitting
  PROVE  Halves(f, starts, fitting) <=> Searches(f, Len(starts), Fitting(starts, fitting))
<1> DEFINE N == Len(starts)
           T == Fitting(starts, fitting)
           P == (1..N) \X (1..N)
           A(r) == IF r[1] >= r[2] THEN r[1]
                   ELSE f[IF starts[Middle(r[1], r[2])] \in fitting
                          THEN <<r[1], Middle(r[1], r[2])>> ELSE <<Middle(r[1], r[2]) + 1, r[2]>>]
           B(r) == IF r[1] >= r[2] THEN r[1]
                   ELSE f[IF Middle(r[1], r[2]) \in T
                          THEN <<r[1], Middle(r[1], r[2])>> ELSE <<Middle(r[1], r[2]) + 1, r[2]>>]
<1>1. DOMAIN starts = 1..N /\ N \in Nat
  OBVIOUS
<1>2. ASSUME NEW r \in P
      PROVE  A(r) = B(r)
  <2>1. r[1] \in 1..N /\ r[2] \in 1..N
    OBVIOUS
  <2>2. CASE r[1] >= r[2]
    BY <2>2
  <2>3. CASE ~(r[1] >= r[2])
    <3> DEFINE mid == Middle(r[1], r[2])
    <3>1. r[1] \in Int /\ r[2] \in Int /\ r[1] < r[2]
      BY <1>1, <2>1, <2>3
    <3>2. mid \in r[1]..r[2] - 1
      BY <3>1, MiddleIs
    <3> HIDE DEF mid
    <3>3. mid \in 1..N
      BY <1>1, <2>1, <3>2
    <3>4. mid \in T <=> starts[mid] \in fitting
      BY <3>3 DEF Fitting
    <3>5. QED
      BY <3>4 DEF mid
  <2>4. QED
    BY <2>2, <2>3
<1>3. Halves(f, starts, fitting) <=> f = [r \in P |-> A(r)]
  BY DEF Halves, Middle
<1>4. Searches(f, N, T) <=> f = [r \in P |-> B(r)]
  BY DEF Searches
<1> HIDE DEF A, B, P, N, T
<1>5. [r \in P |-> A(r)] = [r \in P |-> B(r)]
  BY <1>2
<1>6. QED
  BY <1>3, <1>4, <1>5, Zenon DEF N, T

LEMMA SearchExists ==
  ASSUME NEW N \in Nat, NEW T, UpwardClosed(N, T)
  PROVE  \E f : Searches(f, N, T)
<1> DEFINE P == (1..N) \X (1..N)
           best(lo, hi) == CHOOSE i : Best(lo, hi, T, i)
           f == [r \in P |-> IF r[1] >= r[2] THEN r[1] ELSE best(r[1], r[2])]
           B(r) == IF r[1] >= r[2] THEN r[1]
                   ELSE f[IF Middle(r[1], r[2]) \in T
                          THEN <<r[1], Middle(r[1], r[2])>> ELSE <<Middle(r[1], r[2]) + 1, r[2]>>]
<1>1. ASSUME NEW lo \in 1..N, NEW hi \in 1..N, lo <= hi
      PROVE  Best(lo, hi, T, best(lo, hi))
  BY <1>1, BestExists
<1>2. ASSUME NEW lo \in 1..N, NEW hi \in 1..N, lo <= hi
      PROVE  Best(lo, hi, T, f[<<lo, hi>>])
  <2>1. CASE lo = hi
    <3>1. f[<<lo, hi>>] = lo
      BY <2>1
    <3>2. Best(lo, hi, T, lo)
      BY <2>1 DEF Best
    <3>3. QED
      BY <3>1, <3>2
  <2>2. CASE lo # hi
    <3>1. f[<<lo, hi>>] = best(lo, hi)
      BY <1>2, <2>2
    <3>2. QED
      BY <1>1, <1>2, <3>1
  <2>3. QED
    BY <2>1, <2>2
<1> HIDE DEF f, best
<1>3. ASSUME NEW r \in P
      PROVE  f[r] = B(r)
  <2> DEFINE lo == r[1]
             hi == r[2]
             mid == Middle(lo, hi)
  <2>1. lo \in 1..N /\ hi \in 1..N /\ r = <<lo, hi>>
    OBVIOUS
  <2>2. CASE lo >= hi
    BY <2>2 DEF f
  <2>3. CASE ~(lo >= hi)
    <3>1. lo \in Int /\ hi \in Int /\ lo < hi
      BY <2>1, <2>3
    <3>2. mid \in lo..hi - 1
      BY <3>1, MiddleIs
    <3>3. Best(lo, hi, T, f[<<lo, hi>>])
      BY <1>2, <2>1, <3>1
    <3> DEFINE k == IF mid \in T THEN f[<<lo, mid>>] ELSE f[<<mid + 1, hi>>]
    <3>4. Best(lo, hi, T, k)
      <4>1. CASE mid \in T
        <5>1. mid \in 1..N /\ lo <= mid
          BY <2>1, <3>1, <3>2
        <5>2. Best(lo, mid, T, f[<<lo, mid>>])
          BY <1>2, <2>1, <5>1
        <5> HIDE DEF lo, hi
        <5>3. Best(lo, hi, T, f[<<lo, mid>>])
          BY <2>1, <3>1, <4>1, <5>2, BestHalf
        <5>4. QED
          BY <4>1, <5>3
      <4>2. CASE mid \notin T
        <5>1. mid + 1 \in 1..N /\ mid + 1 <= hi
          BY <2>1, <3>1, <3>2
        <5>2. Best(mid + 1, hi, T, f[<<mid + 1, hi>>])
          BY <1>2, <2>1, <5>1
        <5> HIDE DEF lo, hi
        <5>3. Best(lo, hi, T, f[<<mid + 1, hi>>])
          BY <2>1, <3>1, <4>2, <5>2, BestHalf
        <5>4. QED
          BY <4>2, <5>3
      <4>3. QED
        BY <4>1, <4>2
    <3>5. lo \in Nat /\ hi \in Nat
      BY <2>1
    <3> HIDE DEF lo, hi, k
    <3>6. f[<<lo, hi>>] = k
      BY <3>3, <3>4, <3>5, BestUnique
    <3>7. QED
      BY <2>1, <2>3, <3>6, Zenon DEF k, lo, hi, mid
  <2>4. QED
    BY <2>2, <2>3
<1>4. f = [r \in P |-> B(r)]
  <2>1. f = [r \in P |-> f[r]]
    BY DEF f
  <2> HIDE DEF P, B
  <2>2. QED
    BY <1>3, <2>1
<1>5. Searches(f, N, T)
  BY <1>4 DEF Searches
<1>6. QED
  BY <1>5

\* The binary search ends at it, from any range that holds it.
LEMMA SearchBest ==
  ASSUME NEW N \in Nat, NEW T, UpwardClosed(N, T), NEW f, Searches(f, N, T),
         NEW a \in 1..N, NEW b \in 1..N, a <= b
  PROVE  Best(a, b, T, f[<<a, b>>])
<1> DEFINE Good(lo, hi) == Best(lo, hi, T, f[<<lo, hi>>])
           D == {d \in 0..N : \A lo, hi \in 1..N : lo <= hi /\ hi - lo <= d => Good(lo, hi)}
<1>1. ASSUME NEW lo \in 1..N, NEW hi \in 1..N
      PROVE  f[<<lo, hi>>] = IF lo >= hi THEN lo
                             ELSE f[IF Middle(lo, hi) \in T THEN <<lo, Middle(lo, hi)>>
                                    ELSE <<Middle(lo, hi) + 1, hi>>]
  <2>1. <<lo, hi>> \in (1..N) \X (1..N) /\ <<lo, hi>>[1] = lo /\ <<lo, hi>>[2] = hi
    OBVIOUS
  <2> DEFINE r == <<lo, hi>>
  <2> HIDE DEF r
  <2>2. r \in (1..N) \X (1..N) /\ r[1] = lo /\ r[2] = hi
    BY <2>1 DEF r
  <2>3. f[r] = IF r[1] >= r[2] THEN r[1]
               ELSE f[IF Middle(r[1], r[2]) \in T THEN <<r[1], Middle(r[1], r[2])>>
                      ELSE <<Middle(r[1], r[2]) + 1, r[2]>>]
    BY <2>2, Zenon DEF Searches
  <2>4. QED
    BY <2>2, <2>3, Zenon DEF r
<1>2. ASSUME NEW lo \in 1..N
      PROVE  Good(lo, lo)
  <2>1. f[<<lo, lo>>] = lo
    <3>1. lo >= lo
      OBVIOUS
    <3>2. QED
      BY <1>1, <3>1, Zenon
  <2>2. Best(lo, lo, T, lo)
    BY DEF Best
  <2>3. QED
    BY <2>1, <2>2, Zenon
<1> HIDE DEF Good
<1>3. 0 \in D
  <2>1. ASSUME NEW lo \in 1..N, NEW hi \in 1..N, lo <= hi, hi - lo <= 0
        PROVE  Good(lo, hi)
    <3>1. lo = hi
      BY <2>1
    <3>2. QED
      BY <1>2, <3>1
  <2>2. QED
    BY <2>1
<1>4. ASSUME NEW d \in 1..N, d - 1 \in D
      PROVE  d \in D
  <2>1. ASSUME NEW lo \in 1..N, NEW hi \in 1..N, lo < hi, hi - lo <= d
        PROVE  Good(lo, hi)
    <3> DEFINE mid == Middle(lo, hi)
    <3>1. mid \in lo..hi - 1
      BY <2>1, MiddleIs
    <3> HIDE DEF mid
    <3>2. CASE mid \in T
      <4>1. mid \in 1..N /\ lo <= mid /\ mid - lo <= d - 1
        BY <2>1, <3>1
      <4>2. Good(lo, mid)
        BY <1>4, <4>1
      <4>3. f[<<lo, hi>>] = f[<<lo, mid>>]
        <5>1. ~(lo >= hi)
          BY <2>1
        <5>2. QED
          BY <1>1, <3>2, <5>1, Zenon DEF mid
      <4>4. Best(lo, hi, T, f[<<lo, mid>>])
        BY <2>1, <3>2, <4>2, BestHalf DEF Good, mid
      <4>5. QED
        BY <4>3, <4>4 DEF Good
    <3>3. CASE mid \notin T
      <4>1. mid + 1 \in 1..N /\ mid + 1 <= hi /\ hi - (mid + 1) <= d - 1
        BY <2>1, <3>1
      <4>2. Good(mid + 1, hi)
        BY <1>4, <4>1
      <4>3. f[<<lo, hi>>] = f[<<mid + 1, hi>>]
        <5>1. ~(lo >= hi)
          BY <2>1
        <5>2. QED
          BY <1>1, <3>3, <5>1, Zenon DEF mid
      <4>4. Best(lo, hi, T, f[<<mid + 1, hi>>])
        BY <2>1, <3>3, <4>2, BestHalf DEF Good, mid
      <4>5. QED
        BY <4>3, <4>4 DEF Good
    <3>4. QED
      BY <3>2, <3>3
  <2>2. ASSUME NEW lo \in 1..N, NEW hi \in 1..N, lo <= hi, hi - lo <= d
        PROVE  Good(lo, hi)
    <3>1. lo = hi \/ lo < hi
      BY <2>2
    <3>2. QED
      BY <1>2, <2>1, <2>2, <3>1
  <2>3. QED
    BY <2>2
<1> HIDE DEF D
<1>5. \A d \in 0..N : d \in D
  BY <1>3, <1>4, InductionUpTo
<1>6. N \in D /\ b - a <= N
  BY <1>5
<1>7. Good(a, b)
  BY <1>6 DEF D
<1>8. QED
  BY <1>7 DEF Good

\* build_prompt's search, from the range it starts with.
LEMMA FirstFittingIs ==
  ASSUME NEW starts \in Seq(Nat), starts # <<>>, NEW fitting,
         UpwardClosed(Len(starts), Fitting(starts, fitting))
  PROVE  \E first \in 1..Len(starts), i \in 1..Len(starts) :
           /\ first = IF Len(starts) > MaxMessages THEN Len(starts) - MaxMessages + 1 ELSE 1
           /\ Best(first, Len(starts), Fitting(starts, fitting), i)
           /\ FirstFitting(starts, fitting) = starts[i]
<1> DEFINE N == Len(starts)
           T == Fitting(starts, fitting)
           first == IF N > MaxMessages THEN N - MaxMessages + 1 ELSE 1
           f == CHOOSE h : Halves(h, starts, fitting)
           i == f[<<first, N>>]
<1>1. N \in Nat /\ N >= 1
  OBVIOUS
<1>2. MaxMessages \in Nat /\ MaxMessages >= 1
  BY LimitsAssumption
<1>3. first \in 1..N /\ N \in 1..N /\ first <= N
  BY <1>1, <1>2
<1> HIDE DEF N, T, first
<1>4. Searches(f, N, T)
  <2>1. PICK h : Searches(h, N, T)
    <3>1. UpwardClosed(N, T)
      BY DEF N, T
    <3>2. QED
      BY <1>1, <3>1, SearchExists
  <2>2. Halves(h, starts, fitting)
    BY <2>1, HalvesSearches DEF N, T
  <2>3. Halves(f, starts, fitting)
    BY <2>2, Zenon
  <2>4. QED
    BY <2>3, HalvesSearches DEF N, T
<1>5. FirstFitting(starts, fitting) = starts[i]
  BY DEF FirstFitting, Halves, N, first
<1> HIDE DEF f
<1>6. Best(first, N, T, i)
  <2>1. UpwardClosed(N, T)
    BY DEF N, T
  <2>2. QED
    BY <1>1, <1>3, <1>4, <2>1, SearchBest
<1>7. i \in 1..N
  BY <1>1, <1>3, <1>6 DEF Best
<1> HIDE DEF i
<1>8. QED
  BY <1>3, <1>5, <1>6, <1>7 DEF N, T, first

LEMMA MinIsThat ==
  ASSUME NEW N \in Nat, NEW T \in SUBSET (1..N), NEW n \in T, \A m \in T : n <= m
  PROVE  Min(T) = n
<1>1. \A x \in T : (\A y \in T : x =< y) => x = n
  OBVIOUS
<1>2. QED
  BY <1>1 DEF Min

Sizes(entries) == [i \in DOMAIN entries |-> Size(ToLegacy(entries[i]))]

LEMMA SizesAre ==
  ASSUME NEW entries \in Seq(EntrySet)
  PROVE  Sizes(entries) \in Seq(Nat) /\ Len(Sizes(entries)) = Len(entries)
<1>1. \A i \in 1..Len(entries) : Size(ToLegacy(entries[i])) \in Nat
  <2> TAKE i \in 1..Len(entries)
  <2>1. entries[i] \in EntrySet
    OBVIOUS
  <2>2. ToLegacy(entries[i]) \in Messages
    BY <2>1, ToLegacyType
  <2>3. QED
    BY <2>2, SizeType
<1> DEFINE s == Sizes(entries)
<1>2. s \in [1..Len(entries) -> Nat] /\ Len(entries) \in Nat
  BY <1>1 DEF Sizes
<1> HIDE DEF s
<1>3. s \in Seq(Nat) /\ Len(s) = Len(entries)
  BY <1>2, IsASeq, LenProperties
<1>4. QED
  BY <1>3 DEF s

LEMMA SizeFromFalls ==
  ASSUME NEW entries \in Seq(EntrySet), NEW a \in Nat, NEW b \in Nat, a <= b
  PROVE  SizeFrom(entries, b) <= SizeFrom(entries, a)
<1> DEFINE s == Sizes(entries)
           n == Len(entries)
<1>1. s \in Seq(Nat) /\ n \in Nat
  BY SizesAre
<1>2. SizeFrom(entries, b) = SumOver(s, b..n) /\ SizeFrom(entries, a) = SumOver(s, a..n)
  BY DEF SizeFrom, Sizes
<1>3. \A i \in DOMAIN s : i \in b..n => i \in a..n
  BY <1>1
<1> HIDE DEF s, n
<1>4. SumOver(s, b..n) <= SumOver(s, a..n)
  BY <1>1, <1>3, SumGrows
<1>5. QED
  BY <1>2, <1>4

\* Less is left from a later start, so it fits if an earlier one does.
LEMMA FitsUpward ==
  ASSUME NEW entries \in Seq(EntrySet), NEW starts, Lists(starts, entries)
  PROVE  UpwardClosed(Len(starts), Fitting(starts, {s \in DOMAIN entries : SizeFrom(entries, s) <= MaxPromptChars}))
<1> DEFINE fitting == {s \in DOMAIN entries : SizeFrom(entries, s) <= MaxPromptChars}
           N == Len(starts)
<1>1. ASSUME NEW i \in 1..N, NEW j \in 1..N, i \in Fitting(starts, fitting), i < j
      PROVE  j \in Fitting(starts, fitting)
  <2>1. starts[i] \in fitting
    BY <1>1 DEF Fitting
  <2>2. starts[i] < starts[j] /\ starts[i] \in 1..Len(entries) /\ starts[j] \in 1..Len(entries)
    BY <1>1 DEF Lists, IsStart
  <2> DEFINE a == starts[i]
             b == starts[j]
  <2>3. a \in Nat /\ b \in Nat /\ a <= b
    BY <2>2
  <2> HIDE DEF a, b
  <2>4. SizeFrom(entries, b) <= SizeFrom(entries, a)
    BY <2>3, SizeFromFalls
  <2>5. SizeFrom(entries, a) \in Nat /\ SizeFrom(entries, b) \in Nat
    BY SizesAre, SumOverStep DEF SizeFrom, Sizes
  <2>6. SizeFrom(entries, b) <= MaxPromptChars
    BY <2>1, <2>4, <2>5, LimitsAssumption DEF a
  <2>7. starts[j] \in fitting
    BY <2>2, <2>6 DEF b
  <2>8. QED
    BY <2>7 DEF Fitting
<1>2. QED
  BY <1>1 DEF UpwardClosed

\* The number of starts from one of them on
LEMMA StartsFrom ==
  ASSUME NEW N \in Nat, NEW starts \in Seq(Nat), Len(starts) = N,
         \A i, j \in 1..N : i < j => starts[i] < starts[j], NEW k \in 1..N
  PROVE  Cardinality({t \in {starts[i] : i \in 1..N} : t >= starts[k]}) = N - k + 1
<1> DEFINE T == {t \in {starts[i] : i \in 1..N} : t >= starts[k]}
           m == N - k + 1
           f == [j \in 1..m |-> starts[k + j - 1]]
<1>1. m \in Nat /\ m >= 1 /\ \A j \in 1..m : k + j - 1 \in 1..N /\ k + j - 1 >= k
  OBVIOUS
<1>2. \A i \in 1..N : starts[i] \in Nat
  OBVIOUS
<1>3. \A i \in 1..N : starts[i] >= starts[k] <=> i >= k
  <2> TAKE i \in 1..N
  <2>1. CASE i < k
    <3>1. starts[i] < starts[k]
      BY <2>1
    <3>2. QED
      BY <1>2, <2>1, <3>1
  <2>2. CASE i = k
    BY <1>2, <2>2
  <2>3. CASE i > k
    <3>1. starts[k] < starts[i]
      BY <2>3
    <3>2. QED
      BY <1>2, <2>3, <3>1
  <2>4. QED
    BY <2>1, <2>2, <2>3
<1>4. f \in [1..m -> T]
  BY <1>1, <1>3
<1>5. \A a, b \in 1..m : f[a] = f[b] => a = b
  <2> TAKE a, b \in 1..m
  <2>1. ASSUME a < b
        PROVE  f[a] < f[b]
    BY <1>1, <2>1
  <2>2. ASSUME b < a
        PROVE  f[b] < f[a]
    BY <1>1, <2>2
  <2>3. f[a] \in Nat /\ f[b] \in Nat
    BY <1>1, <1>2
  <2> HIDE DEF f, m
  <2>4. QED
    BY <1>1, <2>1, <2>2, <2>3
<1>6. \A t \in T : \E j \in 1..m : f[j] = t
  <2> TAKE t \in T
  <2>1. PICK i \in 1..N : t = starts[i]
    OBVIOUS
  <2>2. i >= k
    BY <1>3, <2>1
  <2>3. i - k + 1 \in 1..m /\ k + (i - k + 1) - 1 = i
    BY <2>2
  <2>4. f[i - k + 1] = t
    BY <2>1, <2>3
  <2>5. QED
    BY <2>3, <2>4
<1> HIDE DEF f, T, m
<1>7. ExistsBijection(1..m, T)
  <2>1. f \in Bijection(1..m, T)
    BY <1>4, <1>5, <1>6 DEF Bijection, Injection, Surjection, IsInjective
  <2>2. QED
    BY <2>1 DEF ExistsBijection
<1>8. IsFiniteSet(1..m) /\ Cardinality(1..m) = m
  <2>1. 1 \in Int /\ m \in Int
    BY <1>1
  <2>2. IsFiniteSet(1..m) /\ Cardinality(1..m) = IF 1 > m THEN 0 ELSE m - 1 + 1
    BY <2>1, FS_Interval
  <2>3. QED
    BY <1>1, <2>2
<1>9. Cardinality(T) = m
  BY <1>7, <1>8, FS_Bijection
<1>10. QED
  BY <1>9 DEF T, m

StartSet(entries) == {s \in DOMAIN entries : s = 1 \/ entries[s].kind = "user"}

\* What WindowRight says of the window of "entries"
RightStarts(entries) ==
  LET starts == StartSet(entries)
      fits(s) == /\ Cardinality({t \in starts : t >= s}) <= MaxMessages
                 /\ SizeFrom(entries, s) <= MaxPromptChars
  IN  {s \in starts : fits(s)} \cup {Max(starts)}

LEMMA StartSetIs ==
  ASSUME NEW entries \in Seq(EntrySet), NEW L, Lists(L, entries)
  PROVE  /\ StartSet(entries) = {L[i] : i \in 1..Len(L)}
         /\ StartSet(entries) \in SUBSET (1..Len(entries))
<1>1. \A s : s \in StartSet(entries) <=> IsStart(entries, s)
  BY DEF StartSet, IsStart
<1>2. \A s : IsStart(entries, s) <=> s \in {L[i] : i \in 1..Len(L)}
  BY DEF Lists
<1>3. StartSet(entries) \in SUBSET (1..Len(entries))
  BY DEF StartSet
<1>4. QED
  BY <1>1, <1>2, <1>3

\* The window starts at a turn, the one WindowRight names.
LEMMA WindowIs ==
  ASSUME NEW entries \in Seq(EntrySet), entries # <<>>
  PROVE  \E k \in 1..Len(entries) :
           /\ Window(entries) = SubSeq(entries, k, Len(entries))
           /\ IsStart(entries, k)
           /\ k = Min(RightStarts(entries))
<1> DEFINE L == TurnStarts(entries)
           N == Len(L)
           fitting == {s \in DOMAIN entries : SizeFrom(entries, s) <= MaxPromptChars}
           T == Fitting(L, fitting)
           S == StartSet(entries)
<1>1. Lists(L, entries)
  BY TurnStartsList
<1>2. /\ L \in Seq(Nat) /\ N \in Nat
      /\ \A i \in 1..N : IsStart(entries, L[i])
      /\ \A n : IsStart(entries, n) => \E i \in 1..N : L[i] = n
      /\ \A i, j \in 1..N : i < j => L[i] < L[j]
  BY <1>1 DEF Lists
<1>3. L # <<>> /\ N >= 1
  <2>1. IsStart(entries, 1)
    BY DEF IsStart
  <2>2. PICK i \in 1..N : L[i] = 1
    BY <1>2, <2>1
  <2>3. QED
    BY <1>2, <2>2
<1>4. UpwardClosed(N, T)
  BY <1>1, FitsUpward
<1>5. PICK first \in 1..N, i \in 1..N :
        /\ first = IF N > MaxMessages THEN N - MaxMessages + 1 ELSE 1
        /\ Best(first, N, T, i)
        /\ FirstFitting(L, fitting) = L[i]
  BY <1>2, <1>3, <1>4, FirstFittingIs
<1>6. Window(entries) = SubSeq(entries, L[i], Len(entries))
  BY <1>5 DEF Window
<1>7. IsStart(entries, L[i]) /\ L[i] \in 1..Len(entries)
  BY <1>2 DEF IsStart
<1>8. S = {L[j] : j \in 1..N} /\ S \in SUBSET (1..Len(entries)) /\ Len(entries) \in Nat
  BY <1>1, StartSetIs
<1>9. MaxMessages \in Nat /\ MaxMessages >= 1
  BY LimitsAssumption
<1>10. \A j \in 1..N : L[j] \in 1..Len(entries) /\ (L[j] \in fitting <=> SizeFrom(entries, L[j]) <= MaxPromptChars)
  BY <1>2 DEF IsStart
<1>11. \A j \in 1..N : j \in T <=> SizeFrom(entries, L[j]) <= MaxPromptChars
  BY <1>10 DEF Fitting
<1>12. \A j \in 1..N : Cardinality({t \in S : t >= L[j]}) = N - j + 1
  BY <1>2, <1>8, StartsFrom
<1>13. \A j, k \in 1..N : j <= k => L[j] <= L[k]
  <2> HIDE DEF L, N
  <2> TAKE j, k \in 1..N
  <2>1. L[j] \in Nat /\ L[k] \in Nat
    <3>1. L[j] \in 1..Len(entries) /\ L[k] \in 1..Len(entries)
      BY <1>10
    <3>2. QED
      BY <1>8, <3>1
  <2>2. CASE j = k
    BY <2>1, <2>2
  <2>3. CASE j < k
    <3>1. L[j] < L[k]
      BY <1>2, <2>3
    <3>2. QED
      BY <2>1, <3>1
  <2>4. QED
    BY <1>2, <2>2, <2>3
<1> HIDE DEF L, N, fitting, T, S
<1>14. Max(S) = L[N]
  <2>1. N \in 1..N
    BY <1>2, <1>3
  <2>2. L[N] \in S /\ \A m \in S : m <= L[N]
    BY <1>8, <1>13, <2>1
  <2>3. QED
    BY <1>8, <2>2, MaxIsThat
<1> DEFINE R == RightStarts(entries)
<1>15. \A s : s \in R <=>
         \/ s \in S /\ Cardinality({t \in S : t >= s}) <= MaxMessages /\ SizeFrom(entries, s) <= MaxPromptChars
         \/ s = L[N]
  BY <1>14 DEF RightStarts, S
<1> HIDE DEF R
<1>16. \A j \in 1..N : L[j] \in R <=> (j \in T /\ N - j + 1 <= MaxMessages) \/ L[j] = L[N]
  <2> TAKE j \in 1..N
  <2>1. L[j] \in S /\ Cardinality({t \in S : t >= L[j]}) = N - j + 1
    BY <1>8, <1>12
  <2>2. j \in T <=> SizeFrom(entries, L[j]) <= MaxPromptChars
    BY <1>11
  <2>3. QED
    BY <1>15, <2>1, <2>2
<1>17. R \in SUBSET (1..Len(entries)) /\ \A s \in R : \E j \in 1..N : s = L[j]
  <2>1. N \in 1..N /\ L[N] \in S
    BY <1>2, <1>3, <1>8
  <2>2. \A s \in R : s \in S
    BY <1>15, <2>1
  <2>3. QED
    BY <1>8, <2>2
<1>18. first <= i /\ (i = N \/ i \in T) /\ \A j \in first..i - 1 : j \notin T
  BY <1>5 DEF Best
<1>19. L[i] \in R
  <2>1. i = N \/ N - i + 1 <= MaxMessages
    BY <1>2, <1>5, <1>9, <1>18
  <2>2. CASE i = N
    BY <1>15, <2>2
  <2>3. CASE i # N
    BY <1>16, <1>18, <2>1, <2>3
  <2>4. QED
    BY <2>2, <2>3
<1>20. \A s \in R : L[i] <= s
  <2> TAKE s \in R
  <2>1. PICK j \in 1..N : s = L[j]
    BY <1>17
  <2>2. CASE i <= j
    BY <1>13, <2>1, <2>2
  <2>3. CASE j < i
    <3>1. CASE L[j] = L[N]
      <4>1. L[i] <= L[N]
        BY <1>2, <1>3, <1>13
      <4>2. QED
        BY <2>1, <3>1, <4>1
    <3>2. CASE j \in T /\ N - j + 1 <= MaxMessages
      <4>1. j \in first..i - 1
        BY <1>2, <1>5, <1>9, <2>3, <3>2
      <4>2. QED
        BY <1>18, <3>2, <4>1
    <3>3. QED
      BY <1>16, <2>1, <3>1, <3>2
  <2>4. QED
    BY <1>2, <2>2, <2>3
<1>21. Min(R) = L[i]
  BY <1>8, <1>17, <1>19, <1>20, MinIsThat
<1>22. QED
  BY <1>6, <1>7, <1>21 DEF R

LEMMA SuffixIs ==
  ASSUME NEW S, NEW s \in Seq(S), NEW k \in 1..Len(s)
  PROVE  IsSuffix(SubSeq(s, k, Len(s)), s)
<1> DEFINE t == SubSeq(s, k, Len(s))
           n == Len(s)
           m == n - k + 1
           a == Reverse(t)
           b == Reverse(s)
<1>1. /\ n \in Nat /\ m \in Nat /\ m >= 1 /\ m <= n
      /\ t \in Seq(S) /\ Len(t) = m /\ \A i \in 1..m : t[i] = s[k + i - 1]
  BY SubSeqProperties
<1>2. /\ \A i \in 1..m : (m - i) + 1 \in 1..m /\ k + ((m - i) + 1) - 1 = (n - i) + 1
      /\ \A i \in 1..n : (n - i) + 1 \in 1..n
      /\ \A i \in 1..m : i \in 1..n
  BY <1>1
<1> HIDE DEF t, n, m
<1>3. /\ a = [i \in 1..m |-> t[(m - i) + 1]]
      /\ b = [i \in 1..n |-> s[(n - i) + 1]]
  BY <1>1 DEF Reverse, n
<1>4. /\ a \in [1..m -> S] /\ b \in [1..n -> S]
  <2>1. \A i \in 1..m : t[i] \in S
    BY <1>1
  <2>2. \A i \in 1..n : s[i] \in S
    BY DEF n
  <2>3. QED
    BY <1>2, <1>3, <2>1, <2>2
<1>5. /\ a \in Seq(S) /\ Len(a) = m /\ b \in Seq(S) /\ Len(b) = n
  BY <1>1, <1>4, IsASeq, LenProperties
<1>6. \A i \in 1..m : a[i] = b[i]
  <2> TAKE i \in 1..m
  <2>1. a[i] = t[(m - i) + 1] /\ b[i] = s[(n - i) + 1]
    BY <1>2, <1>3
  <2>2. t[(m - i) + 1] = s[k + ((m - i) + 1) - 1]
    BY <1>1, <1>2
  <2>3. QED
    BY <1>2, <2>1, <2>2
<1> HIDE DEF a, b
<1>7. SubSeq(a, 1, m) = SubSeq(b, 1, m)
  <2>1. /\ SubSeq(a, 1, m) \in Seq(S) /\ Len(SubSeq(a, 1, m)) = m
        /\ \A i \in 1..m : SubSeq(a, 1, m)[i] = a[i]
    BY <1>1, <1>5
  <2>2. /\ SubSeq(b, 1, m) \in Seq(S) /\ Len(SubSeq(b, 1, m)) = m
        /\ \A i \in 1..m : SubSeq(b, 1, m)[i] = b[i]
    BY <1>1, <1>5
  <2> DEFINE x == SubSeq(a, 1, m)
             y == SubSeq(b, 1, m)
  <2>3. /\ x \in Seq(S) /\ y \in Seq(S) /\ Len(x) = m /\ Len(y) = m
        /\ \A i \in 1..m : x[i] = y[i]
    BY <1>6, <2>1, <2>2
  <2> HIDE DEF x, y
  <2>4. x = y
    BY <2>3, SeqEqual
  <2>5. QED
    BY <2>4 DEF x, y
<1>8. IsPrefix(a, b)
  BY <1>1, <1>5, <1>7 DEF IsPrefix
<1>9. QED
  BY <1>8 DEF IsSuffix, a, b, t

LEMMA LastTurnIs ==
  ASSUME NEW entries \in Seq(EntrySet)
  PROVE  \E w \in Seq(EntrySet) :
           /\ entries = w \o LastTurn(entries)
           /\ LastTurn(entries) \in Seq(EntrySet) /\ OnlyFirst(LastTurn(entries))
<1> DEFINE ts == Turns(entries)
<1>1. /\ ts \in Seq(Seq(EntrySet)) /\ Grouped(ts) /\ WithoutTurns(ts, {}) = entries
      /\ ts = <<>> <=> entries = <<>>
  BY TurnsStep, TurnsAre
<1>2. CASE entries = <<>>
  <2>1. LastTurn(entries) = <<>>
    BY <1>2 DEF LastTurn
  <2>2. <<>> \in Seq(EntrySet) /\ OnlyFirst(<<>>)
    BY DEF OnlyFirst
  <2>3. <<>> = <<>> \o <<>>
    OBVIOUS
  <2>4. QED
    BY <1>2, <2>1, <2>2, <2>3
<1>3. CASE entries # <<>>
  <2>1. PICK front \in Seq(Seq(EntrySet)), last \in Seq(EntrySet) : ts = Append(front, last)
    BY <1>1, <1>3, SequenceEmptyOrAppend
  <2>2. ts[Len(ts)] = last
    BY <2>1, AppendProperties
  <2>3. LastTurn(entries) = last
    BY <1>3, <2>2, Zenon DEF LastTurn
  <2> DEFINE w == WithoutTurns(front, {})
  <2>4. w \in Seq(EntrySet) /\ JoinsNext(front, last, {})
    BY WithoutAppend
  <2>5. entries = w \o last
    BY <1>1, <2>1, <2>4, Zenon DEF JoinsNext, JoinsOn
  <2>6. OnlyFirst(last)
    <3>1. GroupedOn(front, last)
      BY GroupedAppend
    <3>2. TurnLike(last, front = <<>>)
      BY <1>1, <2>1, <3>1, Zenon DEF GroupedOn
    <3>3. QED
      BY <3>2 DEF TurnLike, OnlyFirst
  <2> HIDE DEF w
  <2>7. QED
    BY <2>3, <2>4, <2>5, <2>6
<1>4. QED
  BY <1>2, <1>3

\* The call of the result at j: in its turn, the last one of its id.
CallOf(entries, j, c) ==
  /\ c \in 1..j - 1
  /\ entries[c].kind = "call" /\ entries[c].id = entries[j].id /\ entries[c].name = entries[j].name
  /\ \A k \in c + 1..j - 1 : ~(entries[k].kind = "call" /\ entries[k].id = entries[j].id)
  /\ \A k \in c + 1..j : entries[k].kind # "user"

Named(e) == e.kind = "result" /\ e.id # NoId

IndexPaired(entries) ==
  \A j \in 1..Len(entries) : Named(entries[j]) => \E c : CallOf(entries, j, c)

LEMMA CallOfLast ==
  ASSUME NEW s \in Seq(EntrySet), NEW e \in EntrySet, Named(e), Follows(LastTurn(s), e)
  PROVE  \E c : CallOf(Append(s, e), Len(s) + 1, c)
<1>1. PICK w \in Seq(EntrySet) :
        /\ s = w \o LastTurn(s)
        /\ LastTurn(s) \in Seq(EntrySet) /\ OnlyFirst(LastTurn(s))
  BY LastTurnIs
<1> DEFINE l == LastTurn(s)
           u == Append(s, e)
           n == Len(s)
           m == Len(w)
           p == Len(l)
<1>2. /\ n \in Nat /\ u[n + 1] = e /\ \A i \in 1..n : u[i] = s[i]
  BY AppendProperties
<1>3. /\ m \in Nat /\ p \in Nat /\ n = m + p
      /\ \A i \in 1..p : s[m + i] = l[i]
  <2> HIDE DEF l
  <2>1. l \in Seq(EntrySet) /\ s = w \o l
    BY <1>1 DEF l
  <2>2. QED
    BY <2>1, ConcatProperties
<1>4. e.kind = "result" /\ e.id # NoId /\ Called(l, p, e.id, e.name)
  BY DEF Named, Follows
<1>5. PICK c \in 1..p :
        /\ l[c].kind = "call" /\ l[c].id = e.id /\ l[c].name = e.name
        /\ \A k \in c + 1..p : ~(l[k].kind = "call" /\ l[k].id = e.id)
  BY <1>4 DEF Called
<1>6. \A k \in 2..p : l[k].kind # "user"
  BY <1>1 DEF OnlyFirst
<1> HIDE DEF l, u, n, m, p
<1>7. /\ \A k \in m + c + 1..n : k - m \in c + 1..p /\ k - m \in 2..p /\ k - m \in 1..p /\ m + (k - m) = k /\ k \in 1..n
      /\ m + c \in 1..n /\ n + 1 - 1 = n
  BY <1>2, <1>3
<1>8. \A k \in m + c + 1..n : u[k] = l[k - m]
  <2> TAKE k \in m + c + 1..n
  <2>1. u[k] = s[k]
    BY <1>2, <1>7
  <2>2. s[m + (k - m)] = l[k - m]
    BY <1>3, <1>7
  <2>3. QED
    BY <1>7, <2>1, <2>2
<1>9. u[m + c] = l[c]
  BY <1>2, <1>3, <1>7
<1>10. \A k \in m + c + 1..n : ~(u[k].kind = "call" /\ u[k].id = e.id) /\ u[k].kind # "user"
  <2> TAKE k \in m + c + 1..n
  <2>1. u[k] = l[k - m] /\ k - m \in c + 1..p /\ k - m \in 2..p
    BY <1>7, <1>8
  <2>2. QED
    BY <1>5, <1>6, <2>1
<1>11. \A k \in m + c + 1..n + 1 : u[k].kind # "user"
  <2> TAKE k \in m + c + 1..n + 1
  <2>1. CASE k \in m + c + 1..n
    BY <1>10, <2>1
  <2>2. CASE k = n + 1
    BY <1>2, <1>4, <2>2
  <2>3. QED
    BY <1>2, <1>3, <2>1, <2>2
<1>12. CallOf(u, n + 1, m + c)
  BY <1>2, <1>5, <1>7, <1>9, <1>10, <1>11 DEF CallOf
<1>13. QED
  BY <1>12 DEF u, n

LEMMA CallOfEarlier ==
  ASSUME NEW s \in Seq(EntrySet), NEW e \in EntrySet, NEW j \in 1..Len(s), NEW c, CallOf(s, j, c)
  PROVE  CallOf(Append(s, e), j, c)
<1> DEFINE u == Append(s, e)
           n == Len(s)
<1>1. n \in Nat /\ \A i \in 1..n : u[i] = s[i]
  BY AppendProperties
<1>2. c \in 1..j - 1
  BY DEF CallOf
<1> HIDE DEF u, n
<1>3. j \in 1..n
  BY DEF n
<1>4. /\ c \in 1..n /\ \A k \in c + 1..j - 1 : k \in 1..n
      /\ \A k \in c + 1..j : k \in 1..n
  BY <1>1, <1>2, <1>3
<1>5. /\ u[c] = s[c] /\ u[j] = s[j] /\ \A k \in c + 1..j - 1 : u[k] = s[k]
      /\ \A k \in c + 1..j : u[k] = s[k]
  BY <1>1, <1>3, <1>4
<1>6. CallOf(u, j, c)
  <2>1. /\ s[c].kind = "call" /\ s[c].id = s[j].id /\ s[c].name = s[j].name
        /\ \A k \in c + 1..j - 1 : ~(s[k].kind = "call" /\ s[k].id = s[j].id)
        /\ \A k \in c + 1..j : s[k].kind # "user"
    BY DEF CallOf
  <2>2. \A k \in c + 1..j - 1 : ~(u[k].kind = "call" /\ u[k].id = u[j].id)
    BY <1>5, <2>1
  <2>3. \A k \in c + 1..j : u[k].kind # "user"
    BY <1>5, <2>1
  <2>4. QED
    BY <1>2, <1>5, <2>1, <2>2, <2>3, Zenon DEF CallOf
<1>7. QED
  BY <1>6 DEF u

\* Results find their calls in the whole history, by position.
LEMMA PairedIndex ==
  ASSUME NEW entries \in Seq(EntrySet), TurnsPaired(entries)
  PROVE  IndexPaired(entries)
<1> DEFINE D == {s \in Seq(EntrySet) : TurnsPaired(s) => IndexPaired(s)}
<1>1. <<>> \in D
  BY DEF IndexPaired
<1>2. ASSUME NEW s \in Seq(EntrySet), NEW e \in EntrySet, s \in D
      PROVE  Append(s, e) \in D
  <2> DEFINE u == Append(s, e)
             n == Len(s)
  <2>1. u \in Seq(EntrySet) /\ Len(u) = n + 1 /\ n \in Nat /\ u[n + 1] = e /\ \A i \in 1..n : u[i] = s[i]
    BY AppendProperties
  <2>2. PairedUpTo(s, e)
    BY TurnsPairedAppend
  <2>3. ASSUME TurnsPaired(u)
        PROVE  IndexPaired(u)
    <3>1. TurnsPaired(s) /\ (e.kind # "user" => Follows(LastTurn(s), e))
      BY <2>2, <2>3, Zenon DEF PairedUpTo
    <3>2. IndexPaired(s)
      BY <1>2, <3>1
    <3> HIDE DEF u
    <3>3. ASSUME NEW j \in 1..n + 1, Named(u[j])
          PROVE  \E c : CallOf(u, j, c)
      <4>1. CASE j \in 1..n
        <5>1. Named(s[j])
          BY <2>1, <3>3, <4>1
        <5>2. PICK c : CallOf(s, j, c)
          BY <3>2, <4>1, <5>1 DEF IndexPaired
        <5>3. CallOf(u, j, c)
          BY <4>1, <5>2, CallOfEarlier DEF u
        <5>4. QED
          BY <5>3
      <4>2. CASE j = n + 1
        <5>1. Named(e) /\ Follows(LastTurn(s), e)
          BY <2>1, <3>1, <3>3, <4>2 DEF Named
        <5>2. \E c : CallOf(u, n + 1, c)
          BY <5>1, CallOfLast DEF u
        <5>3. QED
          BY <4>2, <5>2
      <4>3. QED
        BY <2>1, <4>1, <4>2
    <3>4. QED
      BY <2>1, <3>3 DEF IndexPaired
  <2> HIDE DEF u
  <2>4. u \in D
    BY <2>1, <2>3
  <2>5. QED
    BY <2>4 DEF u
<1> HIDE DEF D
<1>3. entries \in D
  BY <1>1, <1>2, SeqInduction
<1>4. QED
  BY <1>3 DEF D

(***************************************************************************)
(* What is pushed in one round keeps the two forms telling the same.       *)
(***************************************************************************)
Histories == [canonical : Seq(EntrySet), legacy : Seq(Messages), dirty : BOOLEAN]

LEMMA PushEntryType ==
  ASSUME NEW h \in Histories, NEW e \in EntrySet
  PROVE  PushEntry(h, e) \in Histories
<1>1. Append(h.canonical, e) \in Seq(EntrySet) /\ Append(h.legacy, ToLegacy(e)) \in Seq(Messages)
  BY ToLegacyType, AppendProperties DEF Histories
<1>2. QED
  BY <1>1 DEF PushEntry, Histories

PushAllRuns(f, start, entries) ==
  f = [n \in 0..Len(entries) |-> IF n = 0 THEN start ELSE PushEntry(f[n - 1], entries[n])]

LEMMA PushAllIs ==
  ASSUME NEW start \in Histories, NEW entries \in Seq(EntrySet)
  PROVE  \E f : PushAllRuns(f, start, entries) /\ PushAll(start, entries) = f[Len(entries)]
<1> DEFINE N == Len(entries)
           g == [n \in 1..N |-> [a \in Histories |-> PushEntry(a, entries[n])]]
<1>1. N \in Nat /\ start \in Histories
  OBVIOUS
<1>2. \A n \in 1..N : \A a \in Histories : PushEntry(a, entries[n]) \in Histories
  BY PushEntryType
<1>3. g \in Rounds(Histories, N)
  BY <1>2 DEF Rounds
<1>4. PICK f : f \in [0..N -> Histories] /\ f[0] = start /\ \A n \in 1..N : f[n] = g[n][f[n - 1]]
  <2> HIDE DEF g, N
  <2>1. \E f : Iterates(f, Histories, start, N, g)
    BY <1>1, <1>3, RecursionUpTo
  <2>2. QED
    BY <2>1 DEF Iterates
<1>5. \A n \in 1..N : f[n] = PushEntry(f[n - 1], entries[n])
  <2> TAKE n \in 1..N
  <2>1. n - 1 \in 0..N
    BY <1>1
  <2>2. QED
    BY <1>4, <2>1
<1>6. f = [n \in 0..N |-> IF n = 0 THEN start ELSE PushEntry(f[n - 1], entries[n])]
  <2>1. \A n \in 0..N : n = 0 \/ n \in 1..N
    BY <1>1
  <2> HIDE DEF N, g
  <2>2. \A n \in 0..N : f[n] = IF n = 0 THEN start ELSE PushEntry(f[n - 1], entries[n])
    BY <1>4, <1>5, <2>1, Zenon
  <2>3. QED
    BY <1>4, <2>2
<1>7. PushAllRuns(f, start, entries)
  BY <1>6 DEF PushAllRuns, N
<1> HIDE DEF g, N
<1>8. PushAllRuns(CHOOSE h : PushAllRuns(h, start, entries), start, entries)
  BY <1>7
<1>9. PushAll(start, entries) = (CHOOSE h : PushAllRuns(h, start, entries))[Len(entries)]
  BY DEF PushAll, PushAllRuns
<1>10. QED
  BY <1>8, <1>9

LEMMA PushAllStep ==
  ASSUME NEW start \in Histories, NEW entries \in Seq(EntrySet)
  PROVE  /\ PushAll(start, entries) \in Histories
         /\ PushAll(start, <<>>) = start
         /\ \A e \in EntrySet :
              PushAll(start, Append(entries, e)) =
                PushEntry(PushAll(start, entries), Append(entries, e)[Len(entries) + 1])
<1> DEFINE N == Len(entries)
<1>1. N \in Nat /\ start \in Histories /\ <<>> \in Seq(EntrySet)
  OBVIOUS
<1>2. PICK f : PushAllRuns(f, start, entries) /\ PushAll(start, entries) = f[N]
  BY PushAllIs
<1>3. f[0] = start /\ \A n \in 1..N : f[n] = PushEntry(f[n - 1], entries[n])
  <2>1. \A n \in 0..N : f[n] = IF n = 0 THEN start ELSE PushEntry(f[n - 1], entries[n])
    BY <1>2, Zenon DEF PushAllRuns
  <2>2. 0 \in 0..N /\ \A n \in 1..N : n \in 0..N /\ n # 0
    BY <1>1
  <2>3. QED
    BY <2>1, <2>2, Zenon
<1>4. PushAll(start, entries) \in Histories
  <2> DEFINE D == {n \in 0..N : f[n] \in Histories}
  <2>1. 0 \in D
    <3>1. 0 \in 0..N /\ f[0] \in Histories
      BY <1>1, <1>3
    <3>2. QED
      BY <3>1
  <2>2. ASSUME NEW n \in 1..N, n - 1 \in D
        PROVE  n \in D
    <3>1. PushEntry(f[n - 1], entries[n]) \in Histories
      BY <2>2, PushEntryType
    <3>2. QED
      BY <1>3, <3>1
  <2> HIDE DEF D, N
  <2>3. \A n \in 0..N : n \in D
    BY <1>1, <2>1, <2>2, InductionUpTo
  <2>4. QED
    BY <1>1, <1>2, <2>3 DEF D
<1>5. PushAll(start, <<>>) = start
  <2>1. PICK h : PushAllRuns(h, start, <<>>) /\ PushAll(start, <<>>) = h[Len(<<>>)]
    BY <1>1, PushAllIs
  <2>2. QED
    BY <2>1 DEF PushAllRuns
<1>6. ASSUME NEW e \in EntrySet
      PROVE  PushAll(start, Append(entries, e)) =
               PushEntry(PushAll(start, entries), Append(entries, e)[Len(entries) + 1])
  <2> DEFINE t == Append(entries, e)
  <2>1. t \in Seq(EntrySet) /\ Len(t) = N + 1 /\ \A n \in 1..N : t[n] = entries[n]
    OBVIOUS
  <2> HIDE DEF t
  <2>2. PICK h : PushAllRuns(h, start, t) /\ PushAll(start, t) = h[N + 1]
    BY <2>1, PushAllIs
  <2>3. h[0] = start /\ \A n \in 1..N + 1 : h[n] = PushEntry(h[n - 1], t[n])
    <3>1. \A n \in 0..N + 1 : h[n] = IF n = 0 THEN start ELSE PushEntry(h[n - 1], t[n])
      BY <2>1, <2>2, Zenon DEF PushAllRuns
    <3>2. 0 \in 0..N + 1 /\ \A n \in 1..N + 1 : n \in 0..N + 1 /\ n # 0
      BY <1>1
    <3>3. QED
      BY <3>1, <3>2, Zenon
  <2> DEFINE D == {n \in 0..N : f[n] = h[n]}
  <2>4. 0 \in D
    BY <1>1, <1>3, <2>3
  <2>5. ASSUME NEW n \in 1..N, n - 1 \in D
        PROVE  n \in D
    <3>1. n \in 1..N + 1 /\ f[n - 1] = h[n - 1] /\ t[n] = entries[n]
      BY <1>1, <2>1, <2>5
    <3>2. h[n] = f[n]
      BY <1>3, <2>3, <3>1
    <3>3. QED
      BY <3>2
  <2>6. f[N] = h[N]
    <3> HIDE DEF D, N
    <3>1. \A n \in 0..N : n \in D
      BY <1>1, <2>4, <2>5, InductionUpTo
    <3>2. QED
      BY <1>1, <3>1 DEF D
  <2>7. N + 1 \in 1..N + 1 /\ (N + 1) - 1 = N
    BY <1>1
  <2>8. h[N + 1] = PushEntry(h[N], t[N + 1])
    BY <2>3, <2>7
  <2>9. QED
    BY <1>2, <2>2, <2>6, <2>8 DEF t
<1>7. QED
  BY <1>4, <1>5, <1>6

PushesOn(h, es, e) == PushAll(h, Append(es, e)) = PushEntry(PushAll(h, es), e)

LEMMA PushAppend ==
  ASSUME NEW h \in Histories, NEW es \in Seq(EntrySet), NEW e \in EntrySet
  PROVE  PushesOn(h, es, e)
<1>1. PushAll(h, Append(es, e)) = PushEntry(PushAll(h, es), Append(es, e)[Len(es) + 1])
  BY PushAllStep
<1>2. Append(es, e)[Len(es) + 1] = e
  BY AppendProperties
<1>3. QED
  BY <1>1, <1>2, Zenon DEF PushesOn

\* Entries that can be said after any others
Free(e) == Settled(e) /\ ~Named(e)
AllFree(es) == \A i \in DOMAIN es : Free(es[i])

FreeOn(es, e) == AllFree(Append(es, e)) <=> AllFree(es) /\ Free(e)

LEMMA FreeAppend ==
  ASSUME NEW S, NEW es \in Seq(S), NEW e \in S
  PROVE  FreeOn(es, e)
<1> DEFINE u == Append(es, e)
           n == Len(es)
<1>1. /\ n \in Nat /\ DOMAIN u = 1..n + 1 /\ DOMAIN es = 1..n
      /\ u[n + 1] = e /\ \A i \in 1..n : u[i] = es[i]
  BY AppendProperties
<1>2. \A i : i \in 1..n + 1 <=> i \in 1..n \/ i = n + 1
  BY <1>1
<1> HIDE DEF u, n
<1>3. AllFree(u) <=> AllFree(es) /\ Free(e)
  BY <1>1, <1>2, Zenon DEF AllFree
<1>4. QED
  BY <1>3, Zenon DEF u, FreeOn

SaysAll(h, s, es) == Tells(PushAll(h, es).legacy, s \o es)

\* Entries pushed one after the other (History::push of a list).
LEMMA TellsPushAll ==
  ASSUME NEW h \in Histories, NEW s \in Seq(EntrySet), Tells(h.legacy, s),
         NEW es \in Seq(EntrySet), AllFree(es)
  PROVE  SaysAll(h, s, es)
<1> DEFINE D == {x \in Seq(EntrySet) : AllFree(x) => SaysAll(h, s, x)}
<1>1. <<>> \in D
  <2>1. <<>> \in Seq(EntrySet) /\ s \o <<>> = s
    BY ConcatEmptySeq
  <2>2. PushAll(h, <<>>) = h
    BY <2>1, PushAllStep
  <2>3. SaysAll(h, s, <<>>)
    BY <2>1, <2>2, Zenon DEF SaysAll
  <2>4. QED
    BY <2>1, <2>3
<1>2. ASSUME NEW x \in Seq(EntrySet), NEW e \in EntrySet, x \in D
      PROVE  Append(x, e) \in D
  <2> DEFINE u == Append(x, e)
             g == PushAll(h, x)
             v == s \o x
  <2>1. u \in Seq(EntrySet)
    BY AppendProperties
  <2>2. ASSUME AllFree(u)
        PROVE  SaysAll(h, s, u)
    <3>1. AllFree(x) /\ Free(e)
      BY <2>2, FreeAppend, Zenon DEF FreeOn
    <3>2. SaysAll(h, s, x)
      BY <1>2, <3>1
    <3>3. g \in Histories
      BY PushAllStep
    <3>4. v \in Seq(EntrySet)
      BY ConcatProperties
    <3>5. Moves(s, x, e)
      BY AppendBehind
    <3>6. PushesOn(h, x, e)
      BY PushAppend
    <3> HIDE DEF g, v
    <3>7. g.legacy \in Seq(Messages) /\ Tells(g.legacy, v)
      BY <3>2, <3>3 DEF SaysAll, g, v, Histories
    <3>8. Sayable(v, e)
      BY <3>1 DEF Sayable, Free, Named, Follows
    <3>9. TellsOn(g.legacy, v, e)
      BY <3>4, <3>7, <3>8, TellsPush
    <3>10. PushEntry(g, e).legacy = Append(g.legacy, ToLegacy(e))
      BY DEF PushEntry
    <3>11. QED
      BY <3>5, <3>6, <3>9, <3>10, Zenon DEF Moves, PushesOn, TellsOn, SaysAll, g, v
  <2> HIDE DEF u
  <2>3. u \in D
    BY <2>1, <2>2
  <2>4. QED
    BY <2>3 DEF u
<1> HIDE DEF D
<1>3. es \in D
  BY <1>1, <1>2, SeqInduction
<1>4. QED
  BY <1>3 DEF D

LEMMA TellsPushOne ==
  ASSUME NEW h \in Histories, NEW s \in Seq(EntrySet), Tells(h.legacy, s), NEW e, Sayable(s, e)
  PROVE  SaysAll(h, s, <<e>>)
<1>1. e \in EntrySet /\ <<>> \in Seq(EntrySet) /\ Append(<<>>, e) = <<e>> /\ h.legacy \in Seq(Messages)
  BY DEF Sayable, Histories
<1>2. PushAll(h, <<>>) = h
  BY <1>1, PushAllStep
<1>3. PushesOn(h, <<>>, e)
  BY <1>1, PushAppend
<1>4. PushAll(h, <<e>>) = PushEntry(h, e)
  BY <1>1, <1>2, <1>3, Zenon DEF PushesOn
<1>5. TellsOn(h.legacy, s, e)
  BY <1>1, TellsPush
<1>6. s \o <<e>> = Append(s, e)
  BY <1>1, AppendIsConcat
<1>7. PushEntry(h, e).legacy = Append(h.legacy, ToLegacy(e))
  BY DEF PushEntry
<1>8. QED
  BY <1>4, <1>5, <1>6, <1>7, Zenon DEF SaysAll, TellsOn

(***************************************************************************)
(* The calls that wait for their results.                                  *)
(***************************************************************************)
Awaits(entries, call) ==
  Called(LastTurn(entries), Len(LastTurn(entries)), call.id, call.name)

StaysLast(s, e) == LastTurn(Append(s, e)) = Append(LastTurn(s), e)

LEMMA LastTurnAppend ==
  ASSUME NEW s \in Seq(EntrySet), s # <<>>, NEW e \in EntrySet, e.kind # "user"
  PROVE  StaysLast(s, e)
<1>1. StaysIn(EntrySet, s, e)
  BY NewTurn
<1>2. PICK f \in Seq(Seq(EntrySet)), l \in Seq(EntrySet) :
        /\ Turns(s) = Append(f, l) /\ LastTurn(s) = l
        /\ Turns(Append(s, e)) = Append(f, Append(l, e))
  BY <1>1, Zenon DEF StaysIn
<1>3. Append(l, e) \in Seq(EntrySet) /\ Append(s, e) # <<>>
  BY AppendProperties
<1> DEFINE t == Append(l, e)
           ts == Append(f, t)
<1>4. ts[Len(ts)] = t
  <2> HIDE DEF t
  <2>1. t \in Seq(EntrySet)
    BY <1>3 DEF t
  <2>2. QED
    BY <2>1, AppendProperties
<1> HIDE DEF t, ts
<1>5. LastTurn(Append(s, e)) = t
  BY <1>2, <1>3, <1>4, Zenon DEF LastTurn, t, ts
<1>6. QED
  BY <1>2, <1>5, Zenon DEF StaysLast, t

StillAwaits(s, e, call) ==
  Awaits(s, call) /\ ~(e.kind = "call" /\ e.id = call.id) => Awaits(Append(s, e), call)

\* A call still waits after another entry, unless that is a call of its id.
LEMMA AwaitsAppend ==
  ASSUME NEW s \in Seq(EntrySet), s # <<>>, NEW e \in EntrySet, e.kind # "user", NEW call
  PROVE  /\ StillAwaits(s, e, call)
         /\ e.kind = "call" => Awaits(Append(s, e), e)
<1> DEFINE l == LastTurn(s)
           u == Append(l, e)
           n == Len(l)
<1>1. l \in Seq(EntrySet) /\ LastTurn(Append(s, e)) = u
  BY LastTurnIs, LastTurnAppend, Zenon DEF StaysLast
<1>2. /\ n \in Nat /\ Len(u) = n + 1 /\ u[n + 1] = e /\ \A i \in 1..n : u[i] = l[i]
  <2> HIDE DEF l
  <2>1. QED
    BY <1>1, AppendProperties
<1> HIDE DEF l, u, n
<1>3. ASSUME Called(l, n, call.id, call.name), ~(e.kind = "call" /\ e.id = call.id)
      PROVE  Called(u, n + 1, call.id, call.name)
  <2>1. PICK c \in 1..n :
          /\ l[c].kind = "call" /\ l[c].id = call.id /\ l[c].name = call.name
          /\ \A k \in c + 1..n : ~(l[k].kind = "call" /\ l[k].id = call.id)
    BY <1>3 DEF Called
  <2>2. c \in 1..n + 1 /\ u[c] = l[c]
    BY <1>2
  <2>3. \A k \in c + 1..n + 1 : ~(u[k].kind = "call" /\ u[k].id = call.id)
    <3> TAKE k \in c + 1..n + 1
    <3>1. CASE k \in c + 1..n
      <4>1. u[k] = l[k]
        BY <1>2, <3>1
      <4>2. QED
        BY <2>1, <3>1, <4>1
    <3>2. CASE k = n + 1
      BY <1>2, <1>3, <3>2
    <3>3. QED
      BY <1>2, <3>1, <3>2
  <2>4. QED
    BY <2>1, <2>2, <2>3 DEF Called
<1>4. ASSUME e.kind = "call"
      PROVE  Called(u, n + 1, e.id, e.name)
  <2>1. n + 1 \in 1..n + 1 /\ \A k \in n + 1 + 1..n + 1 : FALSE
    BY <1>2
  <2> DEFINE c == n + 1
  <2>2. c \in 1..n + 1 /\ u[c] = e /\ \A k \in c + 1..n + 1 : FALSE
    BY <1>2, <2>1
  <2> HIDE DEF c
  <2>3. QED
    BY <1>4, <2>2 DEF Called
<1>5. Awaits(s, call) <=> Called(l, n, call.id, call.name)
  BY DEF Awaits, l, n
<1>6. \A d : Awaits(Append(s, e), d) <=> Called(u, n + 1, d.id, d.name)
  BY <1>1, <1>2, Zenon DEF Awaits
<1>7. QED
  BY <1>3, <1>4, <1>5, <1>6, Zenon DEF StillAwaits

\* Calls with ids of their own
OwnIds(es) ==
  /\ \A i \in DOMAIN es : es[i].kind = "call"
  /\ \A i, j \in DOMAIN es : i # j => es[i].id # es[j].id

AwaitsAll(s, es) == \A i \in DOMAIN es : Awaits(s \o es, es[i])

\* The calls of a round, all recorded before the first result, all wait.
LEMMA AwaitsCalls ==
  ASSUME NEW s \in Seq(EntrySet), s # <<>>, NEW es \in Seq(EntrySet), OwnIds(es)
  PROVE  AwaitsAll(s, es)
<1> DEFINE D == {x \in Seq(EntrySet) : OwnIds(x) => AwaitsAll(s, x)}
<1>1. <<>> \in D
  BY DEF AwaitsAll
<1>2. ASSUME NEW x \in Seq(EntrySet), NEW e \in EntrySet, x \in D
      PROVE  Append(x, e) \in D
  <2> DEFINE u == Append(x, e)
             n == Len(x)
             v == s \o x
  <2>1. /\ u \in Seq(EntrySet) /\ DOMAIN u = 1..n + 1 /\ DOMAIN x = 1..n /\ n \in Nat
        /\ u[n + 1] = e /\ \A i \in 1..n : u[i] = x[i]
    BY AppendProperties
  <2>2. Moves(s, x, e)
    BY AppendBehind
  <2>3. v \in Seq(EntrySet) /\ v # <<>>
    BY ConcatProperties
  <2>4. \A i \in 1..n : i \in 1..n + 1 /\ i # n + 1 /\ n + 1 \in 1..n + 1
    BY <2>1
  <2>5. n + 1 \in 1..n + 1 /\ \A i \in 1..n + 1 : i \in 1..n \/ i = n + 1
    BY <2>1
  <2> HIDE DEF u, n
  <2>6. ASSUME OwnIds(u)
        PROVE  AwaitsAll(s, u)
    <3>1. OwnIds(x)
      BY <2>1, <2>4, <2>6 DEF OwnIds
    <3>2. e.kind = "call" /\ \A i \in 1..n : e.id # x[i].id
      BY <2>1, <2>4, <2>5, <2>6 DEF OwnIds
    <3>3. \A i \in 1..n : Awaits(v, x[i])
      BY <1>2, <2>1, <3>1 DEF AwaitsAll
    <3> HIDE DEF v
    <3>4. \A call : StillAwaits(v, e, call)
      BY <2>3, <3>2, AwaitsAppend
    <3>5. Awaits(Append(v, e), e)
      BY <2>3, <3>2, AwaitsAppend
    <3>6. \A i \in 1..n : Awaits(Append(v, e), x[i])
      BY <3>2, <3>3, <3>4, Zenon DEF StillAwaits
    <3>7. s \o u = Append(v, e)
      BY <2>2, Zenon DEF Moves, u, v
    <3>8. \A i \in 1..n + 1 : Awaits(s \o u, u[i])
      <4> TAKE i \in 1..n + 1
      <4>1. CASE i \in 1..n
        BY <2>1, <3>6, <3>7, <4>1, Zenon
      <4>2. CASE i = n + 1
        BY <2>1, <3>5, <3>7, <4>2, Zenon
      <4>3. QED
        BY <2>5, <4>1, <4>2, Zenon
    <3>9. QED
      BY <2>1, <3>8, Zenon DEF AwaitsAll
  <2>7. u \in D
    BY <2>1, <2>6
  <2>8. QED
    BY <2>7 DEF u
<1> HIDE DEF D
<1>3. es \in D
  BY <1>1, <1>2, SeqInduction
<1>4. QED
  BY <1>3 DEF D

(***************************************************************************)
(* Compaction.                                                             *)
(***************************************************************************)
LEMMA EvictedOlder ==
  ASSUME NEW legacy \in Seq(Messages), NEW target
  PROVE  \A t \in Evicted(legacy, target) : t # Len(Turns(legacy))
<1> DEFINE ts == Turns(legacy)
           sizes == TurnSizes(ts)
           n == Len(ts)
<1>1. ts \in Seq(Seq(Messages)) /\ n \in Nat
  BY TurnsStep
<1>2. DOMAIN sizes = 1..n /\ Len(sizes) = n
  <2> HIDE DEF ts
  <2>1. DOMAIN ts = 1..n
    BY <1>1
  <2>2. sizes = [t \in 1..n |-> SumOf([i \in DOMAIN ts[t] |-> Size(ts[t][i])])]
    BY <2>1 DEF TurnSizes
  <2>3. QED
    BY <1>1, <2>2
<1> HIDE DEF ts, sizes, n
<1>3. PreserveTurns \in Nat /\ PreserveTurns >= 1
  BY LimitsAssumption
<1>4. \A t \in Older(sizes) : t # n
  BY <1>1, <1>2, <1>3 DEF Older
<1>5. Evicted(legacy, target) \in SUBSET Older(sizes)
  BY DEF Evicted, EvictedOf, sizes, ts
<1>6. QED
  BY <1>4, <1>5 DEF n, ts

\* The last turn stays.
LEMMA SomeLeft ==
  ASSUME NEW S, NEW turns \in Seq(Seq(S)), turns # <<>>, Grouped(turns), NEW gone,
         Len(turns) \notin gone
  PROVE  WithoutTurns(turns, gone) # <<>>
<1>1. PICK f \in Seq(Seq(S)), l \in Seq(S) : turns = Append(f, l)
  BY SequenceEmptyOrAppend
<1>2. Len(turns) = Len(f) + 1
  BY <1>1, AppendProperties
<1>3. WithoutTurns(f, gone) \in Seq(S) /\ JoinsNext(f, l, gone)
  BY WithoutAppend
<1>4. GroupedOn(f, l)
  BY GroupedAppend
<1>5. l # <<>>
  BY <1>1, <1>4, Zenon DEF GroupedOn, TurnLike
<1> DEFINE w == WithoutTurns(f, gone)
<1> HIDE DEF w
<1>6. WithoutTurns(turns, gone) = w \o l
  <2>1. Len(f) + 1 \notin gone
    BY <1>2
  <2>2. QED
    BY <1>1, <1>3, <2>1, Zenon DEF JoinsNext, JoinsOn, w
<1>7. w \o l # <<>>
  <2>1. w \in Seq(S)
    BY <1>3 DEF w
  <2>2. Len(l) # 0 /\ Len(w) \in Nat /\ Len(l) \in Nat /\ Len(w \o l) = Len(w) + Len(l)
    BY <1>5, <2>1
  <2>3. QED
    BY <2>2
<1>8. QED
  BY <1>6, <1>7

\* A compaction of the running copy keeps the two forms telling the same.
LEMMA CompactKeeps ==
  ASSUME NEW h \in Histories, NEW s \in Seq(EntrySet), s # <<>>, Tells(h.legacy, s), NEW target,
         NEW g, g = Compact(Touch(h), target)
  PROVE  LET w == WithoutTurns(Turns(s), Evicted(h.legacy, target))
         IN  /\ g \in Histories /\ g.dirty /\ w \in Seq(EntrySet) /\ w # <<>>
             /\ g.legacy = WithoutTurns(Turns(h.legacy), Evicted(h.legacy, target))
             /\ Tells(g.legacy, w)
<1> DEFINE a == Turns(h.legacy)
           b == Turns(s)
           gone == Evicted(h.legacy, target)
           w == WithoutTurns(b, gone)
           v == WithoutTurns(a, gone)
<1>1. h.legacy \in Seq(Messages) /\ h.canonical \in Seq(EntrySet)
  BY DEF Histories
<1>2. a \in Seq(Seq(Messages)) /\ b \in Seq(Seq(EntrySet)) /\ Grouped(a) /\ Grouped(b) /\ b # <<>>
  BY <1>1, TurnsStep, TurnsAre
<1>3. Matches(a, b)
  BY DEF Tells
<1>4. Len(b) \notin gone
  <2>1. Len(a) = Len(b)
    BY <1>3 DEF Matches
  <2>2. \A t \in gone : t # Len(a)
    BY <1>1, EvictedOlder
  <2>3. QED
    BY <2>1, <2>2
<1>5. /\ g.dirty = TRUE /\ g.canonical = h.canonical /\ g.legacy = v
      /\ g = [canonical |-> h.canonical, legacy |-> v, dirty |-> TRUE]
  BY DEF Compact, Touch, Histories
<1> HIDE DEF a, b, gone
<1>6. v \in Seq(Messages) /\ w \in Seq(EntrySet)
  BY <1>2, WithoutAppend, WithoutTurnsStep
<1>7. w # <<>>
  BY <1>2, <1>4, SomeLeft
<1>8. Tells(v, w)
  BY <1>2, <1>3, TellsCompact
<1> HIDE DEF v, w
<1>9. g \in Histories
  BY <1>1, <1>5, <1>6 DEF Histories
<1>10. QED
  BY <1>5, <1>6, <1>7, <1>8, <1>9, Zenon DEF v, w, a, b, gone

(***************************************************************************)
(* The invariant: both forms of a history tell what was said, and a call   *)
(* that waits is the last one of its id in the turn.                       *)
(***************************************************************************)
TypeOK ==
  /\ live \in Histories /\ mine \in Histories /\ file \in Histories
  /\ kept \in Seq(EntrySet) /\ said \in Seq(EntrySet) /\ waiting \in Seq(EntrySet)
  /\ phase \in {"idle", "round", "prompted", "tools", "done"}
  /\ round \in Nat

Clean(h, entries) == h.canonical = entries /\ h.dirty = FALSE /\ Tells(h.legacy, entries)

Waiting(call) == call.kind = "call" /\ call.id # NoId

IInv ==
  /\ TypeOK
  /\ Clean(live, kept) /\ Clean(file, kept)
  /\ Tells(mine.legacy, said)
  /\ phase = "idle" => said = kept
  /\ phase # "idle" => said # <<>>
  /\ phase = "prompted" => mine.dirty /\ prompt = Window(said)
  /\ phase = "tools" => waiting # <<>> /\ \A i \in DOMAIN waiting :
                          Waiting(waiting[i]) /\ Awaits(said, waiting[i])

\* Any file is a history to start with.
LEMMA InitInv == Init => IInv
<1> SUFFICES ASSUME Init PROVE IInv
  OBVIOUS
<1>1. PICK f \in Files : live = FromLegacy(f)
  BY DEF Init
<1>2. f \in Seq(Messages) /\ Tells(f, NormalizeLegacy(f))
  BY TellsFile
<1>3. NormalizeLegacy(f) \in Seq(EntrySet)
  BY <1>2, NormalizeType
<1>4. /\ live = [canonical |-> NormalizeLegacy(f), legacy |-> f, dirty |-> FALSE]
      /\ live.canonical = NormalizeLegacy(f) /\ live.legacy = f /\ live.dirty = FALSE
  BY <1>1 DEF FromLegacy
<1>5. live \in Histories
  BY <1>2, <1>3, <1>4 DEF Histories
<1>6. kept = NormalizeLegacy(f)
  BY <1>4 DEF Init, Entries
<1>7. file = live /\ mine = live /\ said = kept /\ phase = "idle" /\ round = 0 /\ waiting = <<>>
  BY DEF Init
<1>8. Clean(live, kept)
  BY <1>2, <1>4, <1>6 DEF Clean
<1>9. TypeOK
  BY <1>3, <1>5, <1>6, <1>7 DEF TypeOK
<1>10. Tells(mine.legacy, said)
  BY <1>2, <1>4, <1>6, <1>7
<1>11. QED
  BY <1>7, <1>8, <1>9, <1>10 DEF IInv

\* Whichever form the flag selects, the entries are what was said.
LEMMA EntriesAre ==
  ASSUME NEW h \in Histories, NEW s \in Seq(EntrySet), Tells(h.legacy, s), h.dirty \/ Clean(h, s)
  PROVE  Entries(h) = s
<1>1. h.legacy \in Seq(Messages)
  BY DEF Histories
<1>2. NormalizeLegacy(h.legacy) = s
  BY <1>1, TellsNormalize
<1>3. QED
  BY <1>2 DEF Entries, Clean

\* end_turn's normalize_legacy makes a copy clean without changing what it says.
LEMMA NormalizedClean ==
  ASSUME NEW h \in Histories, NEW s \in Seq(EntrySet), Tells(h.legacy, s)
  PROVE  Normalized(h) \in Histories /\ Clean(Normalized(h), s)
<1>1. h.legacy \in Seq(Messages) /\ h.canonical \in Seq(EntrySet)
  BY DEF Histories
<1>2. NormalizeLegacy(h.legacy) = s
  BY <1>1, TellsNormalize
<1>3. Normalized(h) = [h EXCEPT !.canonical = s, !.dirty = FALSE]
  BY <1>2 DEF Normalized
<1> DEFINE g == [h EXCEPT !.canonical = s, !.dirty = FALSE]
<1>4. g \in Histories
  BY <1>1 DEF Histories
<1>5. g.canonical = s /\ g.dirty = FALSE /\ g.legacy = h.legacy
  BY <1>1 DEF Histories
<1> HIDE DEF g
<1>6. Normalized(h) = g
  BY <1>3 DEF g
<1>7. QED
  BY <1>4, <1>5, <1>6 DEF Clean

\* So does a save and a load of a clean copy.
LEMMA SavedClean ==
  ASSUME NEW h \in Histories, NEW s \in Seq(EntrySet), Clean(h, s)
  PROVE  Saved(h) \in Histories /\ Clean(Saved(h), s)
<1>1. h.legacy \in Seq(Messages)
  BY DEF Histories
<1>2. Entries(h) = s /\ Tells(h.legacy, s)
  BY EntriesAre DEF Clean
<1>3. AllSettled(s) /\ TurnsPaired(s)
  BY <1>1, <1>2, TellsNormalize, TellsPaired
<1>4. AsText(s) \in Seq(Messages) /\ Tells(AsText(s), s)
  BY <1>3, AsTextType, TellsAsText
<1>5. Saved(h) = [canonical |-> s, legacy |-> AsText(s), dirty |-> FALSE]
  BY <1>2 DEF Saved, AsText
<1>6. QED
  BY <1>4, <1>5 DEF Histories, Clean

(***************************************************************************)
(* What the loop says.                                                     *)
(***************************************************************************)
LEMMA SpokenFree ==
  /\ \A text \in UserTexts : User(text) \in EntrySet /\ Free(User(text))
  /\ \A text \in Texts : Assistant(text) \in EntrySet /\ Free(Assistant(text))
<1>1. /\ UserTexts \subseteq Seq(Lines)
      /\ \A text \in Texts : text \in Seq(Lines) /\ Prose(text)
  BY TextsAssumption
<1>2. ASSUME NEW text
      PROVE  /\ User(text).kind = "user" /\ Assistant(text).kind = "assistant"
             /\ Assistant(text).text = text
  BY DEF User, Assistant, Entry
<1>3. ASSUME NEW text \in UserTexts PROVE User(text) \in EntrySet /\ Free(User(text))
  BY <1>1, <1>2, EntryTypes DEF Free, Settled, Named
<1>4. ASSUME NEW text \in Texts PROVE Assistant(text) \in EntrySet /\ Free(Assistant(text))
  BY <1>1, <1>2, EntryTypes DEF Free, Settled, Named
<1>5. QED
  BY <1>3, <1>4

LEMMA CanonicalIs ==
  ASSUME round \in Nat, NEW upstream \in Ids
  PROVE  /\ Canonical(upstream) \in AnyId /\ Canonical(upstream).upstream = upstream
         /\ Canonical(upstream) # NoId
<1>1. upstream \in Words /\ upstream # ""
  BY TextsAssumption
<1>2. Canonical(upstream) \in {Id(upstream, 0), Id(upstream, round)}
  BY DEF Canonical
<1>3. \A k \in Nat : Id(upstream, k) \in AnyId /\ Id(upstream, k).upstream = upstream
  BY <1>1 DEF Id, AnyId
<1>4. NoId.upstream = ""
  BY DEF NoId, Id
<1>5. QED
  BY <1>1, <1>2, <1>3, <1>4

LEMMA CallEntriesAre ==
  ASSUME round \in Nat, NEW calls \in RoundCalls
  PROVE  LET es == CallEntries(calls)
         IN  /\ es \in Seq(EntrySet) /\ OwnIds(es) /\ AllFree(es)
             /\ Len(es) = Len(calls) /\ calls \in Seq(Ids \X Names)
             /\ \A i \in DOMAIN es : Waiting(es[i])
<1> DEFINE es == CallEntries(calls)
           n == Len(calls)
<1>1. /\ calls \in Seq(Ids \X Names)
      /\ \A i, j \in DOMAIN calls : i # j => calls[i][1] # calls[j][1]
  <2>1. PICK m \in 0..MaxCalls : calls \in [1..m -> Ids \X Names]
    BY DEF RoundCalls, SeqOf
  <2>2. m \in Nat
    BY <2>1
  <2>3. calls \in Seq(Ids \X Names)
    BY <2>1, <2>2, IsASeq
  <2>4. QED
    BY <2>3 DEF RoundCalls
<1>2. n \in Nat /\ DOMAIN calls = 1..n /\ \A i \in 1..n : calls[i][1] \in Ids /\ calls[i][2] \in Names
  BY <1>1
<1>3. es = [i \in 1..n |-> ToolCall(Canonical(calls[i][1]), calls[i][2])]
  BY <1>2 DEF CallEntries
<1> HIDE DEF es, n
<1>4. Names \subseteq Words
  BY TextsAssumption
<1>5. \A id, name : ToolCall(id, name).kind = "call" /\ ToolCall(id, name).id = id
  BY DEF ToolCall, Entry
<1>6. \A i \in 1..n : /\ es[i] \in EntrySet /\ es[i].kind = "call"
                      /\ es[i].id = Canonical(calls[i][1])
  <2> TAKE i \in 1..n
  <2> DEFINE c == Canonical(calls[i][1])
  <2>1. c \in AnyId /\ calls[i][2] \in Words
    BY <1>2, <1>4, CanonicalIs
  <2>2. es[i] = ToolCall(c, calls[i][2])
    BY <1>3
  <2> HIDE DEF c
  <2>3. es[i] \in EntrySet /\ es[i].kind = "call" /\ es[i].id = c
    BY <1>5, <2>1, <2>2, EntryTypes
  <2>4. QED
    BY <2>3 DEF c
<1>7. es \in [1..n -> EntrySet]
  BY <1>3, <1>6
<1>8. es \in Seq(EntrySet) /\ Len(es) = n /\ DOMAIN es = 1..n
  BY <1>2, <1>7, IsASeq, LenProperties
<1>9. \A i \in 1..n : es[i].id # NoId /\ es[i].id.upstream = calls[i][1]
  BY <1>2, <1>6, CanonicalIs
<1>10. OwnIds(es)
  BY <1>1, <1>2, <1>6, <1>8, <1>9 DEF OwnIds
<1>11. AllFree(es)
  BY <1>6, <1>8, <1>9 DEF AllFree, Free, Settled, Named
<1>12. \A i \in DOMAIN es : Waiting(es[i])
  BY <1>6, <1>8, <1>9 DEF Waiting
<1>13. QED
  BY <1>1, <1>8, <1>10, <1>11, <1>12 DEF es, n

LEMMA TextEntriesAre ==
  ASSUME NEW text \in Texts \cup {<<>>}
  PROVE  TextEntries(text) \in Seq(EntrySet) /\ AllFree(TextEntries(text))
<1>1. CASE text = <<>>
  <2>1. <<>> \in Seq(EntrySet) /\ AllFree(<<>>)
    BY DEF AllFree
  <2>2. QED
    BY <1>1, <2>1 DEF TextEntries
<1>2. CASE text # <<>>
  <2> DEFINE e == Assistant(text)
  <2>1. e \in EntrySet /\ Free(e)
    BY <1>2, SpokenFree
  <2> HIDE DEF e
  <2>2. <<e>> \in Seq(EntrySet) /\ AllFree(<<e>>)
    BY <2>1 DEF AllFree
  <2>3. QED
    BY <1>2, <2>2 DEF TextEntries, e
<1>3. QED
  BY <1>1, <1>2

FreeJoined(x, y) == AllFree(x \o y)

LEMMA FreeJoin ==
  ASSUME NEW S, NEW x \in Seq(S), NEW y \in Seq(S), AllFree(x), AllFree(y)
  PROVE  FreeJoined(x, y)
<1> DEFINE z == x \o y
           m == Len(x)
           n == Len(y)
<1>1. /\ m \in Nat /\ n \in Nat /\ DOMAIN z = 1..m + n
      /\ \A i \in 1..m : z[i] = x[i]
      /\ \A i \in m + 1..m + n : z[i] = y[i - m] /\ i - m \in 1..n
  BY ConcatProperties
<1>2. /\ \A i \in 1..m : Free(x[i])
      /\ \A i \in 1..n : Free(y[i])
  BY DEF AllFree
<1> HIDE DEF z, m, n
<1>3. \A i \in 1..m + n : i \in 1..m \/ i \in m + 1..m + n
  BY <1>1
<1>4. \A i \in 1..m + n : Free(z[i])
  BY <1>1, <1>2, <1>3
<1>5. QED
  BY <1>1, <1>4 DEF FreeJoined, AllFree, z

\* What every step that pushes entries keeps
LEMMA SayKeeps ==
  ASSUME IInv, NEW es \in Seq(EntrySet), AllFree(es), Say(es), said # <<>>
  PROVE  /\ mine' \in Histories /\ said' \in Seq(EntrySet) /\ said' # <<>>
         /\ Tells(mine'.legacy, said')
<1>1. mine \in Histories /\ said \in Seq(EntrySet) /\ Tells(mine.legacy, said)
  BY DEF IInv, TypeOK
<1>2. mine' = PushAll(mine, es) /\ said' = said \o es
  BY DEF Say
<1>3. mine' \in Histories
  BY <1>1, <1>2, PushAllStep
<1>4. SaysAll(mine, said, es)
  BY <1>1, TellsPushAll
<1>5. Tells(mine'.legacy, said')
  BY <1>2, <1>4, Zenon DEF SaysAll
<1>6. Len(said') = Len(said) + Len(es) /\ said' \in Seq(EntrySet)
  BY <1>1, <1>2
<1>7. Len(said) # 0
  BY <1>1
<1>8. said' # <<>>
  <2>1. Len(said) \in Nat /\ Len(es) \in Nat
    BY <1>1
  <2>2. QED
    BY <1>6, <1>7, <2>1
<1>9. QED
  BY <1>3, <1>5, <1>6, <1>8

(***************************************************************************)
(* The invariant is kept, one lemma for each action.                       *)
(***************************************************************************)
\* The part of IInv about the committed history
CommittedOK ==
  /\ live \in Histories /\ file \in Histories /\ kept \in Seq(EntrySet)
  /\ Clean(live, kept) /\ Clean(file, kept)

\* The part of IInv about the turn's copy
RunningOK == mine \in Histories /\ said \in Seq(EntrySet) /\ Tells(mine.legacy, said)

\* The part of IInv about the calls that wait
WaitingOK ==
  /\ waiting \in Seq(EntrySet)
  /\ phase = "tools" => waiting # <<>> /\ \A i \in DOMAIN waiting :
                          Waiting(waiting[i]) /\ Awaits(said, waiting[i])

PhaseOK ==
  /\ phase \in {"idle", "round", "prompted", "tools", "done"}
  /\ round \in Nat
  /\ phase = "idle" => said = kept
  /\ phase # "idle" => said # <<>>
  /\ phase = "prompted" => mine.dirty /\ prompt = Window(said)

LEMMA InvParts == IInv <=> CommittedOK /\ RunningOK /\ WaitingOK /\ PhaseOK
BY DEF IInv, TypeOK, CommittedOK, RunningOK, WaitingOK, PhaseOK

LEMMA InvNext ==
  ASSUME CommittedOK', RunningOK', WaitingOK', PhaseOK'
  PROVE  IInv'
BY DEF IInv, TypeOK, CommittedOK, RunningOK, WaitingOK, PhaseOK

LEMMA CommittedKept ==
  ASSUME IInv, UNCHANGED Committed
  PROVE  CommittedOK'
<1>1. live' = live /\ kept' = kept /\ file' = file
  BY DEF Committed
<1>2. CommittedOK
  BY InvParts
<1>3. QED
  BY <1>1, <1>2 DEF CommittedOK

LEMMA StartTurnInv ==
  ASSUME IInv, NEW text \in UserTexts, StartTurn(text)
  PROVE  IInv'
<1> DEFINE e == User(text)
<1>1. CommittedOK /\ RunningOK /\ WaitingOK /\ PhaseOK
  BY InvParts
<1>2. CommittedOK'
  BY CommittedKept DEF StartTurn
<1>3. live \in Histories /\ live.legacy \in Seq(Messages) /\ kept \in Seq(EntrySet) /\ Tells(live.legacy, kept)
  BY <1>1 DEF CommittedOK, Histories, Clean
<1>4. e \in EntrySet /\ Settled(e) /\ e.kind = "user"
  BY SpokenFree, EntryKinds DEF Free
<1>5. TellsOn(live.legacy, kept, e)
  BY <1>3, <1>4, TellsPush DEF Sayable
<1>6. Message("user", text, Unread) = ToLegacy(e) /\ ToLegacy(e) \in Messages
  <2>1. ToLegacy(e) \in Messages
    BY <1>4, ToLegacyType
  <2>2. e.kind = "user" /\ e.text = text
    BY DEF User, Entry
  <2>3. QED
    BY <2>1, <2>2 DEF ToLegacy
<1> DEFINE m == ToLegacy(e)
           l == Append(live.legacy, m)
           s == Append(kept, e)
<1>7. mine' = [live EXCEPT !.legacy = Append(@, m), !.dirty = TRUE] /\ said' = s
  BY <1>6 DEF StartTurn, PushText
<1>8. l \in Seq(Messages) /\ s \in Seq(EntrySet) /\ s # <<>>
  BY <1>3, <1>4, <1>6, AppendProperties
<1>9. Tells(l, s)
  BY <1>5, Zenon DEF TellsOn
<1>10. mine' \in Histories /\ mine'.legacy = l
  <2> HIDE DEF m
  <2>1. mine' \in Histories
    BY <1>3, <1>7, <1>8 DEF Histories
  <2>2. mine'.legacy = Append(live.legacy, m)
    BY <1>3, <1>7 DEF Histories
  <2>3. QED
    BY <2>1, <2>2
<1> HIDE DEF e, m, l, s
<1>11. RunningOK'
  BY <1>7, <1>8, <1>9, <1>10 DEF RunningOK
<1>12. phase' = "round" /\ UNCHANGED <<round, waiting>>
  BY DEF StartTurn
<1>13. WaitingOK'
  BY <1>1, <1>12 DEF WaitingOK
<1>14. PhaseOK'
  BY <1>1, <1>7, <1>8, <1>12 DEF PhaseOK
<1>15. QED
  BY <1>2, <1>11, <1>13, <1>14, InvNext

\* A compaction in the middle of a turn
LEMMA CompactToInv ==
  ASSUME IInv, phase # "idle", NEW target, CompactTo(target)
  PROVE  RunningOK' /\ mine'.dirty /\ said' # <<>>
<1>1. RunningOK /\ PhaseOK
  BY InvParts
<1>2. mine \in Histories /\ said \in Seq(EntrySet) /\ Tells(mine.legacy, said) /\ said # <<>>
  BY <1>1 DEF RunningOK, PhaseOK
<1>3. /\ mine' = Compact(Touch(mine), target)
      /\ said' = WithoutTurns(Turns(said), Evicted(mine.legacy, target))
  BY DEF CompactTo
<1>4. mine' \in Histories /\ mine'.dirty /\ said' \in Seq(EntrySet) /\ said' # <<>> /\ Tells(mine'.legacy, said')
  BY <1>2, <1>3, CompactKeeps
<1>5. QED
  BY <1>4 DEF RunningOK

LEMMA BuildPromptInv ==
  ASSUME IInv, BuildPrompt
  PROVE  IInv'
<1>1. WaitingOK /\ PhaseOK
  BY InvParts
<1>2. CommittedOK'
  BY CommittedKept DEF BuildPrompt
<1>3. RunningOK' /\ mine'.dirty /\ said' # <<>>
  BY CompactToInv DEF BuildPrompt
<1>4. Entries(mine') = said'
  BY <1>3, EntriesAre DEF RunningOK
<1>5. prompt' = Window(said')
  BY <1>4 DEF BuildPrompt
<1>6. phase' = "prompted" /\ UNCHANGED <<round, waiting>>
  BY DEF BuildPrompt
<1>7. WaitingOK'
  BY <1>1, <1>6 DEF WaitingOK
<1>8. PhaseOK'
  BY <1>1, <1>3, <1>5, <1>6 DEF PhaseOK
<1>9. QED
  BY <1>2, <1>3, <1>7, <1>8, InvNext

LEMMA ContextErrorInv ==
  ASSUME IInv, ContextError
  PROVE  IInv'
<1>1. WaitingOK /\ PhaseOK
  BY InvParts
<1>2. CommittedOK'
  BY CommittedKept DEF ContextError
<1>3. RunningOK' /\ said' # <<>>
  BY CompactToInv DEF ContextError
<1>4. phase' = "round" /\ round' = round + 1 /\ UNCHANGED waiting
  BY DEF ContextError
<1>5. WaitingOK'
  BY <1>1, <1>4 DEF WaitingOK
<1>6. PhaseOK'
  BY <1>1, <1>3, <1>4 DEF PhaseOK
<1>7. QED
  BY <1>2, <1>3, <1>5, <1>6, InvNext

\* Entries that answer no call, pushed by the loop, after which no call waits
LEMMA SayInv ==
  ASSUME IInv, phase # "idle", UNCHANGED Committed,
         NEW es \in Seq(EntrySet), AllFree(es), Say(es),
         phase' \in {"round", "done"}, round' \in Nat, UNCHANGED waiting
  PROVE  IInv'
<1>1. WaitingOK /\ PhaseOK
  BY InvParts
<1>2. CommittedOK'
  BY CommittedKept
<1>3. said # <<>>
  BY <1>1 DEF PhaseOK
<1>4. RunningOK' /\ said' # <<>>
  BY <1>3, SayKeeps DEF RunningOK
<1>5. WaitingOK'
  BY <1>1 DEF WaitingOK
<1>6. PhaseOK'
  BY <1>1, <1>4 DEF PhaseOK
<1>7. QED
  BY <1>2, <1>4, <1>5, <1>6, InvNext

LEMMA FinalTextInv ==
  ASSUME IInv, NEW text \in Texts, FinalText(text)
  PROVE  IInv'
<1> DEFINE e == Assistant(text)
<1>1. e \in EntrySet /\ Free(e)
  BY SpokenFree
<1>2. Say(<<e>>)
  BY DEF FinalText
<1> HIDE DEF e
<1>3. <<e>> \in Seq(EntrySet) /\ AllFree(<<e>>)
  BY <1>1 DEF AllFree
<1>4. round \in Nat
  BY DEF IInv, TypeOK
<1>5. phase # "idle" /\ UNCHANGED Committed /\ phase' = "done" /\ UNCHANGED <<round, waiting>>
  BY DEF FinalText, Answered
<1>6. QED
  BY <1>2, <1>3, <1>4, <1>5, SayInv

LEMMA AnswerEntriesAre ==
  ASSUME NEW answer \in UserTexts \cup {<<>>}
  PROVE  AnswerEntries(answer) \in Seq(EntrySet) /\ AllFree(AnswerEntries(answer))
<1> DEFINE e == User(answer)
<1>1. CASE answer = <<>>
  BY <1>1 DEF AnswerEntries, AllFree
<1>2. CASE answer # <<>>
  <2>1. answer \in UserTexts
    BY <1>2
  <2>2. e \in EntrySet /\ Free(e)
    BY <2>1, SpokenFree
  <2>3. AnswerEntries(answer) = <<e>>
    BY <1>2 DEF AnswerEntries
  <2> HIDE DEF e
  <2>4. <<e>> \in Seq(EntrySet) /\ AllFree(<<e>>)
    BY <2>2 DEF AllFree
  <2>5. QED
    BY <2>3, <2>4
<1>3. QED
  BY <1>1, <1>2

LEMMA FollowUpInv ==
  ASSUME IInv, NEW text \in Texts \cup {<<>>}, NEW id, NEW answer \in UserTexts \cup {<<>>},
         FollowUp(text, id, answer)
  PROVE  IInv'
<1> DEFINE a == AnswerEntries(answer)
           t == TextEntries(text)
           es == t \o a
<1>1. a \in Seq(EntrySet) /\ AllFree(a)
  BY AnswerEntriesAre
<1>2. Say(es)
  BY DEF FollowUp
<1>3. t \in Seq(EntrySet) /\ AllFree(t)
  BY TextEntriesAre
<1> HIDE DEF a, t
<1>4. FreeJoined(t, a)
  BY <1>1, <1>3, FreeJoin
<1>5. AllFree(es)
  BY <1>4, Zenon DEF FreeJoined
<1>6. es \in Seq(EntrySet)
  BY <1>1, <1>3
<1>7. round \in Nat
  BY DEF IInv, TypeOK
<1>8. phase # "idle" /\ UNCHANGED Committed /\ phase' = "round" /\ round' = round + 1 /\ UNCHANGED waiting
  BY DEF FollowUp, Answered
<1> HIDE DEF es
<1>9. QED
  BY <1>2, <1>5, <1>6, <1>7, <1>8, SayInv

LEMMA FollowUpRefusedInv ==
  ASSUME IInv, NEW text \in Texts \cup {<<>>}, FollowUpRefused(text)
  PROVE  IInv'
<1> DEFINE t == TextEntries(text)
<1>1. Say(t) /\ t \in Seq(EntrySet) /\ AllFree(t)
  BY TextEntriesAre DEF FollowUpRefused
<1>2. round \in Nat
  BY DEF IInv, TypeOK
<1>3. phase # "idle" /\ UNCHANGED Committed /\ phase' = "done" /\ UNCHANGED <<round, waiting>>
  BY DEF FollowUpRefused, Answered
<1> HIDE DEF t
<1>4. QED
  BY <1>1, <1>2, <1>3, SayInv

LEMMA CallsInv ==
  ASSUME IInv, NEW text \in Texts \cup {<<>>}, NEW calls \in RoundCalls, Calls(text, calls)
  PROVE  IInv'
<1> DEFINE t == TextEntries(text)
           cs == CallEntries(calls)
           es == t \o cs
           b == said \o t
<1>1. PhaseOK /\ RunningOK
  BY InvParts
<1>2. CommittedOK'
  BY CommittedKept DEF Calls, Answered
<1>3. phase = "prompted" /\ said # <<>> /\ said \in Seq(EntrySet) /\ round \in Nat
  BY <1>1 DEF PhaseOK, RunningOK, Calls, Answered
<1>4. t \in Seq(EntrySet) /\ AllFree(t)
  BY TextEntriesAre
<1>5. /\ cs \in Seq(EntrySet) /\ OwnIds(cs) /\ AllFree(cs) /\ Len(cs) = Len(calls)
      /\ calls \in Seq(Ids \X Names) /\ \A i \in DOMAIN cs : Waiting(cs[i])
  BY <1>3, CallEntriesAre
<1>6. Say(es) /\ calls # <<>> /\ waiting' = cs /\ phase' = "tools" /\ round' = round
  BY DEF Calls
<1> HIDE DEF t, cs
<1>7. FreeJoined(t, cs) /\ es \in Seq(EntrySet)
  BY <1>4, <1>5, FreeJoin
<1>8. AllFree(es)
  BY <1>7, Zenon DEF FreeJoined
<1> HIDE DEF es
<1>9. RunningOK' /\ said' # <<>>
  BY <1>3, <1>6, <1>7, <1>8, SayKeeps DEF RunningOK
<1>10. said' = b \o cs
  <2>1. said' = said \o (t \o cs)
    BY <1>6 DEF Say, es
  <2>2. (said \o t) \o cs = said \o (t \o cs)
    BY <1>3, <1>4, <1>5, ConcatAssociative
  <2>3. QED
    BY <2>1, <2>2
<1>11. b \in Seq(EntrySet) /\ b # <<>>
  <2>1. b \in Seq(EntrySet) /\ Len(b) = Len(said) + Len(t) /\ Len(said) # 0
    BY <1>3, <1>4
  <2>2. Len(said) \in Nat /\ Len(t) \in Nat
    BY <1>3, <1>4
  <2> HIDE DEF b
  <2>3. QED
    BY <2>1, <2>2
<1> HIDE DEF b
<1>12. AwaitsAll(b, cs)
  BY <1>5, <1>11, AwaitsCalls
<1>13. \A i \in DOMAIN cs : Awaits(said', cs[i])
  BY <1>10, <1>12, Zenon DEF AwaitsAll
<1>14. cs # <<>>
  BY <1>5, <1>6
<1>15. WaitingOK'
  BY <1>5, <1>6, <1>13, <1>14 DEF WaitingOK
<1>16. PhaseOK'
  BY <1>3, <1>6, <1>9 DEF PhaseOK
<1>17. QED
  BY <1>2, <1>9, <1>15, <1>16, InvNext

LEMMA ResultInv ==
  ASSUME IInv, NEW ok \in BOOLEAN, Result(ok)
  PROVE  IInv'
<1> DEFINE call == Head(waiting)
           e == ResultOf(call, ok)
<1>1. PhaseOK /\ RunningOK /\ WaitingOK
  BY InvParts
<1>2. CommittedOK'
  BY CommittedKept DEF Result
<1>3. /\ phase = "tools" /\ said # <<>> /\ said \in Seq(EntrySet) /\ round \in Nat
      /\ mine \in Histories /\ Tells(mine.legacy, said)
      /\ waiting \in Seq(EntrySet) /\ waiting # <<>>
      /\ \A i \in DOMAIN waiting : Waiting(waiting[i]) /\ Awaits(said, waiting[i])
  BY <1>1 DEF PhaseOK, RunningOK, WaitingOK, Result
<1>4. call \in EntrySet /\ Waiting(call) /\ Awaits(said, call)
  <2>1. Head(waiting) = waiting[1] /\ 1 \in DOMAIN waiting
    BY <1>3
  <2>2. waiting[1] \in EntrySet
    BY <1>3, <2>1
  <2>3. QED
    BY <1>3, <2>1, <2>2
<1>5. /\ Say(<<e>>) /\ waiting' = Tail(waiting)
      /\ IF Len(waiting) = 1 THEN phase' = "round" /\ round' = round + 1
         ELSE UNCHANGED <<phase, round>>
  BY DEF Result
<1>6. /\ e = ToolResult(call.id, call.name, <<Plain(1)>>, ok)
      /\ call.id \in AnyId /\ call.name \in Words /\ call.id # NoId
  BY <1>4, EntryIs DEF ResultOf, Waiting
<1> HIDE DEF call, e
<1>7. <<Plain(1)>> \in Seq(Lines)
  <2>1. Plain(1) \in Lines
    BY DEF Plain, Lines
  <2>2. QED
    BY <2>1
<1>8. e \in EntrySet /\ e.kind = "result" /\ e.id = call.id /\ e.name = call.name
  <2>1. e \in EntrySet
    BY <1>6, <1>7, EntryTypes
  <2>2. e.kind = "result" /\ e.id = call.id /\ e.name = call.name
    BY <1>6 DEF ToolResult, Entry
  <2>3. QED
    BY <2>1, <2>2
<1>9. Sayable(said, e)
  <2>1. Settled(e)
    BY <1>6, <1>8 DEF Settled
  <2>2. Follows(LastTurn(said), e)
    BY <1>4, <1>8 DEF Awaits, Follows
  <2>3. QED
    BY <1>8, <2>1, <2>2 DEF Sayable
<1>10. mine' = PushAll(mine, <<e>>) /\ said' = said \o <<e>> /\ <<e>> \in Seq(EntrySet)
  BY <1>5, <1>8 DEF Say
<1>11. mine' \in Histories
  BY <1>3, <1>10, PushAllStep
<1>12. SaysAll(mine, said, <<e>>)
  BY <1>3, <1>9, TellsPushOne
<1>13. Tells(mine'.legacy, said')
  BY <1>10, <1>12, Zenon DEF SaysAll
<1>14. said' = Append(said, e) /\ said' \in Seq(EntrySet) /\ said' # <<>>
  <2>1. Append(said, e) = said \o <<e>>
    BY <1>3, <1>8, AppendIsConcat
  <2>2. Append(said, e) \in Seq(EntrySet) /\ Append(said, e) # <<>>
    BY <1>3, <1>8, AppendProperties
  <2>3. QED
    BY <1>10, <2>1, <2>2
<1>15. RunningOK'
  BY <1>11, <1>13, <1>14 DEF RunningOK
<1>16. \A i \in DOMAIN waiting : Awaits(said', waiting[i])
  <2> TAKE i \in DOMAIN waiting
  <2>1. StillAwaits(said, e, waiting[i])
    BY <1>3, <1>8, AwaitsAppend
  <2>2. Awaits(Append(said, e), waiting[i])
    BY <1>3, <1>8, <2>1, Zenon DEF StillAwaits
  <2>3. QED
    BY <1>14, <2>2
<1>17. /\ Tail(waiting) \in Seq(EntrySet) /\ Len(Tail(waiting)) = Len(waiting) - 1
       /\ \A i \in DOMAIN Tail(waiting) : i + 1 \in DOMAIN waiting /\ Tail(waiting)[i] = waiting[i + 1]
  BY <1>3, HeadTailProperties
<1>18. WaitingOK'
  <2>1. waiting' \in Seq(EntrySet)
    BY <1>5, <1>17
  <2>2. ASSUME phase' = "tools" PROVE waiting' # <<>>
    <3>1. Len(waiting) # 1
      BY <1>5, <2>2
    <3>2. Len(waiting) \in Nat /\ Len(waiting) # 0
      BY <1>3
    <3>3. Len(Tail(waiting)) # 0
      BY <1>17, <3>1, <3>2
    <3>4. Tail(waiting) # <<>>
      <4> DEFINE rest == Tail(waiting)
      <4>1. rest \in Seq(EntrySet) /\ Len(rest) # 0
        BY <1>17, <3>3
      <4> HIDE DEF rest
      <4>2. rest # <<>>
        BY <4>1
      <4>3. QED
        BY <4>2 DEF rest
    <3>5. QED
      BY <1>5, <3>4
  <2>3. \A i \in DOMAIN waiting' : Waiting(waiting'[i]) /\ Awaits(said', waiting'[i])
    BY <1>3, <1>5, <1>16, <1>17
  <2>4. QED
    BY <2>1, <2>2, <2>3 DEF WaitingOK
<1>19. PhaseOK'
  <2>1. phase' \in {"round", "tools"} /\ round' \in Nat
    BY <1>3, <1>5
  <2>2. QED
    BY <1>14, <2>1 DEF PhaseOK
<1>20. QED
  BY <1>2, <1>15, <1>18, <1>19, InvNext

LEMMA TurnOverInv ==
  ASSUME TurnOver, said' = kept'
  PROVE  WaitingOK' /\ PhaseOK'
<1>1. phase' = "idle" /\ round' = 0 /\ waiting' = <<>>
  BY DEF TurnOver
<1>2. QED
  BY <1>1 DEF WaitingOK, PhaseOK

LEMMA CommitInv ==
  ASSUME IInv, Commit
  PROVE  IInv'
<1>1. mine \in Histories /\ said \in Seq(EntrySet) /\ Tells(mine.legacy, said)
  BY InvParts DEF RunningOK
<1> DEFINE g == Normalized(mine)
           w == Saved(g)
<1>2. live' = g /\ mine' = g /\ file' = w /\ kept' = said /\ said' = said /\ TurnOver
  BY DEF Commit
<1>3. g \in Histories /\ Clean(g, said)
  BY <1>1, NormalizedClean
<1>4. w \in Histories /\ Clean(w, said)
  BY <1>1, <1>3, SavedClean
<1> HIDE DEF g, w
<1>5. Tells(g.legacy, said)
  BY <1>3 DEF Clean
<1>6. CommittedOK'
  BY <1>1, <1>2, <1>3, <1>4 DEF CommittedOK
<1>7. RunningOK'
  BY <1>1, <1>2, <1>3, <1>5 DEF RunningOK
<1>8. WaitingOK' /\ PhaseOK'
  BY <1>2, TurnOverInv
<1>9. QED
  BY <1>6, <1>7, <1>8, InvNext

LEMMA CommitLostInv ==
  ASSUME IInv, CommitLost
  PROVE  IInv'
<1>1. CommittedOK
  BY InvParts
<1>2. mine' = live /\ said' = kept /\ UNCHANGED Committed /\ TurnOver
  BY DEF CommitLost
<1>3. live' = live /\ kept' = kept /\ CommittedOK'
  BY <1>2, CommittedKept DEF Committed
<1>4. RunningOK'
  BY <1>1, <1>2 DEF CommittedOK, RunningOK, Clean
<1>5. WaitingOK' /\ PhaseOK'
  BY <1>2, <1>3, TurnOverInv
<1>6. QED
  BY <1>3, <1>4, <1>5, InvNext

LEMMA ReloadInv ==
  ASSUME IInv, Reload
  PROVE  IInv'
<1>1. CommittedOK /\ WaitingOK /\ PhaseOK
  BY InvParts
<1>2. /\ phase = "idle" /\ live' = file /\ mine' = file
      /\ UNCHANGED <<kept, said, file, phase, round, waiting, prompt>>
  BY DEF Reload
<1>3. CommittedOK'
  BY <1>1, <1>2 DEF CommittedOK
<1>4. RunningOK'
  BY <1>1, <1>2 DEF CommittedOK, RunningOK, PhaseOK, Clean
<1>5. WaitingOK'
  BY <1>1, <1>2 DEF WaitingOK
<1>6. PhaseOK'
  BY <1>1, <1>2 DEF PhaseOK
<1>7. QED
  BY <1>3, <1>4, <1>5, <1>6, InvNext

LEMMA StutterInv ==
  ASSUME IInv, UNCHANGED vars
  PROVE  IInv'
<1>1. CommittedOK /\ RunningOK /\ WaitingOK /\ PhaseOK
  BY InvParts
<1>2. UNCHANGED <<live, kept, mine, said, file, phase, round, waiting, prompt>>
  BY DEF vars
<1>3. CommittedOK' /\ RunningOK'
  BY <1>1, <1>2 DEF CommittedOK, RunningOK
<1>4. WaitingOK'
  BY <1>1, <1>2 DEF WaitingOK
<1>5. PhaseOK'
  BY <1>1, <1>2 DEF PhaseOK
<1>6. QED
  BY <1>3, <1>4, <1>5, InvNext

LEMMA NextInv == IInv /\ [Next]_vars => IInv'
<1> SUFFICES ASSUME IInv, [Next]_vars PROVE IInv'
  OBVIOUS
<1>1. CASE \E text \in UserTexts : StartTurn(text)
  BY <1>1, StartTurnInv
<1>2. CASE BuildPrompt
  BY <1>2, BuildPromptInv
<1>3. CASE ContextError
  BY <1>3, ContextErrorInv
<1>4. CASE \E text \in Texts : FinalText(text)
  BY <1>4, FinalTextInv
<1>5. CASE \E text \in Texts \cup {<<>>}, calls \in RoundCalls : Calls(text, calls)
  BY <1>5, CallsInv
<1>6. CASE \E ok \in BOOLEAN : Result(ok)
  BY <1>6, ResultInv
<1>7. CASE \E text \in Texts \cup {<<>>}, id \in Ids, answer \in UserTexts \cup {<<>>} :
             FollowUp(text, id, answer)
  BY <1>7, FollowUpInv
<1>8. CASE \E text \in Texts \cup {<<>>} : FollowUpRefused(text)
  BY <1>8, FollowUpRefusedInv
<1>9. CASE Commit
  BY <1>9, CommitInv
<1>10. CASE CommitLost
  BY <1>10, CommitLostInv
<1>11. CASE Reload
  BY <1>11, ReloadInv
<1>12. CASE UNCHANGED vars
  BY <1>12, StutterInv
<1>13. QED
  BY <1>1, <1>2, <1>3, <1>4, <1>5, <1>6, <1>7, <1>8, <1>9, <1>10, <1>11, <1>12 DEF Next

\* Through every turn, commit, lost commit and reload, the text and the structured
\* form of each copy of SessionHistory tell the same, turn for turn.
THEOREM Invariant == Spec => []IInv
<1>1. Init => IInv
  BY InitInv
<1>2. IInv /\ [Next]_vars => IInv'
  BY NextInv
<1>3. QED
  BY <1>1, <1>2, PTL DEF Spec

(***************************************************************************)
(* The properties.                                                         *)
(***************************************************************************)
LEMMA InvPromptFaithful == IInv => PromptFaithful
<1> SUFFICES ASSUME IInv PROVE PromptFaithful
  OBVIOUS
<1>1. CommittedOK /\ RunningOK /\ PhaseOK
  BY InvParts
<1>2. ASSUME phase = "prompted"
      PROVE  Entries(mine) = said /\ IsSuffix(prompt, said)
  <2>1. said \in Seq(EntrySet) /\ said # <<>> /\ mine.dirty /\ prompt = Window(said)
    BY <1>1, <1>2 DEF RunningOK, PhaseOK
  <2>2. Entries(mine) = said
    BY <1>1, <2>1, EntriesAre DEF RunningOK
  <2>3. PICK k \in 1..Len(said) : Window(said) = SubSeq(said, k, Len(said))
    BY <2>1, WindowIs
  <2>4. IsSuffix(SubSeq(said, k, Len(said)), said)
    BY <2>1, SuffixIs
  <2>5. QED
    BY <2>1, <2>2, <2>3, <2>4
<1>3. Entries(live) = kept /\ Entries(file) = kept
  BY <1>1, EntriesAre DEF CommittedOK, Clean
<1>4. QED
  BY <1>2, <1>3 DEF PromptFaithful

LEMMA InvWindowRight == IInv => WindowRight
<1> SUFFICES ASSUME IInv, phase = "prompted" PROVE WindowRight
  BY DEF WindowRight
<1>1. RunningOK /\ PhaseOK
  BY InvParts
<1>2. /\ said \in Seq(EntrySet) /\ said # <<>> /\ prompt = Window(said)
      /\ mine.legacy \in Seq(Messages) /\ Tells(mine.legacy, said)
  BY <1>1 DEF RunningOK, PhaseOK, Histories
<1> DEFINE N == Len(said)
<1>3. PICK k \in 1..N : /\ prompt = SubSeq(said, k, N)
                        /\ IsStart(said, k)
                        /\ k = Min(RightStarts(said))
  BY <1>2, WindowIs
<1>4. N \in Nat /\ k \in Nat /\ k >= 1 /\ k <= N
  BY <1>2
<1>5. IndexPaired(said)
  BY <1>2, TellsPaired, PairedIndex
<1> DEFINE p == SubSeq(said, k, N)
<1>6. Len(p) = N - k + 1 /\ \A i \in 1..N - k + 1 : p[i] = said[k + i - 1]
  BY <1>2, <1>4, SubSeqProperties
<1>7. p \in Seq(EntrySet) /\ DOMAIN p = 1..Len(p)
  BY <1>2, <1>4, SubSeqProperties
<1>8. prompt = p
  BY <1>3
<1> HIDE DEF p, N
<1>9. ASSUME NEW i \in DOMAIN prompt, prompt[i].kind = "result", prompt[i].id # NoId
      PROVE  \E j \in 1..(i-1) : prompt[j].kind = "call" /\ prompt[j].id = prompt[i].id
  <2> DEFINE x == k + i - 1
  <2>1. i \in 1..N - k + 1 /\ i \in Nat /\ x \in 1..N
    BY <1>4, <1>6, <1>7, <1>8, <1>9
  <2>2. prompt[i] = said[x]
    BY <1>6, <1>8, <2>1
  <2>3. Named(said[x])
    BY <1>9, <2>2 DEF Named
  <2> HIDE DEF x
  <2>4. PICK c : CallOf(said, x, c)
    BY <1>5, <2>1, <2>3 DEF IndexPaired, N
  <2>5. /\ c \in 1..x - 1 /\ said[c].kind = "call" /\ said[c].id = said[x].id
        /\ \A y \in c + 1..x : said[y].kind # "user"
    BY <2>4 DEF CallOf
  <2>6. c >= k
    <3>1. SUFFICES ASSUME c < k PROVE FALSE
      BY <1>4, <2>1, <2>5
    <3>2. k \in c + 1..x /\ k # 1
      BY <1>4, <2>1, <2>5, <3>1 DEF x
    <3>3. said[k].kind # "user"
      BY <2>5, <3>2
    <3>4. QED
      BY <1>3, <3>2, <3>3 DEF IsStart
  <2> DEFINE j == c - k + 1
  <2>7. j \in 1..i - 1 /\ j \in 1..N - k + 1 /\ k + j - 1 = c
    BY <1>4, <2>1, <2>5, <2>6 DEF x
  <2>8. prompt[j] = said[c]
    BY <1>6, <1>8, <2>7
  <2> HIDE DEF j
  <2>9. QED
    BY <2>2, <2>5, <2>7, <2>8
<1>10. k = Min(RightStarts(said)) /\ prompt = SubSeq(said, k, Len(said))
  BY <1>3 DEF N
<1>11. prompt = SubSeq(said, Min(RightStarts(said)), Len(said))
  BY <1>10
<1>12. QED
  BY <1>9, <1>11 DEF WindowRight, RightStarts, StartSet

(***************************************************************************)
(* Which turns a compaction takes: those before which too much is left,    *)
(* in the order of size and then of age.                                   *)
(***************************************************************************)
\* What some positions sum up to and what the others do make the whole.
LEMMA SumParts ==
  ASSUME NEW sizes \in Seq(Nat), NEW A, NEW B, NEW C,
         \A n \in DOMAIN sizes : n \in C /\ (n \in A <=> n \notin B)
  PROVE  SumOver(sizes, A) + SumOver(sizes, B) = SumOver(sizes, C)
<1> DEFINE D == {s \in Seq(Nat) : (\A n \in 1..Len(s) : n \in C /\ (n \in A <=> n \notin B)) =>
                                    SumOver(s, A) + SumOver(s, B) = SumOver(s, C)}
<1>1. <<>> \in D
  BY NoSum
<1>2. ASSUME NEW s \in Seq(Nat), NEW e \in Nat, s \in D
      PROVE  Append(s, e) \in D
  <2> DEFINE u == Append(s, e)
             n == Len(s) + 1
  <2>1. u \in Seq(Nat) /\ Len(u) = n /\ Len(s) \in Nat
    BY AppendProperties
  <2>2. SumsOn(s, e, A) /\ SumsOn(s, e, B) /\ SumsOn(s, e, C)
    BY SumAppend
  <2>3. /\ SumOver(u, A) = AddOn(SumOver(s, A), e, n, A) /\ SumOver(u, B) = AddOn(SumOver(s, B), e, n, B)
        /\ SumOver(u, C) = AddOn(SumOver(s, C), e, n, C)
    BY <2>2, Zenon DEF SumsOn
  <2>4. SumOver(s, A) \in Nat /\ SumOver(s, B) \in Nat /\ SumOver(s, C) \in Nat
    BY SumOverStep
  <2> HIDE DEF u
  <2>5. ASSUME \A i \in 1..n : i \in C /\ (i \in A <=> i \notin B)
        PROVE  SumOver(u, A) + SumOver(u, B) = SumOver(u, C)
    <3>1. SumOver(s, A) + SumOver(s, B) = SumOver(s, C)
      BY <1>2, <2>1, <2>5
    <3>2. n \in C /\ (n \in A <=> n \notin B)
      BY <2>1, <2>5
    <3> HIDE DEF n
    <3>3. QED
      BY <2>3, <2>4, <3>1, <3>2 DEF AddOn
  <2>6. u \in D
    BY <2>1, <2>5
  <2>7. QED
    BY <2>6 DEF u
<1> HIDE DEF D
<1>3. sizes \in D
  BY <1>1, <1>2, SeqInduction
<1>4. QED
  BY <1>3 DEF D

LEMMA SumRest ==
  ASSUME NEW sizes \in Seq(Nat), NEW A
  PROVE  SumOver(sizes, A) + SumOver(sizes, DOMAIN sizes \ A) = SumOf(sizes)
<1> DEFINE B == DOMAIN sizes \ A
<1>1. \A n \in DOMAIN sizes : n \in DOMAIN sizes /\ (n \in A <=> n \notin B)
  OBVIOUS
<1> HIDE DEF B
<1>2. SumOver(sizes, A) + SumOver(sizes, B) = SumOver(sizes, DOMAIN sizes)
  BY <1>1, SumParts
<1>3. QED
  BY <1>2 DEF SumOf, B

LEMMA SizeInSum ==
  ASSUME NEW sizes \in Seq(Nat), NEW n \in DOMAIN sizes
  PROVE  sizes[n] \in Nat /\ sizes[n] <= SumOf(sizes) /\ SumOf(sizes) \in Nat
<1>1. sizes[n] \in Nat
  OBVIOUS
<1> DEFINE none == {}
           one == none \cup {n}
<1>2. SumOver(sizes, one) = SumOver(sizes, none) + sizes[n]
  BY SumMore
<1>3. \A m \in DOMAIN sizes : m \in one => m \in DOMAIN sizes
  OBVIOUS
<1> HIDE DEF none, one
<1>4. SumOver(sizes, one) <= SumOver(sizes, DOMAIN sizes)
  BY <1>3, SumGrows
<1>5. SumOver(sizes, none) \in Nat /\ SumOver(sizes, one) \in Nat /\ SumOver(sizes, DOMAIN sizes) \in Nat
  BY SumOverStep
<1>6. QED
  BY <1>1, <1>2, <1>4, <1>5 DEF SumOf

\* The turn u goes before the turn t.
GoesBefore(sizes, u, t) == sizes[u] > sizes[t] \/ (sizes[u] = sizes[t] /\ u < t)

Before(sizes, t) == {u \in Older(sizes) : GoesBefore(sizes, u, t)}

LEMMA OrderIs ==
  ASSUME NEW sizes \in Seq(Nat)
  PROVE  /\ \A t \in Older(sizes) : t \in DOMAIN sizes /\ t \in Nat /\ sizes[t] \in Nat
         /\ \A t \in Older(sizes) : ~GoesBefore(sizes, t, t)
         /\ \A t, u \in Older(sizes) : t = u \/ GoesBefore(sizes, t, u) \/ GoesBefore(sizes, u, t)
         /\ \A t, u, v \in Older(sizes) :
              GoesBefore(sizes, t, u) /\ GoesBefore(sizes, u, v) => GoesBefore(sizes, t, v)
<1>1. \A t \in Older(sizes) : t \in DOMAIN sizes /\ t \in Nat /\ sizes[t] \in Nat
  BY DEF Older
<1>2. \A t \in Older(sizes) : ~GoesBefore(sizes, t, t)
  BY <1>1 DEF GoesBefore
<1>3. \A t, u \in Older(sizes) : t = u \/ GoesBefore(sizes, t, u) \/ GoesBefore(sizes, u, t)
  BY <1>1 DEF GoesBefore
<1>4. \A t, u, v \in Older(sizes) :
        GoesBefore(sizes, t, u) /\ GoesBefore(sizes, u, v) => GoesBefore(sizes, t, v)
  BY <1>1 DEF GoesBefore
<1>5. QED
  BY <1>1, <1>2, <1>3, <1>4

LEMMA EvictedWhen ==
  ASSUME NEW sizes \in Seq(Nat), NEW target
  PROVE  \A t : t \in EvictedOf(sizes, target) <=>
           t \in Older(sizes) /\ SumOf(sizes) - SumOver(sizes, Before(sizes, t)) > target
<1>1. EvictedOf(sizes, target) =
        {t \in Older(sizes) : SumOf(sizes) - SumOver(sizes, Before(sizes, t)) > target}
  BY DEF EvictedOf, Before, GoesBefore
<1>2. QED
  BY <1>1, Zenon

\* What goes before a turn that goes, goes.
LEMMA EvictedClosed ==
  ASSUME NEW sizes \in Seq(Nat), NEW target \in Nat,
         NEW t \in EvictedOf(sizes, target), NEW u \in Older(sizes), GoesBefore(sizes, u, t)
  PROVE  u \in EvictedOf(sizes, target)
<1> DEFINE A == Before(sizes, u)
           B == Before(sizes, t)
<1>1. t \in Older(sizes) /\ SumOf(sizes) - SumOver(sizes, B) > target
  BY EvictedWhen
<1>2. \A n \in DOMAIN sizes : n \in A => n \in B
  BY <1>1, OrderIs DEF Before
<1> HIDE DEF A, B
<1>3. SumOver(sizes, A) <= SumOver(sizes, B)
  BY <1>2, SumGrows
<1>4. SumOver(sizes, A) \in Nat /\ SumOver(sizes, B) \in Nat /\ SumOf(sizes) \in Nat
  BY SumOverStep DEF SumOf
<1>5. SumOf(sizes) - SumOver(sizes, A) > target
  BY <1>1, <1>3, <1>4
<1>6. QED
  BY <1>5, EvictedWhen DEF A

\* Of some turns one goes last, and one goes first.
LEMMA GoesLast ==
  ASSUME NEW sizes \in Seq(Nat), NEW T \in SUBSET Older(sizes), T # {}
  PROVE  \E l \in T : \A t \in T : t = l \/ GoesBefore(sizes, t, l)
<1> DEFINE N == Len(sizes)
           K == {sizes[t] : t \in T}
<1>1. N \in Nat /\ \A t \in T : t \in 1..N /\ t \in Nat /\ sizes[t] \in Nat /\ t \in Older(sizes)
  BY OrderIs
<1>2. K \in SUBSET Nat /\ K # {}
  BY <1>1
<1>3. PICK k \in K : \A m \in K : k <= m
  BY <1>2, LeastNatural
<1> DEFINE I == {t \in T : sizes[t] = k}
<1>4. I \in SUBSET (1..N) /\ I # {}
  BY <1>1
<1>5. PICK l \in I : \A m \in I : l >= m
  BY <1>1, <1>4, GreatestUpTo
<1>6. l \in T /\ sizes[l] = k /\ k \in Nat
  BY <1>2
<1>7. ASSUME NEW t \in T PROVE t = l \/ GoesBefore(sizes, t, l)
  <2>1. k <= sizes[t]
    BY <1>3
  <2>2. sizes[t] = k => t <= l
    BY <1>5
  <2>3. t \in Nat /\ l \in Nat /\ sizes[t] \in Nat
    BY <1>1, <1>6
  <2>4. QED
    BY <1>6, <2>1, <2>2, <2>3 DEF GoesBefore
<1>8. QED
  BY <1>6, <1>7

LEMMA GoesFirst ==
  ASSUME NEW sizes \in Seq(Nat), NEW T \in SUBSET Older(sizes), T # {}
  PROVE  \E l \in T : \A t \in T : t = l \/ GoesBefore(sizes, l, t)
<1> DEFINE K == {SumOf(sizes) - sizes[t] : t \in T}
<1>1. \A t \in T : t \in Nat /\ sizes[t] \in Nat /\ sizes[t] <= SumOf(sizes) /\ SumOf(sizes) \in Nat
  BY OrderIs, SizeInSum
<1>2. K \in SUBSET Nat /\ K # {}
  BY <1>1
<1>3. PICK k \in K : \A m \in K : k <= m
  BY <1>2, LeastNatural
<1> DEFINE I == {t \in T : SumOf(sizes) - sizes[t] = k}
<1>4. I \in SUBSET Nat /\ I # {}
  BY <1>1
<1>5. PICK l \in I : \A m \in I : l <= m
  BY <1>4, LeastNatural
<1>6. l \in T /\ SumOf(sizes) - sizes[l] = k /\ k \in Nat
  BY <1>2
<1>7. ASSUME NEW t \in T PROVE t = l \/ GoesBefore(sizes, l, t)
  <2>1. k <= SumOf(sizes) - sizes[t]
    BY <1>3
  <2>2. SumOf(sizes) - sizes[t] = k => l <= t
    BY <1>5
  <2>3. t \in Nat /\ l \in Nat /\ sizes[t] \in Nat /\ sizes[l] \in Nat /\ SumOf(sizes) \in Nat
    BY <1>1, <1>6
  <2>4. QED
    BY <1>6, <2>1, <2>2, <2>3 DEF GoesBefore
<1>8. QED
  BY <1>6, <1>7

\* No turn that goes is smaller than one that stays.
LEMMA EvictedLargest ==
  ASSUME NEW sizes \in Seq(Nat), NEW target \in Nat,
         NEW t \in EvictedOf(sizes, target), NEW u \in Older(sizes) \ EvictedOf(sizes, target)
  PROVE  sizes[t] >= sizes[u]
<1>1. t \in Older(sizes)
  BY EvictedWhen
<1>2. ~GoesBefore(sizes, u, t)
  BY EvictedClosed
<1>3. sizes[t] \in Nat /\ sizes[u] \in Nat
  BY <1>1, OrderIs
<1>4. QED
  BY <1>2, <1>3 DEF GoesBefore

\* Without the last turn that goes, the rest is too large.
LEMMA EvictedNeeded ==
  ASSUME NEW sizes \in Seq(Nat), NEW target \in Nat, NEW t \in EvictedOf(sizes, target)
  PROVE  LET gone == EvictedOf(sizes, target)
         IN  \/ SumOver(sizes, DOMAIN sizes \ (gone \ {t})) > target
             \/ \E u \in gone : sizes[u] < sizes[t]
<1> DEFINE gone == EvictedOf(sizes, target)
<1>1. gone \in SUBSET Older(sizes)
  BY EvictedWhen
<1>2. t \in gone
  OBVIOUS
<1> SUFFICES ASSUME ~(\E u \in gone : sizes[u] < sizes[t])
             PROVE  SumOver(sizes, DOMAIN sizes \ (gone \ {t})) > target
  OBVIOUS
<1>3. PICK l \in gone : \A v \in gone : v = l \/ GoesBefore(sizes, v, l)
  <2> HIDE DEF gone
  <2>1. QED
    BY <1>1, <1>2, GoesLast
<1>4. l \in Older(sizes) /\ SumOf(sizes) - SumOver(sizes, Before(sizes, l)) > target
  BY EvictedWhen
<1>5. Before(sizes, l) = gone \ {l}
  <2>1. ASSUME NEW v \in Before(sizes, l) PROVE v \in gone \ {l}
    BY <1>4, <2>1, EvictedClosed, OrderIs DEF Before
  <2>2. ASSUME NEW v \in gone \ {l} PROVE v \in Before(sizes, l)
    <3> HIDE DEF gone
    <3>1. QED
      BY <1>1, <1>3 DEF Before
  <2>3. QED
    BY <2>1, <2>2
<1> HIDE DEF gone
<1>6. l \in DOMAIN sizes /\ t \in DOMAIN sizes /\ sizes[l] \in Nat /\ sizes[t] \in Nat
  BY <1>1, <1>2, <1>4, OrderIs
<1>7. sizes[l] = sizes[t]
  <2>1. ~(sizes[l] < sizes[t])
    BY <1>3
  <2>2. t = l \/ GoesBefore(sizes, t, l)
    BY <1>2, <1>3
  <2>3. QED
    BY <1>6, <2>1, <2>2 DEF GoesBefore
<1> DEFINE A == gone \ {l}
           B == gone \ {t}
           a == A \cup {l}
           b == B \cup {t}
<1>8. SumOver(sizes, a) = SumOver(sizes, A) + sizes[l]
  BY <1>6, SumMore
<1>9. SumOver(sizes, b) = SumOver(sizes, B) + sizes[t]
  BY <1>6, SumMore
<1>10. a = gone /\ b = gone
  BY <1>2, <1>3
<1> HIDE DEF a, b
<1>11. SumOver(sizes, A) = SumOver(sizes, B)
  <2>1. SumOver(sizes, A) \in Nat /\ SumOver(sizes, B) \in Nat
    BY SumOverStep
  <2> HIDE DEF A, B
  <2>2. SumOver(sizes, A) + sizes[l] = SumOver(sizes, B) + sizes[t]
    BY <1>8, <1>9, <1>10
  <2>3. QED
    BY <1>6, <1>7, <2>1, <2>2
<1>12. SumOver(sizes, B) + SumOver(sizes, DOMAIN sizes \ B) = SumOf(sizes)
  BY SumRest
<1>13. /\ SumOver(sizes, B) \in Nat /\ SumOver(sizes, DOMAIN sizes \ B) \in Nat
       /\ SumOf(sizes) \in Nat
  BY SumOverStep DEF SumOf
<1>14. SumOf(sizes) - SumOver(sizes, A) > target
  BY <1>4, <1>5
<1> HIDE DEF A
<1>15. SumOver(sizes, DOMAIN sizes \ B) > target
  <2> HIDE DEF B
  <2>1. QED
    BY <1>11, <1>12, <1>13, <1>14
<1>16. QED
  BY <1>15

\* What stays is small enough, or every older turn is gone.
LEMMA EvictedEnough ==
  ASSUME NEW sizes \in Seq(Nat), NEW target \in Nat
  PROVE  LET gone == EvictedOf(sizes, target)
         IN  SumOver(sizes, DOMAIN sizes \ gone) <= target \/ gone = Older(sizes)
<1> DEFINE gone == EvictedOf(sizes, target)
           T == Older(sizes) \ gone
<1>1. gone \in SUBSET Older(sizes)
  BY EvictedWhen
<1> SUFFICES ASSUME gone # Older(sizes)
             PROVE  SumOver(sizes, DOMAIN sizes \ gone) <= target
  OBVIOUS
<1>2. T # {} /\ T \in SUBSET Older(sizes)
  BY <1>1
<1>3. PICK u \in T : \A t \in T : t = u \/ GoesBefore(sizes, u, t)
  <2> HIDE DEF T
  <2>1. QED
    BY <1>2, GoesFirst
<1>4. u \in Older(sizes) /\ u \notin gone
  OBVIOUS
<1>5. Before(sizes, u) = gone
  <2>1. ASSUME NEW v \in Before(sizes, u) PROVE v \in gone
    <3>1. v \in Older(sizes) /\ GoesBefore(sizes, v, u)
      BY DEF Before
    <3>2. ~GoesBefore(sizes, u, v) /\ v # u
      BY <1>4, <3>1, OrderIs
    <3>3. QED
      BY <1>3, <3>1, <3>2
  <2>2. ASSUME NEW v \in gone PROVE v \in Before(sizes, u)
    <3>1. v \in Older(sizes) /\ v # u
      BY <1>1, <1>4
    <3>2. ~GoesBefore(sizes, u, v)
      BY <1>4, EvictedClosed
    <3>3. GoesBefore(sizes, v, u)
      BY <1>4, <3>1, <3>2, OrderIs
    <3>4. QED
      BY <3>1, <3>3 DEF Before
  <2>3. QED
    BY <2>1, <2>2
<1>6. ~(SumOf(sizes) - SumOver(sizes, gone) > target)
  BY <1>4, <1>5, EvictedWhen
<1> HIDE DEF gone
<1>7. SumOver(sizes, gone) + SumOver(sizes, DOMAIN sizes \ gone) = SumOf(sizes)
  BY SumRest
<1>8. /\ SumOver(sizes, gone) \in Nat /\ SumOver(sizes, DOMAIN sizes \ gone) \in Nat
      /\ SumOf(sizes) \in Nat
  BY SumOverStep DEF SumOf
<1> DEFINE x == SumOver(sizes, gone)
           y == SumOver(sizes, DOMAIN sizes \ gone)
<1>9. x \in Nat /\ y \in Nat /\ x + y = SumOf(sizes) /\ ~(SumOf(sizes) - x > target)
  BY <1>6, <1>7, <1>8
<1> HIDE DEF x, y
<1>10. y <= target
  BY <1>8, <1>9
<1>11. QED
  BY <1>10 DEF y

LEMMA TurnSizesType ==
  ASSUME NEW legacy \in Seq(Messages)
  PROVE  TurnSizes(Turns(legacy)) \in Seq(Nat)
<1> DEFINE ts == Turns(legacy)
           n == Len(ts)
           size(t) == SumOf([i \in DOMAIN ts[t] |-> Size(ts[t][i])])
<1>1. ts \in Seq(Seq(Messages))
  BY TurnsStep
<1> HIDE DEF ts
<1>2. n \in Nat /\ DOMAIN ts = 1..n
  BY <1>1
<1>3. ASSUME NEW t \in 1..n PROVE size(t) \in Nat
  <2> DEFINE turn == ts[t]
             s == [i \in DOMAIN turn |-> Size(turn[i])]
  <2>1. turn \in Seq(Messages)
    BY <1>1
  <2> HIDE DEF turn
  <2>2. Len(turn) \in Nat /\ DOMAIN turn = 1..Len(turn) /\ \A i \in 1..Len(turn) : Size(turn[i]) \in Nat
    BY <2>1, SizeType
  <2>3. s \in [1..Len(turn) -> Nat]
    BY <2>2
  <2>4. s \in Seq(Nat)
    BY <2>2, <2>3, IsASeq
  <2> HIDE DEF s
  <2>5. SumOver(s, DOMAIN s) \in Nat
    BY <2>4, SumOverStep
  <2>6. QED
    BY <2>5 DEF SumOf, s, turn
<1>4. TurnSizes(ts) = [t \in 1..n |-> size(t)]
  BY <1>2 DEF TurnSizes
<1> HIDE DEF n, size
<1>5. TurnSizes(ts) \in [1..n -> Nat]
  BY <1>3, <1>4
<1>6. TurnSizes(ts) \in Seq(Nat)
  BY <1>2, <1>5, IsASeq
<1>7. QED
  BY <1>6 DEF ts

LEMMA CompactsRight ==
  ASSUME NEW h \in Histories, NEW target \in Nat
  PROVE  CompactsTo(h.legacy, Compact(Touch(h), target).legacy, target)
<1> DEFINE turns == Turns(h.legacy)
           sizes == TurnSizes(turns)
           gone == EvictedOf(sizes, target)
           new == Compact(Touch(h), target).legacy
<1>1. h.legacy \in Seq(Messages)
  BY DEF Histories
<1>2. sizes \in Seq(Nat)
  BY <1>1, TurnSizesType
<1>3. new = WithoutTurns(turns, gone)
  BY DEF Compact, Touch, Histories, Evicted
<1> HIDE DEF new, turns, sizes
<1>4. gone \in SUBSET Older(sizes)
  BY <1>2, EvictedWhen
<1>5. \A t \in gone, u \in Older(sizes) \ gone : sizes[t] >= sizes[u]
  BY <1>2, EvictedLargest
<1>6. \A t \in gone : \/ SumOver(sizes, DOMAIN sizes \ (gone \ {t})) > target
                      \/ \E u \in gone : sizes[u] < sizes[t]
  BY <1>2, EvictedNeeded
<1>7. SumOver(sizes, DOMAIN sizes \ gone) <= target \/ gone = Older(sizes)
  BY <1>2, EvictedEnough
<1> HIDE DEF gone
<1>8. CompactsTo(h.legacy, new, target)
  BY <1>3, <1>4, <1>5, <1>6, <1>7, Zenon DEF CompactsTo, turns, sizes
<1>9. QED
  BY <1>8 DEF new

LEMMA StepCompactsRight ==
  ASSUME IInv, [Next]_vars
  PROVE  /\ phase = "round" /\ phase' = "prompted" => CompactsTo(mine.legacy, mine'.legacy, Threshold)
         /\ phase = "prompted" /\ phase' = "round" /\ overflow'
              => CompactsTo(mine.legacy, mine'.legacy, Emergency)
<1>1. mine \in Histories
  BY DEF IInv, TypeOK
<1>2. Threshold \in Nat /\ Emergency \in Nat
  BY LimitsAssumption
<1>3. CASE BuildPrompt
  <2>1. mine' = Compact(Touch(mine), Threshold)
    BY <1>3 DEF BuildPrompt, CompactTo
  <2>2. CompactsTo(mine.legacy, mine'.legacy, Threshold)
    BY <1>1, <1>2, <2>1, CompactsRight
  <2>3. phase = "round"
    BY <1>3 DEF BuildPrompt
  <2>4. QED
    BY <2>2, <2>3
<1>4. CASE ContextError
  <2>1. mine' = Compact(Touch(mine), Emergency)
    BY <1>4 DEF ContextError, CompactTo
  <2>2. CompactsTo(mine.legacy, mine'.legacy, Emergency)
    BY <1>1, <1>2, <2>1, CompactsRight
  <2>3. phase = "prompted"
    BY <1>4 DEF ContextError
  <2>4. QED
    BY <2>2, <2>3
<1>5. CASE \E text \in UserTexts : StartTurn(text)
  BY <1>5 DEF StartTurn
<1>6. CASE \/ \E text \in Texts : FinalText(text)
           \/ \E text \in Texts \cup {<<>>}, calls \in RoundCalls : Calls(text, calls)
           \/ \E text \in Texts \cup {<<>>}, id \in Ids, answer \in UserTexts \cup {<<>>} :
                FollowUp(text, id, answer)
           \/ \E text \in Texts \cup {<<>>} : FollowUpRefused(text)
  <2>1. Answered
    BY <1>6 DEF FinalText, Calls, FollowUp, FollowUpRefused
  <2>2. QED
    BY <2>1 DEF Answered
<1>7. CASE \E ok \in BOOLEAN : Result(ok)
  BY <1>7 DEF Result
<1>8. CASE Commit \/ CommitLost
  BY <1>8 DEF Commit, CommitLost, TurnOver
<1>9. CASE Reload
  BY <1>9 DEF Reload
<1>10. CASE UNCHANGED vars
  BY <1>10 DEF vars
<1>11. QED
  BY <1>3, <1>4, <1>5, <1>6, <1>7, <1>8, <1>9, <1>10 DEF Next

(***************************************************************************)
(* Theorems: what holds of every history for all texts, files and limits.  *)
(***************************************************************************)
\* The text form and the dirty flag never cost an entry (SessionHistory's
\* normalize_legacy and Deref): the prompt of every round ends with what was said and
\* not compacted away, and a committed history, in memory or read from its file, is
\* what was said in it.
THEOREM HistoryFaithful == Spec => []PromptFaithful
<1>1. IInv => PromptFaithful
  BY InvPromptFaithful
<1>2. QED
  BY <1>1, Invariant, PTL

\* build_prompt's window: the longest that starts at a turn, holds at most MaxMessages
\* turns and fits, or the last turn; no result in it has lost its call.
THEOREM PromptWindow == Spec => []WindowRight
<1>1. IInv => WindowRight
  BY InvWindowRight
<1>2. QED
  BY <1>1, Invariant, PTL

\* Every compaction (compact_messages, in each round and after a context error) takes
\* whole older turns, the largest ones, no more than needed and enough.
THEOREM Compaction == Spec => CompactionRight
<1>1. IInv /\ [Next]_vars =>
        [/\ phase = "round" /\ phase' = "prompted" => CompactsTo(mine.legacy, mine'.legacy, Threshold)
         /\ phase = "prompted" /\ phase' = "round" /\ overflow'
              => CompactsTo(mine.legacy, mine'.legacy, Emergency)]_vars
  BY StepCompactsRight
<1>2. QED
  BY <1>1, Invariant, PTL DEF Spec, CompactionRight
=============================================================================
