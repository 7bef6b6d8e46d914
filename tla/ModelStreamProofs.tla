--------------------------- MODULE ModelStreamProofs ---------------------------
(***************************************************************************)
(* Proofs about ModelStream for any texts, ids, attempts and limits.       *)
(***************************************************************************)
EXTENDS ModelStream, SequenceTheorems, FiniteSetTheorems, WellFoundedInduction, TLAPS

-----------------------------------------------------------------------------
(* The provers cannot instantiate the library's induction theorems, which  *)
(* take the formula as an operator, so the inductions here look at the     *)
(* least element of the set of counterexamples.                            *)
LEMMA LeastNatural ==
  ASSUME NEW T \in SUBSET Nat, T # {}
  PROVE  \E n \in T : \A m \in T : n <= m
<1> DEFINE R == {p \in Nat \X Nat : p[1] < p[2]}
<1>1. IsWellFoundedOn(R, Nat)
  BY NatLessThanWellFounded DEF OpToRel
<1>2. \A m, n \in Nat : <<m, n>> \in R <=> m < n
  OBVIOUS
<1> HIDE DEF R
<1>3. PICK n \in T : \A m \in T : ~(<<m, n>> \in R)
  BY <1>1, WFMin
<1>4. n \in Nat /\ T \subseteq Nat
  OBVIOUS
<1>5. \A m \in T : ~(m < n)
  BY <1>2, <1>3, <1>4, Zenon
<1>6. QED
  BY <1>4, <1>5

-----------------------------------------------------------------------------
(* Searching and cutting texts.                                            *)
(* The provers do not know of a string that it is in STRING.               *)
Tokens ==
  STRING \cup {"tick", "tool_call", "[", "t", "T", "A", "ool_", "call ", "r", "esult ",
              "ool result for ", "ool result]:", "<", "FollowUp", "/>", "hinking>", "hinking]:",
              "/", "thinking>", "ssistant]:", "\n"}
Toks == Seq(Tokens)

LEMMA MinIs ==
  ASSUME NEW S \in SUBSET Nat, S # {}
  PROVE  Min(S) \in S /\ \A x \in S : Min(S) <= x
<1>1. \E x \in S : \A y \in S : x <= y
  BY LeastNatural
<1>2. QED
  BY <1>1 DEF Min

LEMMA MaxIs ==
  ASSUME NEW n \in Nat, NEW S \in SUBSET (0..n), S # {}
  PROVE  Max(S) \in S /\ \A x \in S : x <= Max(S)
<1> DEFINE T == {m \in Nat : n - m \in S}
<1>1. T \in SUBSET Nat /\ T # {}
  <2>1. PICK x \in S : TRUE
    OBVIOUS
  <2>2. n - x \in Nat /\ n - (n - x) = x
    OBVIOUS
  <2>3. QED
    BY <2>1, <2>2
<1>2. PICK m \in T : \A k \in T : m <= k
  BY <1>1, LeastNatural
<1>3. n - m \in S /\ m \in Nat
  BY <1>2
<1>4. ASSUME NEW x \in S
      PROVE  x <= n - m
  <2>1. n - x \in Nat /\ n - (n - x) = x /\ x \in Int
    OBVIOUS
  <2>2. n - x \in T
    BY <2>1
  <2>3. QED
    BY <1>2, <1>3, <2>1, <2>2
<1>5. \E x \in S : \A y \in S : x >= y
  BY <1>3, <1>4
<1>6. Max(S) \in S /\ \A y \in S : Max(S) >= y
  BY <1>5 DEF Max
<1>7. QED
  BY <1>6

LEMMA CutIs ==
  ASSUME NEW s \in Toks, NEW i \in 1..Len(s) + 1
  PROVE  /\ From(s, i) \in Toks /\ Len(From(s, i)) = Len(s) - i + 1
         /\ \A k \in 1..Len(s) - i + 1 : From(s, i)[k] = s[i + k - 1]
         /\ Before(s, i) \in Toks /\ Len(Before(s, i)) = i - 1
         /\ \A k \in 1..i - 1 : Before(s, i)[k] = s[k]
<1>1. \A k \in i..Len(s) : s[k] \in Tokens
  BY DEF Toks
<1>2. \A k \in 1..i - 1 : s[k] \in Tokens
  BY DEF Toks
<1>3. Len(s) \in Nat
  BY DEF Toks
<1>4. /\ SubSeq(s, i, Len(s)) \in Seq(Tokens)
      /\ Len(SubSeq(s, i, Len(s))) = IF i <= Len(s) THEN Len(s) - i + 1 ELSE 0
      /\ \A k \in 1..Len(s) - i + 1 : SubSeq(s, i, Len(s))[k] = s[i + k - 1]
  BY <1>1, <1>3, SubSeqProperties
<1>5. /\ SubSeq(s, 1, i - 1) \in Seq(Tokens)
      /\ Len(SubSeq(s, 1, i - 1)) = IF 1 <= i - 1 THEN i - 1 - 1 + 1 ELSE 0
      /\ \A k \in 1..i - 1 - 1 + 1 : SubSeq(s, 1, i - 1)[k] = s[1 + k - 1]
  BY <1>2, <1>3, SubSeqProperties
<1>6. QED
  BY <1>3, <1>4, <1>5 DEF From, Before, Toks

LEMMA FindIs ==
  ASSUME NEW s \in Toks, NEW m \in Toks, Len(m) # 0
  PROVE  /\ Find(s, m) \in Nat
         /\ Find(s, m) # 0 =>
              Find(s, m) + Len(m) - 1 <= Len(s) /\ SubSeq(s, Find(s, m), Find(s, m) + Len(m) - 1) = m
         /\ Find(s, m) = 0 => \A i \in 1..Len(s) - Len(m) + 1 : SubSeq(s, i, i + Len(m) - 1) # m
<1> DEFINE at == {i \in 1..Len(s) - Len(m) + 1 : SubSeq(s, i, i + Len(m) - 1) = m}
<1>1. Len(s) \in Nat /\ Len(m) \in Nat
  BY DEF Toks
<1>2. Find(s, m) = IF at = {} THEN 0 ELSE Min(at)
  BY DEF Find
<1>3. at \in SUBSET Nat
  BY <1>1
<1>4. \A i : i \in at <=> i \in 1..Len(s) - Len(m) + 1 /\ SubSeq(s, i, i + Len(m) - 1) = m
  OBVIOUS
<1> HIDE DEF at
<1>5. CASE at = {}
  <2>1. Find(s, m) = 0
    BY <1>2, <1>5
  <2>2. ASSUME NEW i \in 1..Len(s) - Len(m) + 1, SubSeq(s, i, i + Len(m) - 1) = m
        PROVE  FALSE
    BY <1>4, <1>5, <2>2, Zenon
  <2> DEFINE f == Find(s, m)
  <2>3. f = 0
    BY <2>1
  <2> HIDE DEF f
  <2>4. f \in Nat
    BY <2>3
  <2>5. QED
    BY <2>2, <2>3, <2>4, Zenon DEF f
<1>6. CASE at # {}
  <2>1. Find(s, m) \in at
    BY <1>2, <1>3, <1>6, MinIs
  <2> DEFINE f == Find(s, m)
  <2>2. f \in 1..Len(s) - Len(m) + 1 /\ SubSeq(s, f, f + Len(m) - 1) = m
    BY <1>4, <2>1
  <2> HIDE DEF f
  <2>3. f # 0 /\ f \in Nat /\ f + Len(m) - 1 <= Len(s)
    BY <1>1, <2>2
  <2>4. QED
    BY <2>2, <2>3 DEF f
<1>7. QED
  BY <1>5, <1>6

LEMMA FindBound ==
  ASSUME NEW s \in Toks, NEW m \in Toks, Len(m) # 0
  PROVE  /\ Find(s, m) \in 0..Len(s)
         /\ Find(s, m) # 0 => Find(s, m) + Len(m) - 1 <= Len(s)
<1> DEFINE f == Find(s, m)
<1>1. Len(s) \in Nat /\ Len(m) \in Nat
  BY DEF Toks
<1>2. f \in Nat /\ (f # 0 => f + Len(m) - 1 <= Len(s))
  BY FindIs
<1> HIDE DEF f
<1>3. f \in 0..Len(s) /\ (f # 0 => f + Len(m) - 1 <= Len(s))
  BY <1>1, <1>2
<1>4. QED
  BY <1>3 DEF f

LEMMA FindAnyIs ==
  ASSUME NEW s \in Toks, NEW ms \in SUBSET Toks, \A m \in ms : Len(m) # 0
  PROVE  /\ FindAny(s, ms) \in 0..Len(s)
         /\ FindAny(s, ms) # 0 => \E m \in ms : Find(s, m) = FindAny(s, ms)
<1> DEFINE at == {Find(s, m) : m \in ms} \ {0}
<1>1. Len(s) \in Nat
  BY DEF Toks
<1>2. \A m \in ms : Find(s, m) \in 0..Len(s)
  BY FindBound
<1>3. at \subseteq 0..Len(s) /\ \A i \in at : \E m \in ms : Find(s, m) = i
  BY <1>2
<1>4. at \in SUBSET Nat
  BY <1>1, <1>3
<1>5. FindAny(s, ms) = IF at = {} THEN 0 ELSE Min(at)
  BY DEF FindAny
<1> HIDE DEF at
<1>6. CASE at = {}
  <2>1. FindAny(s, ms) = 0
    BY <1>5, <1>6
  <2>2. QED
    BY <1>1, <2>1
<1>7. CASE at # {}
  <2> DEFINE i == FindAny(s, ms)
  <2>1. i \in at
    BY <1>4, <1>5, <1>7, MinIs
  <2> HIDE DEF i
  <2>2. i \in 0..Len(s) /\ \E m \in ms : Find(s, m) = i
    BY <1>3, <2>1
  <2>3. QED
    BY <2>2 DEF i
<1>8. QED
  BY <1>6, <1>7

LEMMA HasRunIs ==
  ASSUME NEW s \in Toks, NEW m \in Toks, Len(m) # 0
  PROVE  HasRun(s, m) <=> \E i \in 1..Len(s) - Len(m) + 1 : SubSeq(s, i, i + Len(m) - 1) = m
<1>1. Len(s) \in Nat /\ Len(m) \in Nat
  BY DEF Toks
<1>2. Find(s, m) # 0 => Find(s, m) \in 1..Len(s) - Len(m) + 1
  BY <1>1, FindIs
<1>3. QED
  BY <1>2, FindIs DEF HasRun

LEMMA PartialIs ==
  ASSUME NEW s \in Toks, NEW ms
  PROVE  /\ PartialSuffix(s, ms) \in 0..Len(s)
         /\ PartialSuffix(s, ms) # 0 =>
              \E m \in ms : /\ PartialSuffix(s, ms) < Len(m)
                            /\ SubSeq(s, Len(s) - PartialSuffix(s, ms) + 1, Len(s)) =
                                 SubSeq(m, 1, PartialSuffix(s, ms))
<1> DEFINE fits == {0} \cup {k \in 1..Len(s) : \E m \in ms :
                      k < Len(m) /\ SubSeq(s, Len(s) - k + 1, Len(s)) = SubSeq(m, 1, k)}
<1>1. Len(s) \in Nat
  BY DEF Toks
<1>2. fits \in SUBSET (0..Len(s)) /\ fits # {}
  BY <1>1
<1>3. Max(fits) \in fits
  BY <1>1, <1>2, MaxIs
<1>4. PartialSuffix(s, ms) = Max(fits)
  BY DEF PartialSuffix
<1>5. QED
  BY <1>2, <1>3, <1>4

LEMMA StripIs ==
  ASSUME NEW s \in Toks
  PROVE  StripNewlines(s) \in Toks /\ Len(StripNewlines(s)) <= Len(s)
<1> DEFINE First(i) == /\ \A j \in 1..i - 1 : s[j] = Newline
                       /\ i = Len(s) + 1 \/ s[i] # Newline
           T == {i \in Nat : i \in 1..Len(s) + 1 /\ (i = Len(s) + 1 \/ s[i] # Newline)}
<1>1. Len(s) \in Nat
  BY DEF Toks
<1>2. T \in SUBSET Nat /\ Len(s) + 1 \in T
  BY <1>1
<1>3. PICK i \in T : \A k \in T : i <= k
  BY <1>2, LeastNatural
<1>4. \A j \in 1..i - 1 : s[j] = Newline
  BY <1>1, <1>3
<1>5. \E k \in 1..Len(s) + 1 : First(k)
  BY <1>3, <1>4
<1>6. (CHOOSE k \in 1..Len(s) + 1 : First(k)) \in 1..Len(s) + 1
  BY <1>5, Zenon
<1>7. StripNewlines(s) = From(s, CHOOSE k \in 1..Len(s) + 1 : First(k))
  BY DEF StripNewlines
<1> HIDE DEF First
<1>8. QED
  BY <1>1, <1>6, <1>7, CutIs

-----------------------------------------------------------------------------
(* The protocol detector: what an iteration of drain leaves is a detector, *)
(* and it has stopped or has fewer tokens to look at.                      *)
Ids == {"none", "own", "gemini_call_"} \X Nat
Requests == [kind : {"call"}, id : Ids]
Words == [kind : {"text"}, toks : Toks]
Found == Words \cup Requests

Protocols ==
  [mode : {"normal", "block", "inline_call", "inline_result", "result"}, pending : Toks,
   atStart : BOOLEAN, nextId : Nat, body : Toks, oversized : BOOLEAN, fenced : BOOLEAN,
   final : BOOLEAN, more : BOOLEAN, out : Seq(Found)]

Advances(p, q) == q \in Protocols /\ (q.more => Len(q.pending) < Len(p.pending))
SameQueue(p, q) == q \in Protocols /\ q.pending = p.pending /\ q.more = p.more

LEMMA TextType == ASSUME NEW t \in Toks PROVE Text(t) \in Found
  BY DEF Text, Found, Words

LEMMA CallType == ASSUME NEW id \in Ids PROVE Call(id) \in Found
  BY DEF Call, Found, Requests

LEMMA IdTypes ==
  /\ NoId \in Ids
  /\ \A n \in Nat : Own(n) \in Ids /\ Allocated(n) \in Ids
  BY DEF NoId, Own, Allocated, Ids

LEMMA MarkerTypes ==
  /\ Fence \in Toks /\ Len(Fence) = 2
  /\ CallFence \in Toks /\ Len(CallFence) = 3
  /\ CallInline \in Toks /\ Len(CallInline) = 4
  /\ FollowUpPrefix \in Toks /\ Len(FollowUpPrefix) = 2
  /\ FollowUpTag \in Toks /\ Len(FollowUpTag) = 3
  /\ ResultInline \in Toks /\ Len(ResultInline) = 5
  /\ \A m \in ResultLegacy : m \in Toks /\ Len(m) = 3
  /\ \A m \in ThinkOpen : m \in Toks /\ Len(m) = 3
  /\ ThinkClose \in Toks /\ Len(ThinkClose) = 3
  /\ Assistant \in Toks /\ Len(Assistant) = 3
  /\ <<Newline>> \in Toks /\ Len(<<Newline>>) = 1
  /\ <<Newline>> \o Fence \in Toks /\ Len(<<Newline>> \o Fence) = 3
<1>1. Fence \in Toks /\ Len(Fence) = 2
  BY DEF Fence, Toks, Tokens
<1>2. CallFence \in Toks /\ Len(CallFence) = 3
  BY DEF CallFence, Toks, Tokens
<1>3. CallInline \in Toks /\ Len(CallInline) = 4
  BY DEF CallInline, Toks, Tokens
<1>4. FollowUpPrefix \in Toks /\ Len(FollowUpPrefix) = 2
  BY DEF FollowUpPrefix, Toks, Tokens
<1>5. FollowUpTag \in Toks /\ Len(FollowUpTag) = 3
  BY DEF FollowUpTag, Toks, Tokens
<1>6. /\ ResultInline \in Toks /\ Len(ResultInline) = 5
      /\ Assistant \in Toks /\ Len(Assistant) = 3
  BY DEF ResultInline, Assistant, Toks, Tokens
<1>7. \A m \in ResultLegacy : m \in Toks /\ Len(m) = 3
  <2> DEFINE a == <<"[", "T", "ool result for ">>
             b == <<"[", "T", "ool result]:">>
  <2>1. ResultLegacy = {a, b}
    BY DEF ResultLegacy
  <2>2. a \in Toks /\ Len(a) = 3 /\ b \in Toks /\ Len(b) = 3
    BY DEF Toks, Tokens
  <2> HIDE DEF a, b
  <2>3. QED
    BY <2>1, <2>2
<1>8. \A m \in ThinkOpen : m \in Toks /\ Len(m) = 3
  <2> DEFINE a == <<"<", "t", "hinking>">>
             b == <<"[", "T", "hinking]:">>
             c == <<"[", "t", "hinking]:">>
  <2>1. ThinkOpen = {a, b, c}
    BY DEF ThinkOpen
  <2>2. a \in Toks /\ Len(a) = 3 /\ b \in Toks /\ Len(b) = 3 /\ c \in Toks /\ Len(c) = 3
    BY DEF Toks, Tokens
  <2> HIDE DEF a, b, c
  <2>3. QED
    BY <2>1, <2>2
<1>9. ThinkClose \in Toks /\ Len(ThinkClose) = 3
  BY DEF ThinkClose, Toks, Tokens
<1>10. <<Newline>> \in Toks /\ Len(<<Newline>>) = 1
  BY DEF Newline, Toks, Tokens
<1>11. <<Newline>> \o Fence \in Toks /\ Len(<<Newline>> \o Fence) = 3
  <2>1. \A a, b \in Toks : a \o b \in Toks /\ Len(a \o b) = Len(a) + Len(b)
    BY ConcatProperties DEF Toks
  <2> DEFINE nl == <<Newline>>
  <2>2. nl \in Toks /\ Len(nl) = 1
    BY <1>10
  <2> HIDE DEF nl
  <2>3. nl \o Fence \in Toks /\ Len(nl \o Fence) = Len(nl) + Len(Fence)
    BY <1>1, <2>1, <2>2, Zenon
  <2>4. Len(nl \o Fence) = 3
    BY <1>1, <2>2, <2>3
  <2>5. QED
    BY <2>3, <2>4 DEF nl
<1>12. QED
  BY <1>1, <1>2, <1>3, <1>4, <1>5, <1>6, <1>7, <1>8, <1>9, <1>10, <1>11

LEMMA StopIs ==
  ASSUME NEW p \in Protocols
  PROVE  Stop(p) \in Protocols /\ Advances(p, Stop(p))
  BY DEF Stop, Protocols, Advances

LEMMA FindWithin ==
  ASSUME NEW s \in Toks, NEW m \in Toks, NEW n \in {1, 2, 3, 4, 5}, Len(m) = n
  PROVE  /\ Find(s, m) \in 0..Len(s)
         /\ Find(s, m) # 0 => Find(s, m) + n - 1 <= Len(s)
         /\ Find(s, m) = 1 => n \in 1..Len(s)
<1>1. Len(s) \in Nat
  BY DEF Toks
<1> DEFINE f == Find(s, m)
<1>2. f \in 0..Len(s) /\ (f # 0 => f + n - 1 <= Len(s))
  BY FindBound
<1> HIDE DEF f
<1>3. f = 1 => n \in 1..Len(s)
  BY <1>1, <1>2
<1>4. QED
  BY <1>2, <1>3 DEF f

LEMMA WithoutSpeakerType ==
  ASSUME NEW t \in Toks
  PROVE  WithoutSpeaker(t) \in Toks
<1> DEFINE words == StripNewlines(t)
           rest == From(words, 3 + 1)
<1>1. words \in Toks /\ Len(words) \in Nat
  BY StripIs DEF Toks
<1>2. WithoutSpeaker(t) = IF Find(words, Assistant) = 1 THEN StripNewlines(rest) ELSE t
  BY MarkerTypes DEF WithoutSpeaker
<1> HIDE DEF words
<1>3. Find(words, Assistant) = 1 => 3 + 1 \in 1..Len(words) + 1
  BY <1>1, MarkerTypes, FindWithin
<1>4. Find(words, Assistant) = 1 => rest \in Toks
  BY <1>1, <1>3, CutIs
<1>5. QED
  BY <1>2, <1>4, StripIs

LEMMA EmitIs ==
  ASSUME NEW p \in Protocols, NEW t \in Toks
  PROVE  SameQueue(p, Emit(p, t))
<1> DEFINE e == Text(WithoutSpeaker(t))
<1>1. e \in Found
  BY WithoutSpeakerType, TextType
<1> HIDE DEF e
<1>2. Emit(p, t) = IF t = <<>> THEN p ELSE [p EXCEPT !.out = Append(@, e)]
  BY DEF Emit, e
<1>3. Append(p.out, e) \in Seq(Found)
  BY <1>1 DEF Protocols
<1>4. QED
  BY <1>2, <1>3 DEF Protocols, SameQueue

LEMMA EmitBeforeIs ==
  ASSUME NEW p \in Protocols, NEW i \in 1..Len(p.pending) + 1
  PROVE  /\ EmitBefore(p, i) \in Protocols
         /\ i > 1 => Advances(p, EmitBefore(p, i))
<1> DEFINE q == [p EXCEPT !.pending = From(@, i), !.atStart = FALSE]
<1>1. p.pending \in Toks
  BY DEF Protocols
<1>2. From(p.pending, i) \in Toks /\ Len(From(p.pending, i)) = Len(p.pending) - i + 1
      /\ Before(p.pending, i) \in Toks
  BY <1>1, CutIs
<1>3. q \in Protocols /\ q.pending = From(p.pending, i)
  BY <1>2 DEF Protocols
<1>4. EmitBefore(p, i) = Emit(q, Before(p.pending, i))
  BY DEF EmitBefore
<1> HIDE DEF q
<1>5. SameQueue(q, EmitBefore(p, i))
  BY <1>2, <1>3, <1>4, EmitIs
<1>6. Len(p.pending) \in Nat
  BY <1>1 DEF Toks
<1>7. QED
  BY <1>2, <1>3, <1>5, <1>6 DEF Advances, SameQueue

LEMMA EnterIs ==
  ASSUME NEW p \in Protocols, NEW n \in 1..Len(p.pending),
         NEW mode \in {"block", "inline_call", "inline_result", "result"}
  PROVE  Advances(p, Enter(p, n, mode))
<1>1. p.pending \in Toks
  BY DEF Protocols
<1>2. Len(p.pending) \in Nat
  BY <1>1 DEF Toks
<1> DEFINE rest == From(p.pending, n + 1)
<1>3. n + 1 \in 1..Len(p.pending) + 1
  BY <1>2
<1>4. rest \in Toks /\ Len(rest) = Len(p.pending) - (n + 1) + 1
  BY <1>1, <1>3, CutIs
<1>5. <<>> \in Toks
  BY DEF Toks
<1>6. Enter(p, n, mode) = [p EXCEPT !.pending = rest, !.mode = mode, !.atStart = FALSE,
                                    !.body = <<>>, !.oversized = FALSE]
  BY DEF Enter
<1> HIDE DEF rest
<1>7. Enter(p, n, mode) \in Protocols /\ Enter(p, n, mode).pending = rest
  BY <1>4, <1>5, <1>6 DEF Protocols
<1>8. QED
  BY <1>2, <1>4, <1>7 DEF Advances

LEMMA ObjectIds ==
  ASSUME NEW t \in DOMAIN Objects
  PROVE  Objects[t] \in Ids
<1> DEFINE bare == <<"{", "}">>
           texts == DOMAIN Objects
<1>1. Objects = [u \in texts |-> IF u = bare THEN NoId ELSE Own(1)]
  BY DEF Objects
<1> HIDE DEF bare, texts
<1>2. t \in texts
  BY DEF texts
<1>3. QED
  BY <1>1, <1>2, IdTypes

LEMMA ParseCallIs ==
  ASSUME NEW p \in Protocols, NEW body
  PROVE  SameQueue(p, ParseCall(p, body))
<1>1. CASE ~IsObject(body)
  BY <1>1 DEF ParseCall, SameQueue
<1>2. CASE IsObject(body) /\ Objects[body] # NoId
  <2>1. Objects[body] \in Ids
    BY <1>2, ObjectIds DEF IsObject
  <2>2. Append(p.out, Call(Objects[body])) \in Seq(Found)
    BY <2>1, CallType DEF Protocols
  <2>3. ParseCall(p, body) = [p EXCEPT !.out = Append(@, Call(Objects[body]))]
    BY <1>2 DEF ParseCall
  <2>4. QED
    BY <2>2, <2>3 DEF Protocols, SameQueue
<1>3. CASE IsObject(body) /\ Objects[body] = NoId
  <2>1. p.nextId \in Nat
    BY DEF Protocols
  <2> DEFINE new == Append(p.out, Call(Allocated(p.nextId)))
  <2>2. new \in Seq(Found)
    BY <2>1, IdTypes, CallType DEF Protocols
  <2>3. ParseCall(p, body) = [p EXCEPT !.nextId = p.nextId + 1, !.out = new]
    BY <1>3 DEF ParseCall
  <2> HIDE DEF new
  <2>4. p.nextId + 1 \in Nat
    BY <2>1
  <2> DEFINE next == p.nextId + 1
  <2> HIDE DEF next
  <2>5. [p EXCEPT !.nextId = next, !.out = new] \in Protocols
    BY <2>2, <2>4 DEF Protocols, next
  <2>6. ParseCall(p, body) = [p EXCEPT !.nextId = next, !.out = new]
    BY <2>3 DEF next
  <2>7. QED
    BY <2>5, <2>6 DEF Protocols, SameQueue
<1>4. QED
  BY <1>1, <1>2, <1>3

LEMMA AllocateCallsIs ==
  ASSUME NEW p \in Protocols, NEW count \in Nat
  PROVE  SameQueue(p, AllocateCalls(p, count))
<1> DEFINE calls == [n \in 1..count |-> Call(Allocated(p.nextId + n - 1))]
           out == p.out \o calls
           next == p.nextId + count
<1>1. p.nextId \in Nat /\ p.out \in Seq(Found)
  BY DEF Protocols
<1>2. \A n \in 1..count : Call(Allocated(p.nextId + n - 1)) \in Found
  BY <1>1, IdTypes, CallType
<1>3. calls \in Seq(Found)
  BY <1>2
<1> HIDE DEF calls
<1>4. out \in Seq(Found)
  BY <1>1, <1>3, ConcatProperties
<1>5. next \in Nat
  BY <1>1
<1>6. AllocateCalls(p, count) = [p EXCEPT !.nextId = next, !.out = out]
  BY DEF AllocateCalls, calls
<1> HIDE DEF next, out
<1>7. [p EXCEPT !.nextId = next, !.out = out] \in Protocols
  BY <1>4, <1>5 DEF Protocols
<1>8. QED
  BY <1>6, <1>7 DEF Protocols, SameQueue

(* Updates of one or two fields.                                           *)
LEMMA HoldIs ==
  ASSUME NEW p \in Protocols, NEW t \in Toks
  PROVE  Hold(p, t) \in Protocols /\ Hold(p, t).pending = t /\ Leave(p, t) \in Protocols
         /\ Leave(p, t).pending = t
  BY DEF Hold, Leave, Protocols

LEMMA LeaveIs ==
  ASSUME NEW p \in Protocols, NEW t \in Toks, Len(t) < Len(p.pending)
  PROVE  Leave(p, t) \in Protocols /\ Advances(p, Leave(p, t))
  BY HoldIs DEF Advances

LEMMA EmptyIs ==
  ASSUME NEW p \in Protocols
  PROVE  /\ <<>> \in Toks /\ Len(<<>>) = 0 /\ Len(p.pending) \in Nat
         /\ p.pending # <<>> => Len(p.pending) > 0
  BY DEF Toks, Protocols

LEMMA UnfinishedIs ==
  ASSUME NEW p \in Protocols
  PROVE  Advances(p, Unfinished(p))
<1>1. (IF p.final THEN Leave(p, <<>>) ELSE p) \in Protocols
  BY EmptyIs, HoldIs
<1>2. Unfinished(p) \in Protocols /\ ~Unfinished(p).more
  BY <1>1, StopIs DEF Unfinished, Stop, Protocols
<1>3. QED
  BY <1>2 DEF Advances

LEMMA QueueOf ==
  ASSUME NEW p, NEW q, NEW r, Advances(p, q), SameQueue(q, r)
  PROVE  Advances(p, r)
  BY DEF Advances, SameQueue

-----------------------------------------------------------------------------
(* The iteration in the normal mode.                                       *)
LEMMA MarkerBounds ==
  ASSUME NEW s \in Toks
  PROVE  /\ Find(s, <<Newline>>) \in 0..Len(s)
         /\ Find(s, FollowUpPrefix) \in 0..Len(s)
         /\ FindAny(s, ResultMarkers) \in 0..Len(s)
         /\ Find(s, ResultInline) \in 0..Len(s)
         /\ Find(s, ResultInline) = 1 => 5 \in 1..Len(s)
         /\ Find(s, CallInline) \in 0..Len(s)
         /\ Find(s, CallInline) = 1 => 4 \in 1..Len(s)
         /\ Find(s, CallFence) \in 0..Len(s)
         /\ Find(s, CallFence) = 1 => 3 \in 1..Len(s)
         /\ Find(s, Fence) \in 0..Len(s)
         /\ Find(s, Fence) # 0 => Find(s, Fence) + 2 - 1 <= Len(s)
         /\ Find(s, <<Newline>> \o Fence) \in 0..Len(s)
         /\ Find(s, <<Newline>> \o Fence) # 0 => Find(s, <<Newline>> \o Fence) + 3 - 1 <= Len(s)
<1>1. Find(s, <<Newline>>) \in 0..Len(s)
  BY MarkerTypes, FindWithin
<1>2. Find(s, FollowUpPrefix) \in 0..Len(s) /\ FindAny(s, ResultMarkers) \in 0..Len(s)
  <2>1. ResultMarkers \in SUBSET Toks /\ \A m \in ResultMarkers : Len(m) # 0
    BY MarkerTypes DEF ResultMarkers
  <2>2. QED
    BY <2>1, MarkerTypes, FindWithin, FindAnyIs
<1>3. Find(s, ResultInline) \in 0..Len(s) /\ (Find(s, ResultInline) = 1 => 5 \in 1..Len(s))
  BY MarkerTypes, FindWithin
<1>4. Find(s, CallInline) \in 0..Len(s) /\ (Find(s, CallInline) = 1 => 4 \in 1..Len(s))
  BY MarkerTypes, FindWithin
<1>5. Find(s, CallFence) \in 0..Len(s) /\ (Find(s, CallFence) = 1 => 3 \in 1..Len(s))
  BY MarkerTypes, FindWithin
<1>6. Find(s, Fence) \in 0..Len(s) /\ (Find(s, Fence) # 0 => Find(s, Fence) + 2 - 1 <= Len(s))
  BY MarkerTypes, FindWithin
<1>7. /\ Find(s, <<Newline>> \o Fence) \in 0..Len(s)
      /\ Find(s, <<Newline>> \o Fence) # 0 => Find(s, <<Newline>> \o Fence) + 3 - 1 <= Len(s)
  <2> DEFINE m == <<Newline>> \o Fence
  <2>1. m \in Toks /\ Len(m) = 3
    BY MarkerTypes
  <2> HIDE DEF m
  <2>2. Find(s, m) \in 0..Len(s) /\ (Find(s, m) # 0 => Find(s, m) + 3 - 1 <= Len(s))
    BY <2>1, FindWithin
  <2>3. QED
    BY <2>2 DEF m
<1>8. QED
  BY <1>1, <1>2, <1>3, <1>4, <1>5, <1>6, <1>7, Zenon

LEMMA AtResultIs ==
  ASSUME NEW p \in Protocols, p.pending # <<>>, NEW newline \in 0..Len(p.pending)
  PROVE  Advances(p, AtResult(p, newline))
<1>1. p.pending \in Toks
  BY DEF Protocols
<1>2. CASE Find(p.pending, ResultInline) = 1
  <2>1. Len(ResultInline) \in 1..Len(p.pending)
    BY <1>1, <1>2, MarkerBounds, MarkerTypes
  <2>2. AtResult(p, newline) = Enter(p, Len(ResultInline), "inline_result")
    BY <1>2 DEF AtResult
  <2>3. QED
    BY <2>1, <2>2, EnterIs
<1>3. CASE Find(p.pending, ResultInline) # 1 /\ newline = 0
  <2>1. (IF p.final THEN Hold(p, <<>>) ELSE p) \in Protocols
    BY EmptyIs, HoldIs
  <2>2. AtResult(p, newline) = Stop(IF p.final THEN Hold(p, <<>>) ELSE p)
    BY <1>3 DEF AtResult
  <2>3. AtResult(p, newline) \in Protocols /\ ~AtResult(p, newline).more
    BY <2>1, <2>2, StopIs DEF Stop, Protocols
  <2>4. QED
    BY <2>3 DEF Advances
<1>4. CASE Find(p.pending, ResultInline) # 1 /\ newline # 0
  <2> DEFINE fenced == HasRun(Before(p.pending, newline), CallFence)
             q == [p EXCEPT !.fenced = fenced]
  <2>1. fenced \in BOOLEAN
    BY DEF HasRun
  <2>2. AtResult(p, newline) = Enter(q, newline, "result")
    BY <1>4 DEF AtResult
  <2> HIDE DEF fenced
  <2>3. q \in Protocols /\ q.pending = p.pending
    BY <2>1 DEF Protocols
  <2> HIDE DEF q
  <2>4. newline \in 1..Len(q.pending)
    BY <1>1, <1>4, <2>3 DEF Toks
  <2>5. Advances(q, Enter(q, newline, "result"))
    BY <2>3, <2>4, EnterIs
  <2>6. QED
    BY <2>2, <2>3, <2>5 DEF Advances
<1>5. QED
  BY <1>2, <1>3, <1>4

LEMMA AtInlineCallIs ==
  ASSUME NEW p \in Protocols, Find(p.pending, CallInline) = 1
  PROVE  Advances(p, AtInlineCall(p))
<1>1. p.pending \in Toks
  BY DEF Protocols
<1>2. Len(CallInline) \in 1..Len(p.pending)
  BY <1>1, MarkerBounds, MarkerTypes
<1>3. Advances(p, Enter(p, Len(CallInline), "inline_call"))
  BY <1>2, EnterIs
<1>4. QED
  BY <1>3, StopIs DEF AtInlineCall

LEMMA AtFollowUpIs ==
  ASSUME NEW p \in Protocols, p.pending # <<>>
  PROVE  Advances(p, AtFollowUp(p))
<1> DEFINE q == [p EXCEPT !.pending = <<>>, !.atStart = FALSE]
           count == IF TagsWhole(p.pending) THEN Cardinality(TagsAt(p.pending)) ELSE 0
<1>1. Len(p.pending) \in Nat /\ Len(p.pending) > 0
  BY EmptyIs
<1>2. IsFiniteSet(TagsAt(p.pending))
  <2>1. IsFiniteSet(1..Len(p.pending))
    <3> DEFINE n == Len(p.pending)
    <3>1. 1 \in Int /\ n \in Int
      BY <1>1
    <3> HIDE DEF n
    <3>2. IsFiniteSet(1..n)
      BY <3>1, FS_Interval
    <3>3. QED
      BY <3>2 DEF n
  <2>2. TagsAt(p.pending) \subseteq 1..Len(p.pending)
    BY DEF TagsAt
  <2>3. QED
    BY <2>1, <2>2, FS_Subset
<1>3. count \in Nat
  BY <1>2, FS_CardinalityType
<1>4. q \in Protocols /\ q.pending = <<>> /\ q.more = p.more
  BY EmptyIs DEF Protocols
<1>5. AtFollowUp(p) = IF ~TagsWhole(p.pending) /\ ~p.final /\ Len(p.pending) <= MaxFollowUp
                      THEN Stop(p) ELSE AllocateCalls(q, count)
  BY DEF AtFollowUp
<1> HIDE DEF q, count
<1>6. SameQueue(q, AllocateCalls(q, count))
  BY <1>3, <1>4, AllocateCallsIs
<1>7. Len(<<>>) = 0
  OBVIOUS
<1>8. Advances(p, q)
  BY <1>1, <1>4, <1>7 DEF Advances
<1>9. Advances(p, AllocateCalls(q, count))
  BY <1>6, <1>8, QueueOf
<1>10. QED
  BY <1>5, <1>9, StopIs

LEMMA AtPlainIs ==
  ASSUME NEW p \in Protocols, p.pending # <<>>, NEW held \in 0..Len(p.pending)
  PROVE  Advances(p, AtPlain(p, held))
<1>1. Len(p.pending) \in Nat /\ Len(p.pending) > 0
  BY EmptyIs
<1>2. CASE p.atStart /\ IsObject(Trim(p.pending))
  <2> DEFINE q == [p EXCEPT !.pending = <<>>, !.atStart = FALSE]
  <2>1. q \in Protocols /\ q.pending = <<>>
    BY EmptyIs DEF Protocols
  <2>2. AtPlain(p, held) = ParseCall(q, Trim(p.pending))
    BY <1>2 DEF AtPlain
  <2> HIDE DEF q
  <2>3. Len(<<>>) = 0
    OBVIOUS
  <2>4. Advances(p, q)
    BY <1>1, <2>1, <2>3 DEF Advances
  <2>5. QED
    BY <2>1, <2>2, <2>4, ParseCallIs, QueueOf
<1>3. CASE ~(p.atStart /\ IsObject(Trim(p.pending))) /\ held = Len(p.pending)
  BY <1>3, StopIs DEF AtPlain
<1>4. CASE ~(p.atStart /\ IsObject(Trim(p.pending))) /\ held # Len(p.pending) /\ held > 0
  <2>1. Len(p.pending) - held + 1 \in 1..Len(p.pending) + 1 /\ Len(p.pending) - held + 1 > 1
    BY <1>1, <1>4
  <2>2. AtPlain(p, held) = EmitBefore(p, Len(p.pending) - held + 1)
    BY <1>4 DEF AtPlain
  <2>3. QED
    BY <2>1, <2>2, EmitBeforeIs
<1>5. CASE ~(p.atStart /\ IsObject(Trim(p.pending))) /\ held # Len(p.pending) /\ ~(held > 0)
  <2>1. EmitBefore(p, Len(p.pending) + 1) \in Protocols
    BY <1>1, EmitBeforeIs
  <2>2. AtPlain(p, held) = Stop(EmitBefore(p, Len(p.pending) + 1))
    BY <1>5 DEF AtPlain
  <2>3. AtPlain(p, held) \in Protocols /\ ~AtPlain(p, held).more
    BY <2>1, <2>2, StopIs DEF Stop, Protocols
  <2>4. QED
    BY <2>3 DEF Advances
<1>6. QED
  BY <1>2, <1>3, <1>4, <1>5

LEMMA DrainNormalIs ==
  ASSUME NEW p \in Protocols, p.pending # <<>>
  PROVE  Advances(p, DrainNormal(p, FindAny(p.pending, ResultMarkers), Find(p.pending, CallFence),
                                 Find(p.pending, CallInline), Find(p.pending, FollowUpPrefix)))
<1> DEFINE result == FindAny(p.pending, ResultMarkers)
           fence == Find(p.pending, CallFence)
           inline == Find(p.pending, CallInline)
           tag == Find(p.pending, FollowUpPrefix)
           newline == Find(p.pending, <<Newline>>)
           held == PartialSuffix(p.pending, CallMarkers)
<1>1. p.pending \in Toks /\ Len(p.pending) \in Nat
  BY EmptyIs DEF Protocols
<1>3. fence \in 0..Len(p.pending) /\ inline \in 0..Len(p.pending) /\ tag \in 0..Len(p.pending)
      /\ newline \in 0..Len(p.pending)
  BY <1>1, MarkerBounds
<1>4. result \in 0..Len(p.pending)
  BY <1>1, MarkerBounds
<1>5. held \in 0..Len(p.pending)
  BY <1>1, PartialIs
<1>6. fence = 1 => Len(CallFence) \in 1..Len(p.pending)
  BY <1>1, MarkerBounds, MarkerTypes
<1>7. inline = 1 => Advances(p, AtInlineCall(p))
  BY AtInlineCallIs
<1> HIDE DEF result, fence, inline, tag, newline, held
<1>8. \A i \in 0..Len(p.pending) : i > 1 => Advances(p, EmitBefore(p, i))
  <2>1. ASSUME NEW i \in 0..Len(p.pending), i > 1
        PROVE  Advances(p, EmitBefore(p, i))
    <3>1. i \in 1..Len(p.pending) + 1
      BY <1>1, <2>1
    <3>2. QED
      BY <2>1, <3>1, EmitBeforeIs
  <2>2. QED
    BY <2>1
<1>9. Advances(p, AtResult(p, newline)) /\ Advances(p, AtFollowUp(p)) /\ Advances(p, AtPlain(p, held))
  BY <1>3, <1>5, AtResultIs, AtFollowUpIs, AtPlainIs
<1>10. fence = 1 => Advances(p, Enter(p, Len(CallFence), "block"))
  BY <1>6, EnterIs
<1>11. DrainNormal(p, result, fence, inline, tag) =
         IF result > 1 THEN EmitBefore(p, result)
         ELSE IF result = 1 THEN AtResult(p, newline)
         ELSE IF fence > 1 THEN EmitBefore(p, fence)
         ELSE IF fence = 1 THEN Enter(p, Len(CallFence), "block")
         ELSE IF inline > 1 THEN EmitBefore(p, inline)
         ELSE IF inline = 1 THEN AtInlineCall(p)
         ELSE IF tag > 1 THEN EmitBefore(p, tag)
         ELSE IF tag = 1 THEN AtFollowUp(p)
         ELSE AtPlain(p, held)
  BY DEF DrainNormal, newline, held
<1>12. Advances(p, DrainNormal(p, result, fence, inline, tag))
  BY <1>3, <1>4, <1>7, <1>8, <1>9, <1>10, <1>11
<1>13. QED
  BY <1>12 DEF result, fence, inline, tag

-----------------------------------------------------------------------------
(* The iteration inside a line or a block.                                 *)
LEMMA RestIs ==
  ASSUME NEW p \in Protocols, NEW i \in 2..Len(p.pending) + 1
  PROVE  /\ Advances(p, Leave(p, From(p.pending, i)))
         /\ Advances(p, Leave(p, StripNewlines(From(p.pending, i))))
<1>1. p.pending \in Toks /\ Len(p.pending) \in Nat
  BY EmptyIs DEF Protocols
<1>2. i \in 1..Len(p.pending) + 1
  BY <1>1
<1> DEFINE rest == From(p.pending, i)
<1>3. rest \in Toks /\ Len(rest) = Len(p.pending) - i + 1
  BY <1>1, <1>2, CutIs
<1> HIDE DEF rest
<1>4. StripNewlines(rest) \in Toks /\ Len(StripNewlines(rest)) <= Len(rest)
  BY <1>3, StripIs
<1>5. Len(rest) < Len(p.pending) /\ Len(StripNewlines(rest)) < Len(p.pending)
  <2>1. Len(StripNewlines(rest)) \in Nat
    BY <1>4 DEF Toks
  <2>2. QED
    BY <1>1, <1>2, <1>3, <1>4, <2>1
<1>6. QED
  BY <1>3, <1>4, <1>5, LeaveIs DEF rest

LEMMA DrainLineIs ==
  ASSUME NEW p \in Protocols, NEW newline \in 0..Len(p.pending)
  PROVE  Advances(p, DrainLine(p, newline))
<1>1. Len(p.pending) \in Nat
  BY EmptyIs
<1>2. newline # 0 => newline + 1 \in 2..Len(p.pending) + 1
  BY <1>1
<1>3. QED
  BY <1>2, RestIs, UnfinishedIs DEF DrainLine

LEMMA DrainFencedResultIs ==
  ASSUME NEW p \in Protocols, p.pending # <<>>
  PROVE  Advances(p, DrainFencedResult(p, Find(p.pending, <<Newline>> \o Fence)))
<1> DEFINE close == Find(p.pending, <<Newline>> \o Fence)
<1>1. p.pending \in Toks /\ Len(p.pending) \in Nat /\ Len(p.pending) > 0
  BY EmptyIs DEF Protocols
<1>2. close \in 0..Len(p.pending) /\ (close # 0 => close + 3 - 1 <= Len(p.pending))
  BY <1>1, MarkerBounds
<1> HIDE DEF close
<1>3. close # 0 => close + Len(Fence) + 1 \in 2..Len(p.pending) + 1
  BY <1>1, <1>2, MarkerTypes
<1>4. Advances(p, Leave(p, <<>>))
  BY <1>1, EmptyIs, LeaveIs
<1>5. Advances(p, DrainFencedResult(p, close))
  BY <1>3, <1>4, RestIs, UnfinishedIs DEF DrainFencedResult
<1>6. QED
  BY <1>5 DEF close

LEMMA DrainInlineCallIs ==
  ASSUME NEW p \in Protocols, NEW newline \in 0..Len(p.pending)
  PROVE  Advances(p, DrainInlineCall(p, newline))
<1>1. Len(p.pending) \in Nat
  BY EmptyIs
<1>2. CASE newline = 0
  BY <1>2, UnfinishedIs DEF DrainInlineCall
<1>3. CASE newline # 0
  <2> DEFINE q == Leave(p, StripNewlines(From(p.pending, newline + 1)))
  <2>1. newline + 1 \in 2..Len(p.pending) + 1
    BY <1>1, <1>3
  <2>2. Advances(p, q)
    BY <2>1, RestIs
  <2>3. DrainInlineCall(p, newline) = ParseCall(q, Before(p.pending, newline))
    BY <1>3 DEF DrainInlineCall
  <2> HIDE DEF q
  <2>4. SameQueue(q, ParseCall(q, Before(p.pending, newline)))
    BY <2>2, ParseCallIs DEF Advances
  <2>5. QED
    BY <2>2, <2>3, <2>4, QueueOf
<1>4. QED
  BY <1>2, <1>3

LEMMA DrainBlockIs ==
  ASSUME NEW p \in Protocols, p.pending # <<>>
  PROVE  Advances(p, DrainBlock(p, Find(p.pending, Fence)))
<1> DEFINE close == Find(p.pending, Fence)
<1>1. p.pending \in Toks /\ Len(p.pending) \in Nat
  BY EmptyIs DEF Protocols
<1>2. close \in 0..Len(p.pending) /\ (close # 0 => close + 2 - 1 <= Len(p.pending))
  BY <1>1, MarkerBounds
<1> HIDE DEF close
<1>3. CASE close = 0
  <2> DEFINE body == p.body \o p.pending
             over == p.oversized \/ Len(body) > MaxToolBlock
             kept == IF over THEN <<>> ELSE body
             mode == IF p.final THEN "normal" ELSE p.mode
             q == [p EXCEPT !.oversized = over, !.body = kept, !.pending = <<>>, !.mode = mode]
  <2>1. p.body \in Toks /\ p.oversized \in BOOLEAN /\ p.mode \in {"normal", "block", "inline_call", "inline_result", "result"}
    BY DEF Protocols
  <2>2. body \in Toks
    BY <1>1, <2>1, ConcatProperties DEF Toks
  <2> HIDE DEF body
  <2>3. kept \in Toks
    BY <2>2 DEF Toks
  <2>4. over \in BOOLEAN
    BY <2>1
  <2>5. mode \in {"normal", "block", "inline_call", "inline_result", "result"}
    BY <2>1
  <2>6. Absorb(p, p.pending) = [p EXCEPT !.oversized = over, !.body = kept]
    BY DEF Absorb, body
  <2> HIDE DEF kept, over
  <2>7. [Absorb(p, p.pending) EXCEPT !.pending = <<>>, !.mode = IF p.final THEN "normal" ELSE @] = q
    BY <2>6 DEF Protocols
  <2>8. DrainBlock(p, close) = Stop(q)
    BY <1>3, <2>7 DEF DrainBlock
  <2> HIDE DEF mode
  <2>9. q \in Protocols
    BY <2>3, <2>4, <2>5, EmptyIs DEF Protocols
  <2> HIDE DEF q
  <2>10. DrainBlock(p, close) \in Protocols /\ ~DrainBlock(p, close).more
    BY <2>8, <2>9, StopIs DEF Stop, Protocols
  <2>11. QED
    BY <2>10 DEF Advances, close
<1>4. CASE close # 0
  <2> DEFINE q == Leave(p, StripNewlines(From(p.pending, close + Len(Fence))))
             body == IF p.oversized THEN <<>> ELSE Trim(p.body \o Before(p.pending, close))
  <2>1. close + Len(Fence) \in 2..Len(p.pending) + 1
    BY <1>1, <1>2, <1>4, MarkerTypes
  <2>2. Advances(p, q)
    BY <2>1, RestIs
  <2>3. DrainBlock(p, close) = ParseCall(q, body)
    BY <1>4 DEF DrainBlock
  <2> HIDE DEF q, body
  <2>4. SameQueue(q, ParseCall(q, body))
    BY <2>2, ParseCallIs DEF Advances
  <2>5. QED
    BY <2>2, <2>3, <2>4, QueueOf DEF close
<1>5. QED
  BY <1>3, <1>4

(* One iteration of drain stops or takes a token at least.                 *)
LEMMA DrainStepTakes ==
  ASSUME NEW p \in Protocols
  PROVE  Advances(p, DrainStep(p))
<1>1. p.pending \in Toks
  BY DEF Protocols
<1>2. CASE p.pending = <<>>
  <2>1. (IF p.mode = "normal" THEN p ELSE Unfinished(p)) \in Protocols
    BY UnfinishedIs DEF Advances
  <2>2. DrainStep(p) = Stop(IF p.mode = "normal" THEN p ELSE Unfinished(p))
    BY <1>2 DEF DrainStep
  <2>3. DrainStep(p) \in Protocols /\ ~DrainStep(p).more
    BY <2>1, <2>2, StopIs DEF Stop, Protocols
  <2>4. QED
    BY <2>3 DEF Advances
<1>3. CASE p.pending # <<>>
  <2>1. Advances(p, DrainNormal(p, FindAny(p.pending, ResultMarkers), Find(p.pending, CallFence),
                                Find(p.pending, CallInline), Find(p.pending, FollowUpPrefix)))
    BY <1>3, DrainNormalIs
  <2>2. Advances(p, DrainBlock(p, Find(p.pending, Fence)))
    BY <1>3, DrainBlockIs
  <2>3. Advances(p, DrainFencedResult(p, Find(p.pending, <<Newline>> \o Fence)))
    BY <1>3, DrainFencedResultIs
  <2>4. /\ Advances(p, DrainInlineCall(p, Find(p.pending, <<Newline>>)))
        /\ Advances(p, DrainLine(p, Find(p.pending, <<Newline>>)))
    BY <1>1, MarkerBounds, DrainInlineCallIs, DrainLineIs
  <2>5. QED
    BY <1>3, <2>1, <2>2, <2>3, <2>4, Zenon DEF DrainStep
<1>4. QED
  BY <1>2, <1>3

-----------------------------------------------------------------------------
(* Induction and recursion up to a bound, over a set in place of a formula *)
(* and a sequence of functions in place of an operator.                    *)
LEMMA InductionUpTo ==
  ASSUME NEW N \in Nat, NEW D, 0 \in D, \A n \in 1..N : n - 1 \in D => n \in D
  PROVE  \A n \in 0..N : n \in D
<1> DEFINE T == {n \in Nat : n <= N /\ n \notin D}
<1>1. SUFFICES ASSUME T # {}
               PROVE  FALSE
  <2>1. \A n \in 0..N : n \notin D => n \in T
    OBVIOUS
  <2>2. T = {} => \A n \in 0..N : n \in D
    BY <2>1
  <2>3. QED
    BY <2>2, Zenon
<1>2. PICK n \in T : \A m \in T : n <= m
  BY <1>1, LeastNatural
<1>3. n # 0 /\ n \in 1..N /\ n \notin D
  BY <1>2
<1>4. n - 1 \in D
  <2>1. n - 1 \in Nat /\ n - 1 <= N /\ ~(n <= n - 1)
    BY <1>3
  <2>2. QED
    BY <1>2, <2>1
<1>5. QED
  BY <1>3, <1>4

Turns(T, N) == [1..N -> [T -> T]]

Iterates(f, T, b, N, g) ==
  f \in [0..N -> T] /\ f[0] = b /\ \A n \in 1..N : f[n] = g[n][f[n - 1]]

LEMMA RecursionUpTo ==
  ASSUME NEW T, NEW b \in T, NEW N \in Nat, NEW g \in Turns(T, N)
  PROVE  \E f : Iterates(f, T, b, N, g)
<1> DEFINE Solves(f, m) ==
             f \in [0..m -> T] /\ f[0] = b /\ \A n \in 1..m : f[n] = g[n][f[n - 1]]
           D == {m \in 0..N : \E f : Solves(f, m)}
<1>1. 0 \in D
  <2> DEFINE f == [n \in 0..0 |-> b]
  <2>1. Solves(f, 0)
    OBVIOUS
  <2> HIDE DEF f, Solves
  <2>2. \E h : Solves(h, 0)
    BY <2>1
  <2>3. 0 \in 0..N
    OBVIOUS
  <2>4. QED
    BY <2>2, <2>3
<1>2. ASSUME NEW m \in 1..N, m - 1 \in D
      PROVE  m \in D
  <2>1. PICK f : Solves(f, m - 1)
    BY <1>2
  <2> DEFINE h == [n \in 0..m |-> IF n = m THEN g[m][f[m - 1]] ELSE f[n]]
  <2>2. m - 1 \in 0..m - 1 /\ f[m - 1] \in T
    BY <2>1
  <2>3. g[m][f[m - 1]] \in T
    BY <2>2 DEF Turns
  <2>4. h \in [0..m -> T]
    <3>1. ASSUME NEW n \in 0..m, n # m
          PROVE  f[n] \in T
      <4>1. n \in 0..m - 1
        BY <3>1
      <4>2. QED
        BY <2>1, <4>1
    <3>2. QED
      BY <2>3, <3>1
  <2>5. h[0] = b
    BY <2>1
  <2>6. ASSUME NEW n \in 1..m
        PROVE  h[n] = g[n][h[n - 1]]
    <3>1. n - 1 \in 0..m /\ n - 1 # m
      OBVIOUS
    <3>2. h[n - 1] = f[n - 1]
      BY <3>1
    <3>3. CASE n = m
      BY <3>2, <3>3
    <3>4. CASE n # m
      <4>1. n \in 1..m - 1
        BY <3>4
      <4>2. QED
        BY <2>1, <3>2, <3>4, <4>1
    <3>5. QED
      BY <3>3, <3>4
  <2> HIDE DEF h
  <2>7. Solves(h, m)
    BY <2>4, <2>5, <2>6
  <2> HIDE DEF Solves
  <2>8. \E f0 : Solves(f0, m)
    BY <2>7
  <2>9. m \in 0..N
    OBVIOUS
  <2>10. QED
    BY <2>8, <2>9
<1> HIDE DEF D
<1>3. \A n \in 0..N : n \in D
  BY <1>1, <1>2, InductionUpTo
<1>4. N \in D
  BY <1>3
<1>5. QED
  BY <1>4 DEF D, Iterates

(* The loop of drain ends within the iterations Drain allows for.          *)
Runs(f, p) ==
  f = [n \in 0..Len(p.pending) + 1 |->
         IF n = 0 THEN p
         ELSE LET before == f[n - 1] IN IF before.more THEN DrainStep(before) ELSE before]

LEMMA DrainIs ==
  ASSUME NEW p \in Protocols
  PROVE  \E f : Runs(f, p) /\ Drain(p) = f[Len(p.pending) + 1]
<1> DEFINE N == Len(p.pending) + 1
           Turn(q) == IF q.more THEN DrainStep(q) ELSE q
           g == [n \in 1..N |-> [q \in Protocols |-> Turn(q)]]
<1>1. N \in Nat
  BY EmptyIs
<1>2. \A q \in Protocols : Turn(q) \in Protocols
  BY DrainStepTakes DEF Advances
<1> HIDE DEF Turn, N
<1>3. g \in Turns(Protocols, N)
  BY <1>2 DEF Turns
<1>4. PICK f : f \in [0..N -> Protocols] /\ f[0] = p /\ \A n \in 1..N : f[n] = g[n][f[n - 1]]
  <2> HIDE DEF g
  <2>1. \E f : Iterates(f, Protocols, p, N, g)
    BY <1>1, <1>3, RecursionUpTo
  <2>2. QED
    BY <2>1 DEF Iterates
<1>5. \A n \in 1..N : f[n] = Turn(f[n - 1])
  <2>1. ASSUME NEW n \in 1..N
        PROVE  f[n] = Turn(f[n - 1])
    <3>1. n - 1 \in 0..N
      BY <1>1
    <3>2. QED
      BY <1>4, <3>1
  <2>2. QED
    BY <2>1
<1>6. f = [n \in 0..N |-> IF n = 0 THEN p ELSE Turn(f[n - 1])]
  <2>1. \A n \in 0..N : n = 0 \/ n \in 1..N
    BY <1>1
  <2>2. \A n \in 0..N : f[n] = IF n = 0 THEN p ELSE Turn(f[n - 1])
    BY <1>4, <1>5, <2>1
  <2>3. QED
    BY <1>4, <2>2
<1>7. Runs(f, p)
  BY <1>6 DEF Runs, Turn, N
<1>8. Runs(CHOOSE h : Runs(h, p), p)
  BY <1>7
<1>9. Drain(p) = (CHOOSE h : Runs(h, p))[Len(p.pending) + 1]
  BY DEF Drain, Runs
<1>10. QED
  BY <1>8, <1>9

(* The loop of drain ends for any text: an iteration that goes on has taken *)
(* a token.  Code: ProtocolDetector::drain, a loop without a bound.         *)
THEOREM DrainEnds ==
  ASSUME NEW p \in Protocols
  PROVE  Drain(p) \in Protocols /\ ~Drain(p).more
<1> DEFINE N == Len(p.pending) + 1
           Shrunk(f, n) == /\ f[n] \in Protocols
                           /\ f[n].more => Len(f[n].pending) <= N - 1 - n
<1>1. PICK f : Runs(f, p) /\ Drain(p) = f[N]
  BY DrainIs
<1> DEFINE D == {n \in 0..N : Shrunk(f, n)}
<1>2. N \in Nat /\ N >= 1 /\ Len(p.pending) = N - 1
  BY EmptyIs
<1> HIDE DEF N
<1>3. f[0] = p
  BY <1>1, <1>2 DEF Runs, N
<1>4. ASSUME NEW n \in 1..N
      PROVE  f[n] = IF f[n - 1].more THEN DrainStep(f[n - 1]) ELSE f[n - 1]
  <2>1. n \in 0..Len(p.pending) + 1 /\ n # 0
    BY <1>2
  <2>2. QED
    BY <1>1, <2>1 DEF Runs
<1>5. 0 \in D
  BY <1>2, <1>3
<1>6. ASSUME NEW n \in 1..N, n - 1 \in D
      PROVE  n \in D
  <2> DEFINE q == f[n - 1]
  <2>1. q \in Protocols /\ (q.more => Len(q.pending) <= N - 1 - (n - 1))
    BY <1>6
  <2>2. f[n] = IF q.more THEN DrainStep(q) ELSE q
    BY <1>4
  <2> HIDE DEF q
  <2>3. CASE ~q.more
    BY <2>1, <2>2, <2>3
  <2>4. CASE q.more
    <3>1. f[n] = DrainStep(q)
      BY <2>2, <2>4
    <3>2. f[n] \in Protocols /\ (f[n].more => Len(f[n].pending) < Len(q.pending))
      BY <2>1, <3>1, DrainStepTakes DEF Advances
    <3>3. Len(q.pending) \in Nat /\ Len(f[n].pending) \in Nat
      BY <2>1, <3>2, EmptyIs
    <3>4. f[n].more => Len(f[n].pending) <= N - 1 - n
      BY <1>2, <2>1, <2>4, <3>2, <3>3
    <3>5. QED
      BY <3>2, <3>4
  <2>5. QED
    BY <2>3, <2>4
<1>7. N \in D
  <2> HIDE DEF D
  <2>1. \A n \in 0..N : n \in D
    BY <1>2, <1>5, <1>6, InductionUpTo
  <2>2. QED
    BY <1>2, <2>1
<1>8. Drain(p) \in Protocols /\ (Drain(p).more => Len(Drain(p).pending) <= -1)
  BY <1>1, <1>2, <1>7
<1>9. QED
  BY <1>8, EmptyIs

LEMMA FeedProtocolType ==
  ASSUME NEW p \in Protocols, NEW chunk \in Toks
  PROVE  FeedProtocol(p, chunk) \in Protocols
<1> DEFINE text == p.pending \o chunk
           q == [p EXCEPT !.pending = text, !.more = TRUE]
<1>1. p.pending \in Toks
  BY DEF Protocols
<1>2. text \in Toks
  BY <1>1, ConcatProperties DEF Toks
<1>3. FeedProtocol(p, chunk) = IF chunk = <<>> THEN p
                               ELSE IF Len(p.pending) + Len(chunk) > MaxPending THEN Leave(p, <<>>)
                               ELSE Drain(q)
  BY DEF FeedProtocol
<1> HIDE DEF text
<1>4. q \in Protocols
  BY <1>2 DEF Protocols
<1> HIDE DEF q
<1>5. QED
  BY <1>3, <1>4, DrainEnds, EmptyIs, HoldIs

LEMMA FinishProtocolType ==
  ASSUME NEW p \in Protocols
  PROVE  FinishProtocol(p) \in Protocols
<1> DEFINE q == [p EXCEPT !.final = TRUE, !.more = TRUE]
<1>1. q \in Protocols
  BY DEF Protocols
<1>2. FinishProtocol(p) = Leave(Drain(q), <<>>)
  BY DEF FinishProtocol
<1> HIDE DEF q
<1>3. QED
  BY <1>1, <1>2, DrainEnds, EmptyIs, HoldIs

LEMMA NewProtocolType == NewProtocol \in Protocols
<1>1. <<>> \in Toks /\ <<>> \in Seq(Found)
  BY DEF Toks
<1>2. QED
  BY <1>1 DEF NewProtocol, Protocols

-----------------------------------------------------------------------------
(* The reasoning detector: what it withholds is the beginning of a marker   *)
(* it may still see.                                                        *)
Begins(t, ms) == t = <<>> \/ \E m \in ms : Len(t) < Len(m) /\ t = SubSeq(m, 1, Len(t))

Said == [kind : {"text", "reasoning"}, toks : Toks]

HeldBack(r) ==
  /\ r.phase \in {"detecting", "response"} => Begins(r.pending, ThinkOpen)
  /\ r.phase = "reasoning" => Begins(r.pending, {ThinkClose})

Reasonings ==
  {r \in [phase : {"detecting", "reasoning", "response", "completed"}, pending : Toks,
          supported : BOOLEAN, out : Seq(Said)] : HeldBack(r)}

LEMMA NothingBegins ==
  /\ <<>> \in Toks
  /\ \A ms : Begins(<<>>, ms)
  BY DEF Toks, Begins

LEMMA SayType ==
  ASSUME NEW r \in Reasonings, NEW kind \in {"text", "reasoning"}, NEW t \in Toks
  PROVE  Say(r, kind, t) \in Reasonings
<1> DEFINE e == [kind |-> kind, toks |-> t]
           out == Append(r.out, e)
<1>1. e \in Said
  BY DEF Said
<1> HIDE DEF e
<1>2. out \in Seq(Said)
  BY <1>1 DEF Reasonings
<1>3. Say(r, kind, t) = IF t = <<>> THEN r ELSE [r EXCEPT !.out = out]
  BY DEF Say, e
<1> HIDE DEF out
<1>4. QED
  BY <1>2, <1>3 DEF Reasonings, HeldBack

(* The end that a marker could continue is the beginning of one.            *)
LEMMA SuffixBegins ==
  ASSUME NEW s \in Toks, NEW ms
  PROVE  /\ PartialSuffix(s, ms) \in 0..Len(s)
         /\ From(s, Len(s) - PartialSuffix(s, ms) + 1) \in Toks
         /\ Begins(From(s, Len(s) - PartialSuffix(s, ms) + 1), ms)
<1> DEFINE held == PartialSuffix(s, ms)
           u == From(s, Len(s) - held + 1)
<1>1. Len(s) \in Nat /\ held \in 0..Len(s)
  BY PartialIs DEF Toks
<1>2. held # 0 => \E m \in ms : held < Len(m) /\ u = SubSeq(m, 1, held)
  BY PartialIs DEF From
<1> HIDE DEF held
<1>3. Len(s) - held + 1 \in 1..Len(s) + 1 /\ Len(s) - (Len(s) - held + 1) + 1 = held
  BY <1>1
<1>4. u \in Toks /\ Len(u) = held
  BY <1>3, CutIs
<1> HIDE DEF u
<1>5. held = 0 => u = <<>>
  BY <1>4 DEF Toks
<1>6. Begins(u, ms)
  BY <1>2, <1>4, <1>5 DEF Begins
<1>7. QED
  BY <1>1, <1>4, <1>6 DEF held, u

LEMMA FeedBodyType ==
  ASSUME NEW r \in Reasonings, r.phase = "reasoning", NEW s \in Toks
  PROVE  FeedBody(r, s, Find(s, ThinkClose)) \in Reasonings
<1> DEFINE close == Find(s, ThinkClose)
           held == PartialSuffix(s, {ThinkClose})
<1>1. Len(s) \in Nat
  BY DEF Toks
<1>2. close \in 0..Len(s) /\ (close # 0 => close + 3 - 1 <= Len(s))
  BY MarkerTypes, FindWithin
<1>3. held \in 0..Len(s) /\ Begins(From(s, Len(s) - held + 1), {ThinkClose})
  BY SuffixBegins
<1> HIDE DEF close
<1>4. CASE close = 0
  <2> DEFINE i == Len(s) - held + 1
             q == [r EXCEPT !.pending = From(s, i)]
  <2>1. i \in 1..Len(s) + 1
    BY <1>1, <1>3
  <2>2. FeedBody(r, s, close) = Say(q, "reasoning", Before(s, i))
    BY <1>4 DEF FeedBody, SayBefore
  <2>3. Begins(From(s, i), {ThinkClose})
    BY <1>3
  <2> HIDE DEF i
  <2>4. From(s, i) \in Toks /\ Before(s, i) \in Toks
    BY <2>1, CutIs
  <2>5. q \in Reasonings
    BY <2>3, <2>4 DEF Reasonings, HeldBack
  <2> HIDE DEF q
  <2>6. QED
    BY <2>2, <2>4, <2>5, SayType DEF close
<1>5. CASE close # 0
  <2> DEFINE q == [r EXCEPT !.phase = "response", !.pending = <<>>]
             after == close + 3
  <2>1. close \in 1..Len(s) + 1 /\ after \in 1..Len(s) + 1
    BY <1>1, <1>2, <1>5
  <2>2. FeedBody(r, s, close) = Say(Say(q, "reasoning", Before(s, close)), "text", From(s, after))
    BY <1>5, MarkerTypes DEF FeedBody
  <2>3. q \in Reasonings
    BY NothingBegins DEF Reasonings, HeldBack
  <2> HIDE DEF q, after
  <2>4. Before(s, close) \in Toks /\ From(s, after) \in Toks
    BY <2>1, CutIs
  <2>5. Say(q, "reasoning", Before(s, close)) \in Reasonings
    BY <2>3, <2>4, SayType
  <2>6. QED
    BY <2>2, <2>4, <2>5, SayType DEF close
<1>6. QED
  BY <1>4, <1>5 DEF close

LEMMA OpeningIs ==
  ASSUME NEW s \in Toks
  PROVE  /\ Opening(s, ThinkOpen) \in {0, 3}
         /\ Opening(s, ThinkOpen) = 3 => 3 + 1 \in 1..Len(s) + 1
<1> DEFINE at == FindAny(s, ThinkOpen)
           mark == CHOOSE m \in ThinkOpen : Find(s, m) = 1
<1>1. ThinkOpen \in SUBSET Toks /\ \A m \in ThinkOpen : Len(m) # 0
  BY MarkerTypes
<1>2. at # 0 => \E m \in ThinkOpen : Find(s, m) = at
  BY <1>1, FindAnyIs
<1>3. Opening(s, ThinkOpen) = IF at = 1 THEN Len(mark) ELSE 0
  BY DEF Opening
<1> HIDE DEF at
<1>4. CASE at = 1
  <2>1. \E m \in ThinkOpen : Find(s, m) = 1
    BY <1>2, <1>4
  <2>2. mark \in ThinkOpen /\ Find(s, mark) = 1
    BY <2>1
  <2> HIDE DEF mark
  <2>3. mark \in Toks /\ Len(mark) = 3
    BY <2>2, MarkerTypes
  <2>4. 3 \in 1..Len(s)
    BY <2>2, <2>3, FindWithin
  <2>5. Len(s) \in Nat
    BY DEF Toks
  <2>6. QED
    BY <1>3, <1>4, <2>3, <2>4, <2>5
<1>5. CASE at # 1
  BY <1>3, <1>5
<1>6. QED
  BY <1>4, <1>5

LEMMA FeedDetectingType ==
  ASSUME NEW r \in Reasonings, r.phase = "detecting", NEW s \in Toks
  PROVE  FeedDetecting(r, s, PartialSuffix(s, ThinkOpen)) \in Reasonings
<1> DEFINE held == PartialSuffix(s, ThinkOpen)
           open == Opening(s, ThinkOpen)
           u == From(s, 3 + 1)
<1>1. Len(s) \in Nat
  BY DEF Toks
<1>2. open \in {0, 3} /\ (open = 3 => 3 + 1 \in 1..Len(s) + 1)
  BY OpeningIs
<1>3. held \in 0..Len(s) /\ Begins(From(s, Len(s) - held + 1), ThinkOpen)
  BY SuffixBegins
<1>4. FeedDetecting(r, s, held) =
        IF open > 0
        THEN LET body == From(s, open + 1)
             IN  FeedBody([r EXCEPT !.phase = "reasoning", !.pending = <<>>], body,
                          Find(body, ThinkClose))
        ELSE IF Len(s) <= held THEN [r EXCEPT !.pending = s]
        ELSE SayBefore([r EXCEPT !.phase = "response"], "text", s, Len(s) - held + 1)
  BY DEF FeedDetecting
<1> HIDE DEF open, held
<1>5. CASE open = 3
  <2> DEFINE q == [r EXCEPT !.phase = "reasoning", !.pending = <<>>]
  <2>1. u \in Toks
    BY <1>2, <1>5, CutIs
  <2>2. q \in Reasonings /\ q.phase = "reasoning"
    BY NothingBegins DEF Reasonings, HeldBack
  <2>3. FeedDetecting(r, s, held) = FeedBody(q, u, Find(u, ThinkClose))
    BY <1>4, <1>5
  <2> HIDE DEF q, u
  <2>4. QED
    BY <2>1, <2>2, <2>3, FeedBodyType DEF held
<1>6. CASE open = 0 /\ Len(s) <= held
  <2>1. Len(s) - held + 1 = 1
    BY <1>1, <1>3, <1>6
  <2>2. From(s, 1) = s
    BY SubSeqFull DEF From, Toks
  <2>3. Begins(s, ThinkOpen)
    BY <1>3, <2>1, <2>2
  <2>4. [r EXCEPT !.pending = s] \in Reasonings
    BY <2>3 DEF Reasonings, HeldBack
  <2>5. QED
    BY <1>4, <1>6, <2>4 DEF held
<1>7. CASE open = 0 /\ ~(Len(s) <= held)
  <2> DEFINE i == Len(s) - held + 1
             q == [[r EXCEPT !.phase = "response"] EXCEPT !.pending = From(s, i)]
  <2>1. i \in 1..Len(s) + 1
    BY <1>1, <1>3
  <2>2. FeedDetecting(r, s, held) = Say(q, "text", Before(s, i))
    BY <1>4, <1>7 DEF SayBefore
  <2>3. Begins(From(s, i), ThinkOpen)
    BY <1>3
  <2> HIDE DEF i
  <2>4. From(s, i) \in Toks /\ Before(s, i) \in Toks
    BY <2>1, CutIs
  <2>5. q \in Reasonings
    BY <2>3, <2>4 DEF Reasonings, HeldBack
  <2> HIDE DEF q
  <2>6. QED
    BY <2>2, <2>4, <2>5, SayType DEF held
<1>8. QED
  BY <1>2, <1>5, <1>6, <1>7 DEF held

LEMMA FeedReasoningType ==
  ASSUME NEW r \in Reasonings, NEW t \in Toks
  PROVE  FeedReasoning(r, t) \in Reasonings
<1> DEFINE s == r.pending \o t
<1>1. r.phase \in {"detecting", "reasoning", "response", "completed"} /\ r.pending \in Toks
  BY DEF Reasonings
<1>2. s \in Toks
  BY <1>1, ConcatProperties DEF Toks
<1>3. FeedReasoning(r, t) =
        IF t = <<>> \/ r.phase = "completed" THEN r
        ELSE IF r.phase = "response" THEN Say(r, "text", t)
        ELSE IF r.phase = "detecting" THEN FeedDetecting(r, s, PartialSuffix(s, ThinkOpen))
        ELSE FeedBody(r, s, Find(s, ThinkClose))
  BY DEF FeedReasoning
<1> HIDE DEF s
<1>4. r.phase = "detecting" => FeedDetecting(r, s, PartialSuffix(s, ThinkOpen)) \in Reasonings
  BY <1>2, FeedDetectingType
<1>5. r.phase = "reasoning" => FeedBody(r, s, Find(s, ThinkClose)) \in Reasonings
  BY <1>2, FeedBodyType
<1>6. Say(r, "text", t) \in Reasonings
  BY SayType
<1>7. QED
  BY <1>1, <1>3, <1>4, <1>5, <1>6

LEMMA FinishReasoningType ==
  ASSUME NEW r \in Reasonings
  PROVE  FinishReasoning(r) \in Reasonings
<1> DEFINE q == [r EXCEPT !.phase = "completed", !.pending = <<>>]
           kind == IF r.phase = "reasoning" THEN "reasoning" ELSE "text"
<1>1. q \in Reasonings
  BY NothingBegins DEF Reasonings, HeldBack
<1>2. kind \in {"text", "reasoning"} /\ r.pending \in Toks
  BY DEF Reasonings
<1>3. FinishReasoning(r) = IF r.phase = "completed" THEN r ELSE Say(q, kind, r.pending)
  BY DEF FinishReasoning
<1> HIDE DEF q, kind
<1>4. QED
  BY <1>1, <1>2, <1>3, SayType

LEMMA NewReasoningType ==
  ASSUME NEW supported \in BOOLEAN
  PROVE  NewReasoning(supported) \in Reasonings
<1>1. <<>> \in Seq(Said)
  OBVIOUS
<1>2. QED
  BY <1>1, NothingBegins DEF NewReasoning, Reasonings, HeldBack

-----------------------------------------------------------------------------
(* The semantic stream: every operation leaves one, whatever it is given.   *)
Failures == {"none", "network", "refused", "divergence", "blocked", "unusable"}
Marks == {"usage", "block", "refused"}

ModelEvents ==
  Said \cup Requests \cup [kind : {"usage"}] \cup [kind : {"error"}, of : Failures]

Streams ==
  [protocol : Protocols, reasoning : Reasonings, ids : SUBSET Ids,
   completed : BOOLEAN, out : Seq(ModelEvents)]

LEMMA HeardType ==
  ASSUME NEW s \in Streams, NEW r \in Reasonings
  PROVE  Heard(s, r) \in Streams
<1> DEFINE u == [r EXCEPT !.out = <<>>]
           out == s.out \o r.out
<1>1. r.out \in Seq(Said) /\ s.out \in Seq(ModelEvents)
  BY DEF Reasonings, Streams
<1>2. r.out \in Seq(ModelEvents)
  BY <1>1 DEF ModelEvents
<1>3. u \in Reasonings
  <2>1. <<>> \in Seq(Said)
    OBVIOUS
  <2>2. QED
    BY <2>1 DEF Reasonings, HeldBack
<1>4. out \in Seq(ModelEvents)
  BY <1>1, <1>2, ConcatProperties
<1>5. Heard(s, r) = [s EXCEPT !.reasoning = u, !.out = out]
  BY DEF Heard
<1> HIDE DEF u, out
<1>6. QED
  BY <1>3, <1>4, <1>5 DEF Streams

LEMMA ToReasoningType ==
  ASSUME NEW s \in Streams, NEW t \in Toks
  PROVE  ToReasoning(s, t) \in Streams
<1>1. s.reasoning \in Reasonings
  BY DEF Streams
<1>2. QED
  BY <1>1, FeedReasoningType, HeardType DEF ToReasoning

LEMMA ProjectCallType ==
  ASSUME NEW s \in Streams, NEW id \in Ids
  PROVE  ProjectCall(s, id) \in Streams
<1> DEFINE out == Append(s.out, Call(id))
           ids == s.ids \cup {id}
<1>1. Call(id) \in ModelEvents
  BY DEF Call, ModelEvents, Requests
<1>2. out \in Seq(ModelEvents) /\ ids \in SUBSET Ids
  BY <1>1 DEF Streams
<1>3. ProjectCall(s, id) = IF id \in s.ids THEN s ELSE [s EXCEPT !.ids = ids, !.out = out]
  BY DEF ProjectCall
<1> HIDE DEF out, ids
<1>4. QED
  BY <1>2, <1>3 DEF Streams

LEMMA ProjectResidueType ==
  ASSUME NEW s \in Streams, NEW e \in Found
  PROVE  ProjectResidue(s, e) \in Streams
<1>1. e.kind = "call" => e.id \in Ids
  BY DEF Found, Words, Requests
<1>2. e.kind # "call" => e.toks \in Toks
  BY DEF Found, Words, Requests
<1>3. QED
  BY <1>1, <1>2, ProjectCallType, ToReasoningType DEF ProjectResidue

(* The last of a chain of values in T.                                      *)
LEMMA ChainType ==
  ASSUME NEW T, NEW s \in T, NEW N \in Nat, NEW f, f[0] = s,
         \A n \in 1..N : f[n - 1] \in T => f[n] \in T
  PROVE  f[N] \in T
<1> DEFINE D == {n \in 0..N : f[n] \in T}
<1>1. 0 \in D
  OBVIOUS
<1>2. ASSUME NEW n \in 1..N, n - 1 \in D
      PROVE  n \in D
  BY <1>2
<1> HIDE DEF D
<1>3. \A n \in 0..N : n \in D
  BY <1>1, <1>2, InductionUpTo
<1>4. N \in D
  BY <1>3
<1>5. QED
  BY <1>4 DEF D

LEMMA ProjectResiduesType ==
  ASSUME NEW s \in Streams, NEW events \in Seq(Found)
  PROVE  ProjectResidues(s, events) \in Streams
<1> DEFINE N == Len(events)
           Space == Streams
           g == [n \in 1..N |-> [q \in Space |-> ProjectResidue(q, events[n])]]
           Folds(f) == f = [n \in 0..Len(events) |->
                              IF n = 0 THEN s ELSE ProjectResidue(f[n - 1], events[n])]
<1>1. N \in Nat /\ \A n \in 1..N : events[n] \in Found
  OBVIOUS
<1>2. \A q \in Space : \A n \in 1..N : ProjectResidue(q, events[n]) \in Space
  BY <1>1, ProjectResidueType
<1> HIDE DEF Space, N
<1>4. g \in Turns(Space, N)
  BY <1>2 DEF Turns
<1>5. PICK f : f \in [0..N -> Space] /\ f[0] = s /\ \A n \in 1..N : f[n] = g[n][f[n - 1]]
  <2> HIDE DEF g
  <2>1. s \in Space
    BY DEF Space
  <2>2. N \in Nat
    BY <1>1
  <2>3. \E f : Iterates(f, Space, s, N, g)
    BY <1>4, <2>1, <2>2, RecursionUpTo
  <2>4. QED
    BY <2>3 DEF Iterates
<1>6. \A n \in 1..N : f[n] = ProjectResidue(f[n - 1], events[n])
  <2>1. ASSUME NEW n \in 1..N
        PROVE  f[n] = ProjectResidue(f[n - 1], events[n])
    <3>1. n - 1 \in 0..N
      BY <1>1
    <3>2. QED
      BY <1>5, <3>1
  <2>2. QED
    BY <2>1
<1>7. f = [n \in 0..N |-> IF n = 0 THEN s ELSE ProjectResidue(f[n - 1], events[n])]
  <2>1. \A n \in 0..N : n = 0 \/ n \in 1..N
    BY <1>1
  <2>2. \A n \in 0..N : f[n] = IF n = 0 THEN s ELSE ProjectResidue(f[n - 1], events[n])
    BY <1>5, <1>6, <2>1
  <2>3. QED
    BY <1>5, <2>2
<1>8. Folds(f)
  BY <1>7 DEF N
<1> DEFINE k == CHOOSE h : Folds(h)
<1>9. Folds(k)
  BY <1>8
<1>10. ProjectResidues(s, events) = k[N]
  BY DEF ProjectResidues, N
<1> HIDE DEF k, g
<1>11. k[0] = s /\ \A n \in 1..N : k[n] = ProjectResidue(k[n - 1], events[n])
  <2>1. 0 \in 0..Len(events) /\ \A n \in 1..N : n \in 0..Len(events) /\ n # 0
    BY <1>1 DEF N
  <2>2. QED
    BY <1>9, <2>1
<1>12. \A n \in 1..N : k[n - 1] \in Streams => k[n] \in Streams
  BY <1>2, <1>11 DEF Space
<1>13. QED
  BY <1>1, <1>10, <1>11, <1>12, ChainType

LEMMA ProjectType ==
  ASSUME NEW s \in Streams, NEW e \in Found
  PROVE  Project(s, e) \in Streams
<1>1. CASE e.kind = "call"
  <2>1. e.id \in Ids
    BY <1>1 DEF Found, Words, Requests
  <2>2. QED
    BY <1>1, <2>1, ProjectCallType DEF Project
<1>2. CASE e.kind # "call"
  <2> DEFINE t == e.toks
             again == FinishProtocol(FeedProtocol(NewProtocol, t))
  <2>1. t \in Toks
    BY <1>2 DEF Found, Words, Requests
  <2>2. Project(s, e) = ProjectText(s, t)
    BY <1>2 DEF Project
  <2> HIDE DEF t
  <2>3. again \in Protocols
    BY <2>1, NewProtocolType, FeedProtocolType, FinishProtocolType
  <2>4. again.out \in Seq(Found)
    BY <2>3 DEF Protocols
  <2>5. ProjectText(s, t) = IF HasMarker(t) THEN ProjectResidues(s, again.out) ELSE ToReasoning(s, t)
    BY DEF ProjectText
  <2> HIDE DEF again
  <2>6. QED
    BY <2>1, <2>2, <2>4, <2>5, ProjectResiduesType, ToReasoningType
<1>3. QED
  BY <1>1, <1>2

LEMMA ProjectAllType ==
  ASSUME NEW s \in Streams, NEW events \in Seq(Found)
  PROVE  ProjectAll(s, events) \in Streams
<1> DEFINE N == Len(events)
           Space == Streams
           g == [n \in 1..N |-> [q \in Space |-> Project(q, events[n])]]
           Folds(f) == f = [n \in 0..Len(events) |->
                              IF n = 0 THEN s ELSE Project(f[n - 1], events[n])]
<1>1. N \in Nat /\ \A n \in 1..N : events[n] \in Found
  OBVIOUS
<1>2. \A q \in Space : \A n \in 1..N : Project(q, events[n]) \in Space
  BY <1>1, ProjectType
<1> HIDE DEF Space, N
<1>4. g \in Turns(Space, N)
  BY <1>2 DEF Turns
<1>5. PICK f : f \in [0..N -> Space] /\ f[0] = s /\ \A n \in 1..N : f[n] = g[n][f[n - 1]]
  <2> HIDE DEF g
  <2>1. s \in Space
    BY DEF Space
  <2>2. N \in Nat
    BY <1>1
  <2>3. \E f : Iterates(f, Space, s, N, g)
    BY <1>4, <2>1, <2>2, RecursionUpTo
  <2>4. QED
    BY <2>3 DEF Iterates
<1>6. \A n \in 1..N : f[n] = Project(f[n - 1], events[n])
  <2>1. ASSUME NEW n \in 1..N
        PROVE  f[n] = Project(f[n - 1], events[n])
    <3>1. n - 1 \in 0..N
      BY <1>1
    <3>2. QED
      BY <1>5, <3>1
  <2>2. QED
    BY <2>1
<1>7. f = [n \in 0..N |-> IF n = 0 THEN s ELSE Project(f[n - 1], events[n])]
  <2>1. \A n \in 0..N : n = 0 \/ n \in 1..N
    BY <1>1
  <2>2. \A n \in 0..N : f[n] = IF n = 0 THEN s ELSE Project(f[n - 1], events[n])
    BY <1>5, <1>6, <2>1
  <2>3. QED
    BY <1>5, <2>2
<1>8. Folds(f)
  BY <1>7 DEF N
<1> DEFINE k == CHOOSE h : Folds(h)
<1>9. Folds(k)
  BY <1>8
<1>10. ProjectAll(s, events) = k[N]
  BY DEF ProjectAll, N
<1> HIDE DEF k, g
<1>11. k[0] = s /\ \A n \in 1..N : k[n] = Project(k[n - 1], events[n])
  <2>1. 0 \in 0..Len(events) /\ \A n \in 1..N : n \in 0..Len(events) /\ n # 0
    BY <1>1 DEF N
  <2>2. QED
    BY <1>9, <2>1
<1>12. \A n \in 1..N : k[n - 1] \in Streams => k[n] \in Streams
  BY <1>2, <1>11 DEF Space
<1>13. QED
  BY <1>1, <1>10, <1>11, <1>12, ChainType

LEMMA ParsedType ==
  ASSUME NEW s \in Streams, NEW p \in Protocols
  PROVE  Parsed(s, p) \in Streams
<1> DEFINE u == [p EXCEPT !.out = <<>>]
           q == [s EXCEPT !.protocol = u]
           events == p.out
<1>1. <<>> \in Seq(Found) /\ events \in Seq(Found)
  BY DEF Protocols
<1>2. u \in Protocols
  BY <1>1 DEF Protocols
<1> HIDE DEF u
<1>3. q \in Streams
  BY <1>2 DEF Streams
<1>4. Parsed(s, p) = ProjectAll(q, events)
  BY DEF Parsed, u
<1> HIDE DEF q, events
<1>5. QED
  BY <1>1, <1>3, <1>4, ProjectAllType

(* What the relaying task is given, errors apart.                           *)
LineEvents == Words \cup Requests \cup [kind : {"metadata"}, of : Marks]

LEMMA FeedItemType ==
  ASSUME NEW s \in Streams, NEW item \in LineEvents
  PROVE  FeedItem(s, item) \in Streams
<1>1. CASE s.completed
  BY <1>1 DEF FeedItem
<1>2. CASE ~s.completed /\ item.kind = "text"
  <2>1. item.toks \in Toks
    BY <1>2 DEF LineEvents, Words, Requests
  <2>2. FeedProtocol(s.protocol, item.toks) \in Protocols
    BY <2>1, FeedProtocolType DEF Streams
  <2>3. FeedItem(s, item) = Parsed(s, FeedProtocol(s.protocol, item.toks))
    BY <1>2 DEF FeedItem, FeedText
  <2>4. QED
    BY <2>2, <2>3, ParsedType
<1>3. CASE ~s.completed /\ item.kind = "call"
  <2>1. item.id \in Ids
    BY <1>3 DEF LineEvents, Words, Requests
  <2>2. FeedItem(s, item) = ProjectCall(s, item.id)
    BY <1>3 DEF FeedItem
  <2>3. QED
    BY <2>1, <2>2, ProjectCallType
<1>4. CASE ~s.completed /\ item.kind \notin {"text", "call"}
  <2> DEFINE e == [kind |-> "usage"]
             out == Append(s.out, e)
  <2>1. e \in ModelEvents
    BY DEF ModelEvents
  <2>2. out \in Seq(ModelEvents)
    BY <2>1 DEF Streams
  <2>3. FeedItem(s, item) = IF item.of = "usage" THEN [s EXCEPT !.out = out] ELSE s
    BY <1>4 DEF FeedItem
  <2> HIDE DEF out
  <2>4. QED
    BY <2>2, <2>3 DEF Streams
<1>5. QED
  BY <1>1, <1>2, <1>3, <1>4

LEMMA FinishStreamType ==
  ASSUME NEW s \in Streams
  PROVE  FinishStream(s) \in Streams
<1>1. CASE s.completed
  BY <1>1 DEF FinishStream
<1>2. CASE ~s.completed
  <2> DEFINE p == FinishProtocol(s.protocol)
             q == Parsed(s, p)
             r == Heard(q, FinishReasoning(q.reasoning))
             c == [r EXCEPT !.completed = TRUE]
  <2>1. p \in Protocols
    BY FinishProtocolType DEF Streams
  <2>2. FinishStream(s) = c
    BY <1>2 DEF FinishStream, Complete
  <2> HIDE DEF p
  <2>3. q \in Streams
    BY <2>1, ParsedType
  <2> HIDE DEF q
  <2>4. r \in Streams
    BY <2>3, FinishReasoningType, HeardType DEF Streams
  <2> HIDE DEF r
  <2>5. c \in Streams
    BY <2>4 DEF Streams
  <2>6. QED
    BY <2>2, <2>5
<1>3. QED
  BY <1>1, <1>2

LEMMA NewStreamType ==
  ASSUME NEW supported \in BOOLEAN
  PROVE  NewStream(supported) \in Streams
<1>1. <<>> \in Seq(ModelEvents) /\ {} \in SUBSET Ids
  OBVIOUS
<1>2. QED
  BY <1>1, NewProtocolType, NewReasoningType DEF NewStream, Streams

-----------------------------------------------------------------------------
(* The tokens of a text that are kept.                                      *)
Kept(f, t, kept) ==
  /\ f \in [0..Len(t) -> Toks] /\ f[0] = <<>>
  /\ \A n \in 1..Len(t) : f[n] = IF n \in kept THEN Append(f[n - 1], t[n]) ELSE f[n - 1]

LEMMA KeepingIs ==
  ASSUME NEW t \in Toks, NEW kept
  PROVE  \E f : Kept(f, t, kept) /\ Keeping(t, kept) = f[Len(t)]
<1> DEFINE N == Len(t)
           Turn(u, n) == IF n \in kept THEN Append(u, t[n]) ELSE u
           g == [n \in 1..N |-> [u \in Toks |-> Turn(u, n)]]
           Upto(f) == f = [n \in 0..Len(t) |->
                             IF n = 0 THEN <<>>
                             ELSE IF n \in kept THEN Append(f[n - 1], t[n]) ELSE f[n - 1]]
<1>1. N \in Nat /\ <<>> \in Toks /\ \A n \in 1..N : t[n] \in Tokens
  BY DEF Toks
<1>2. \A n \in 1..N : \A u \in Toks : Turn(u, n) \in Toks
  BY <1>1 DEF Toks
<1> HIDE DEF Turn, N
<1>3. g \in Turns(Toks, N)
  BY <1>2 DEF Turns
<1>4. PICK f : f \in [0..N -> Toks] /\ f[0] = <<>> /\ \A n \in 1..N : f[n] = g[n][f[n - 1]]
  <2> HIDE DEF g
  <2>1. \E f : Iterates(f, Toks, <<>>, N, g)
    BY <1>1, <1>3, RecursionUpTo
  <2>2. QED
    BY <2>1 DEF Iterates
<1>5. \A n \in 1..N : f[n] = Turn(f[n - 1], n)
  <2>1. ASSUME NEW n \in 1..N
        PROVE  f[n] = Turn(f[n - 1], n)
    <3>1. n - 1 \in 0..N
      BY <1>1
    <3>2. QED
      BY <1>4, <3>1
  <2>2. QED
    BY <2>1
<1>6. f = [n \in 0..N |-> IF n = 0 THEN <<>> ELSE Turn(f[n - 1], n)]
  <2>1. \A n \in 0..N : n = 0 \/ n \in 1..N
    BY <1>1
  <2>2. \A n \in 0..N : f[n] = IF n = 0 THEN <<>> ELSE Turn(f[n - 1], n)
    BY <1>4, <1>5, <2>1
  <2>3. QED
    BY <1>4, <2>2
<1>7. Upto(f)
  BY <1>6 DEF Turn, N
<1> DEFINE k == CHOOSE h : Upto(h)
<1>8. Upto(k)
  BY <1>7
<1>9. Keeping(t, kept) = k[Len(t)]
  BY DEF Keeping
<1> HIDE DEF k, g
<1>10. k[0] = <<>> /\ \A n \in 1..N : k[n] = Turn(k[n - 1], n)
  <2>1. 0 \in 0..Len(t) /\ \A n \in 1..N : n \in 0..Len(t) /\ n # 0
    BY <1>1 DEF N
  <2>2. QED
    BY <1>8, <2>1 DEF Turn
<1>11. \A n \in 0..N : k[n] \in Toks
  <2> DEFINE D == {n \in 0..N : k[n] \in Toks}
  <2>1. 0 \in D
    BY <1>1, <1>10
  <2>2. ASSUME NEW n \in 1..N, n - 1 \in D
        PROVE  n \in D
    BY <1>2, <1>10, <2>2
  <2> HIDE DEF D
  <2>3. \A n \in 0..N : n \in D
    BY <1>1, <2>1, <2>2, InductionUpTo
  <2>4. QED
    BY <2>3 DEF D
<1>12. k \in [0..N -> Toks]
  BY <1>8, <1>11 DEF N
<1>13. Kept(k, t, kept)
  BY <1>10, <1>12 DEF Kept, Turn, N
<1>14. QED
  BY <1>9, <1>13

LEMMA KeepingType ==
  ASSUME NEW t \in Toks, NEW kept
  PROVE  Keeping(t, kept) \in Toks
<1>1. Len(t) \in 0..Len(t)
  BY DEF Toks
<1>2. QED
  BY <1>1, KeepingIs DEF Kept
-----------------------------------------------------------------------------
(* The request: types, and what its end says of the last snapshot.          *)
Items == LineEvents \cup [kind : {"error"}, of : Failures]

RequestTypes ==
  /\ answer \in Answers
  /\ line \in Seq(LineEvents)
  /\ emitted \in Toks /\ shown \in Toks /\ delivered \in Toks
  /\ decoder \in [ids : SUBSET Ids, next : Nat]
  /\ failure \in Failures
  /\ channel \in Seq(Items)

Failed(q) == \E i \in 1..Len(q) : q[i].kind = "error"

(* A line is handled while the body is read; unless the last snapshot       *)
(* diverged it is the text sent, or there was none.                         *)
LineRead == line # <<>> => phase \in {"reading", "last"}
ShownSent == phase # "backoff" /\ ~dropped /\ ~diverged => shown \in {<<>>, emitted}
Sound == RequestTypes /\ LineRead /\ ShownSent

(* A step that ends the request after a divergence leaves an error.         *)
EndsBlamed == phase' = "done" /\ ~dropped' /\ diverged' => Failed(channel')
Soundly == RequestTypes' /\ LineRead' /\ ShownSent' /\ EndsBlamed

LEMMA LinesType ==
  ASSUME answer \in Answers, NEW l \in Lines
  PROVE  l \in Seq(LineEvents)
<1>1. PICK c \in CallEvents \cup {<<>>}, t \in Contents : l = c \o t
  BY DEF Lines
<1>2. \A i \in OwnIds \cup {NoId} : i \in Ids
  BY StreamAssumption, IdTypes
<1>3. c \in Seq(LineEvents)
  <2>1. CASE c = <<>>
    BY <2>1
  <2>2. CASE c # <<>>
    <3>1. PICK i \in OwnIds \cup {NoId} : c = <<[kind |-> "call", id |-> i]>>
      BY <1>1, <2>2 DEF CallEvents
    <3>2. [kind |-> "call", id |-> i] \in LineEvents
      BY <1>2 DEF LineEvents, Requests
    <3>3. QED
      BY <3>1, <3>2
  <2>3. QED
    BY <2>1, <2>2
<1>4. \A u \in answer : u \in Toks
  <2>1. \A u \in answer : u \in Seq(STRING)
    BY StreamAssumption
  <2>2. STRING \subseteq Tokens
    BY DEF Tokens
  <2>3. Seq(STRING) \subseteq Seq(Tokens)
    BY <2>2, SeqMonotonic
  <2>4. QED
    BY <2>1, <2>3 DEF Toks
<1>5. t \in Seq(LineEvents)
  <2>1. CASE t = <<>>
    BY <2>1
  <2>2. ASSUME NEW u \in answer, t = <<[kind |-> "text", toks |-> u]>>
        PROVE  t \in Seq(LineEvents)
    <3>1. [kind |-> "text", toks |-> u] \in LineEvents
      BY <1>4 DEF LineEvents, Words
    <3>2. QED
      BY <2>2, <3>1
  <2>3. ASSUME NEW m \in Marks, t = <<[kind |-> "metadata", of |-> m]>>
        PROVE  t \in Seq(LineEvents)
    <3>1. [kind |-> "metadata", of |-> m] \in LineEvents
      BY DEF LineEvents
    <3>2. QED
      BY <2>3, <3>1
  <2>4. QED
    BY <1>1, <2>1, <2>2, <2>3 DEF Contents, Marks
<1>6. QED
  BY <1>1, <1>3, <1>5, ConcatProperties

LEMMA PutIs ==
  ASSUME RequestTypes, NEW item \in Items, Put(item)
  PROVE  /\ channel' \in Seq(Items) /\ delivered' \in Toks
         /\ item.kind = "error" => Failed(channel')
         /\ delivered' = IF item.kind = "text" THEN delivered \o item.toks ELSE delivered
<1>1. channel \in Seq(Items) /\ delivered \in Toks /\ Len(channel) \in Nat
  BY DEF RequestTypes
<1>2. channel' = Append(channel, item)
  BY DEF Put
<1>3. /\ channel' \in Seq(Items) /\ Len(channel') = Len(channel) + 1
      /\ channel'[Len(channel) + 1] = item
  BY <1>1, <1>2, AppendProperties
<1>4. item.kind = "error" => Failed(channel')
  <2>1. Len(channel) + 1 \in 1..Len(channel')
    BY <1>1, <1>3
  <2>2. QED
    BY <1>3, <2>1 DEF Failed
<1>5. CASE item.kind = "text"
  <2>1. item.toks \in Toks
    BY <1>5 DEF Items, LineEvents, Words, Requests
  <2>2. delivered' = delivered \o item.toks
    BY <1>5 DEF Put
  <2>3. delivered' \in Toks
    BY <1>1, <2>1, <2>2, ConcatProperties DEF Toks
  <2>4. QED
    BY <1>3, <1>4, <1>5, <2>2, <2>3
<1>6. CASE item.kind # "text"
  <2>1. delivered' = delivered \o <<>>
    BY <1>6 DEF Put
  <2>2. delivered \o <<>> = delivered
    BY <1>1, ConcatEmptySeq DEF Toks
  <2>3. QED
    BY <1>1, <1>3, <1>4, <1>6, <2>1, <2>2
<1>7. QED
  BY <1>5, <1>6

LEMMA FailSound ==
  ASSUME Sound, NEW error \in Failures, Fail(error), phase # "backoff"
  PROVE  Soundly
<1>1. /\ phase' \in {"backoff", "failing"} /\ line' = <<>>
      /\ phase' = "failing" => diverged' = diverged
      /\ decoder' \in {decoder, [ids |-> {}, next |-> 0]}
      /\ failure' \in {failure, error}
      /\ UNCHANGED <<emitted, shown, answer, channel, delivered, dropped>>
  BY DEF Fail, pipe
<1>2. RequestTypes'
  <2>1. <<>> \in Seq(LineEvents) /\ [ids |-> {}, next |-> 0] \in [ids : SUBSET Ids, next : Nat]
    OBVIOUS
  <2>2. decoder' \in [ids : SUBSET Ids, next : Nat]
    BY <1>1, <2>1 DEF Sound, RequestTypes
  <2>3. failure' \in Failures
    BY <1>1 DEF Sound, RequestTypes
  <2>4. QED
    BY <1>1, <2>1, <2>2, <2>3 DEF Sound, RequestTypes
<1>3. LineRead' /\ EndsBlamed
  BY <1>1 DEF LineRead, EndsBlamed
<1>4. ShownSent'
  BY <1>1 DEF Sound, ShownSent
<1>5. QED
  BY <1>2, <1>3, <1>4 DEF Soundly

LEMMA ReadSound ==
  ASSUME Sound, Connect \/ NextAttempt \/ ReadLine \/ EndOfBody
  PROVE  Soundly
<1>1. CASE Connect
  BY <1>1 DEF Connect, Sound, Soundly, RequestTypes, LineRead, ShownSent, EndsBlamed, run, pipe
<1>2. CASE NextAttempt
  <2>1. <<>> \in Toks
    BY DEF Toks
  <2>2. /\ phase' = "request" /\ shown' = <<>> /\ phase = "backoff"
        /\ UNCHANGED <<line, emitted, diverged, decoder, failure, answer, channel, delivered, dropped>>
    BY <1>2 DEF NextAttempt, pipe
  <2>3. QED
    BY <2>1, <2>2 DEF Sound, Soundly, RequestTypes, LineRead, ShownSent, EndsBlamed
<1>3. CASE ReadLine
  <2>1. phase = "reading" /\ phase' = "reading" /\ line' \in Lines
        /\ UNCHANGED <<emitted, shown, diverged, decoder, failure, answer, channel, delivered, dropped>>
    BY <1>3 DEF ReadLine, Decode, run, pipe
  <2>2. line' \in Seq(LineEvents)
    BY <2>1, LinesType DEF Sound, RequestTypes
  <2>3. QED
    BY <2>1, <2>2 DEF Sound, Soundly, RequestTypes, LineRead, ShownSent, EndsBlamed
<1>4. CASE EndOfBody
  <2>1. phase = "reading" /\ phase' = "last" /\ (line' = line \/ line' \in Lines)
        /\ UNCHANGED <<emitted, shown, diverged, decoder, failure, answer, channel, delivered, dropped>>
    BY <1>4 DEF EndOfBody, Decode, run, pipe
  <2>2. line' \in Seq(LineEvents)
    BY <2>1, LinesType DEF Sound, RequestTypes
  <2>3. QED
    BY <2>1, <2>2 DEF Sound, Soundly, RequestTypes, LineRead, ShownSent, EndsBlamed
<1>5. QED
  BY <1>1, <1>2, <1>3, <1>4

LEMMA FailuresSound ==
  ASSUME Sound, ConnectFails \/ ReadFails \/ Refused \/ Oversized \/ EndDiverged
  PROVE  Soundly
<1>1. phase # "backoff"
  BY DEF Sound, LineRead, ConnectFails, ReadFails, Refused, Oversized, EndDiverged
<1>2. PICK error \in Failures : Fail(error)
  BY DEF ConnectFails, ReadFails, Refused, Oversized, EndDiverged, Failures
<1>3. QED
  BY <1>1, <1>2, FailSound

LEMMA HandledIs ==
  ASSUME Sound, line # <<>>, Handled
  PROVE  /\ line' \in Seq(LineEvents) /\ Head(line) \in LineEvents
         /\ phase \in {"reading", "last"} /\ phase' = phase /\ failure' = failure
<1>1. line \in Seq(LineEvents) /\ line' = Tail(line)
  BY DEF Sound, RequestTypes, Handled
<1>2. QED
  BY <1>1 DEF Sound, LineRead, Handled

LEMMA EmitCallSound ==
  ASSUME Sound, EmitCall
  PROVE  Soundly
<1> DEFINE head == Head(line)
           new == IF head.id = NoId THEN Allocated(decoder.next) ELSE head.id
           count == IF head.id = NoId THEN 1 ELSE 0
           item == [kind |-> "call", id |-> new]
<1>1. /\ line # <<>> /\ Handled /\ head.kind = "call"
      /\ decoder' = [ids |-> decoder.ids \cup {new}, next |-> decoder.next + count]
      /\ UNCHANGED pipe \/ Put(item)
      /\ UNCHANGED <<emitted, diverged, shown>>
  BY DEF EmitCall
<1>2. /\ line' \in Seq(LineEvents) /\ head \in LineEvents
      /\ phase \in {"reading", "last"} /\ phase' = phase /\ failure' = failure
  BY <1>1, HandledIs
<1> HIDE DEF head
<1>3. head.id \in Ids
  BY <1>1, <1>2 DEF LineEvents, Words, Requests
<1>4. decoder.ids \in SUBSET Ids /\ decoder.next \in Nat /\ RequestTypes
  BY DEF Sound, RequestTypes
<1>5. new \in Ids /\ decoder.next + count \in Nat
  BY <1>3, <1>4, IdTypes
<1> HIDE DEF new, count
<1>6. decoder' \in [ids : SUBSET Ids, next : Nat]
  BY <1>1, <1>4, <1>5
<1>7. item \in Items
  BY <1>5 DEF Items, LineEvents, Requests
<1>8. answer' = answer /\ dropped' = dropped /\ channel' \in Seq(Items) /\ delivered' \in Toks
  <2>1. CASE UNCHANGED pipe
    BY <1>4, <2>1 DEF pipe, RequestTypes
  <2>2. CASE Put(item)
    <3> HIDE DEF item
    <3>1. answer' = answer /\ dropped' = dropped
      BY <2>2 DEF Put
    <3>2. QED
      BY <1>4, <1>7, <2>2, <3>1, PutIs
  <2>3. QED
    BY <1>1, <2>1, <2>2
<1>9. RequestTypes'
  BY <1>1, <1>2, <1>4, <1>6, <1>8 DEF RequestTypes
<1>10. LineRead' /\ ShownSent' /\ EndsBlamed
  BY <1>1, <1>2, <1>8 DEF Sound, LineRead, ShownSent, EndsBlamed
<1>11. QED
  BY <1>9, <1>10 DEF Soundly

LEMMA RestType ==
  ASSUME NEW t \in Toks, NEW prefix \in Toks, Extends(t, prefix)
  PROVE  Rest(t, prefix) \in Toks /\ t = prefix \o Rest(t, prefix)
<1>1. Len(t) \in Nat /\ Len(prefix) \in Nat /\ Len(prefix) <= Len(t)
  BY DEF Extends, Toks
<1>2. 1 \in 1..Len(t) + 1 /\ Len(prefix) \in 0..Len(t) /\ Len(t) \in Len(prefix)..Len(t)
  BY <1>1
<1>3. SubSeq(t, 1, Len(prefix)) \o SubSeq(t, Len(prefix) + 1, Len(t)) = SubSeq(t, 1, Len(t))
  <2>1. 1 - 1 = 0
    OBVIOUS
  <2>2. QED
    BY <1>2, <2>1, ConcatAdjacentSubSeq DEF Toks
<1>4. SubSeq(t, 1, Len(t)) = t
  BY SubSeqFull DEF Toks
<1>5. t = prefix \o Rest(t, prefix)
  BY <1>3, <1>4 DEF Extends, Rest
<1>6. Len(prefix) + 1 \in 1..Len(t) + 1
  BY <1>1
<1>7. Rest(t, prefix) \in Toks
  BY <1>6, CutIs DEF Rest, From
<1>8. QED
  BY <1>5, <1>7

LEMMA EmitTextSound ==
  ASSUME Sound, EmitText
  PROVE  Soundly
<1> DEFINE candidate == Head(line).toks
           delta == Clean(Rest(candidate, emitted))
           item == [kind |-> "text", toks |-> delta]
<1>1. /\ line # <<>> /\ Handled /\ Head(line).kind = "text"
      /\ shown' = candidate
      /\ diverged' = ~Extends(candidate, emitted)
      /\ emitted' = IF Extends(candidate, emitted) THEN candidate ELSE emitted
      /\ UNCHANGED pipe \/ (Extends(candidate, emitted) /\ Put(item))
      /\ decoder' = decoder
  BY DEF EmitText
<1>2. /\ line' \in Seq(LineEvents) /\ Head(line) \in LineEvents
      /\ phase \in {"reading", "last"} /\ phase' = phase /\ failure' = failure
  BY <1>1, HandledIs
<1>3. candidate \in Toks
  BY <1>1, <1>2 DEF LineEvents, Words, Requests
<1>4. RequestTypes /\ emitted \in Toks
  BY DEF Sound, RequestTypes
<1>5. Extends(candidate, emitted) => item \in Items
  <2>1. SUFFICES ASSUME Extends(candidate, emitted)
                 PROVE  item \in Items
    OBVIOUS
  <2> HIDE DEF candidate
  <2>2. Rest(candidate, emitted) \in Toks
    BY <1>3, <1>4, <2>1, RestType
  <2>3. delta \in Toks
    BY <2>2, KeepingType DEF Clean
  <2> HIDE DEF delta
  <2>4. QED
    BY <2>3 DEF Items, LineEvents, Words
<1> HIDE DEF candidate, item
<1>6. answer' = answer /\ dropped' = dropped /\ channel' \in Seq(Items) /\ delivered' \in Toks
  <2>1. CASE UNCHANGED pipe
    BY <1>4, <2>1 DEF pipe, RequestTypes
  <2>2. CASE Extends(candidate, emitted) /\ Put(item)
    <3>1. answer' = answer /\ dropped' = dropped
      BY <2>2 DEF Put
    <3>2. QED
      BY <1>4, <1>5, <2>2, <3>1, PutIs
  <2>3. QED
    BY <1>1, <2>1, <2>2
<1>7. RequestTypes'
  BY <1>1, <1>2, <1>3, <1>4, <1>6 DEF RequestTypes
<1>8. LineRead' /\ EndsBlamed
  BY <1>2 DEF LineRead, EndsBlamed
<1>9. ShownSent'
  BY <1>1 DEF ShownSent
<1>10. QED
  BY <1>7, <1>8, <1>9 DEF Soundly

LEMMA EmitMetadataSound ==
  ASSUME Sound, EmitMetadata
  PROVE  Soundly
<1> DEFINE item == [kind |-> "metadata", of |-> Head(line).of]
<1>1. /\ line # <<>> /\ Handled /\ Head(line).kind = "metadata" /\ Put(item)
      /\ UNCHANGED <<emitted, diverged, decoder, shown>>
  BY DEF EmitMetadata
<1>2. /\ line' \in Seq(LineEvents) /\ Head(line) \in LineEvents
      /\ phase \in {"reading", "last"} /\ phase' = phase /\ failure' = failure
  BY <1>1, HandledIs
<1>3. item \in Items
  BY <1>1, <1>2 DEF Items, LineEvents, Words, Requests
<1> HIDE DEF item
<1>4. RequestTypes /\ answer' = answer /\ dropped' = dropped
  BY <1>1 DEF Sound, Put
<1>5. channel' \in Seq(Items) /\ delivered' \in Toks
  BY <1>1, <1>3, <1>4, PutIs
<1>6. RequestTypes'
  BY <1>1, <1>2, <1>4, <1>5 DEF RequestTypes
<1>7. LineRead' /\ ShownSent' /\ EndsBlamed
  BY <1>1, <1>2, <1>4 DEF Sound, LineRead, ShownSent, EndsBlamed
<1>8. QED
  BY <1>6, <1>7 DEF Soundly

LEMMA PutErrorSound ==
  ASSUME Sound, NEW error \in Failures, Put([kind |-> "error", of |-> error]),
         phase # "backoff", phase' = "done", line' = <<>>,
         UNCHANGED <<failure, shown, emitted, diverged, decoder>>
  PROVE  Soundly
<1> DEFINE item == [kind |-> "error", of |-> error]
<1>1. item \in Items /\ item.kind = "error"
  BY DEF Items
<1>2. Put(item)
  OBVIOUS
<1> HIDE DEF item
<1>3. RequestTypes /\ answer' = answer /\ dropped' = dropped
  BY <1>2 DEF Sound, Put
<1>4. channel' \in Seq(Items) /\ delivered' \in Toks /\ Failed(channel')
  BY <1>1, <1>2, <1>3, PutIs
<1>5. <<>> \in Seq(LineEvents)
  OBVIOUS
<1>6. RequestTypes'
  BY <1>3, <1>4, <1>5 DEF RequestTypes
<1>7. LineRead' /\ ShownSent' /\ EndsBlamed
  BY <1>3, <1>4 DEF Sound, LineRead, ShownSent, EndsBlamed
<1>8. QED
  BY <1>6, <1>7 DEF Soundly

LEMMA EndSound ==
  ASSUME Sound, Blocked \/ EndUnusable \/ EndClean \/ SendFailure \/ Abandon
  PROVE  Soundly
<1>1. CASE Blocked \/ EndUnusable
  <2>1. PICK error \in Failures : GiveUp(error)
    BY <1>1 DEF Blocked, EndUnusable, Failures
  <2>2. phase # "backoff"
    BY <1>1 DEF Blocked, EndUnusable, Sound, LineRead
  <2>3. /\ Put([kind |-> "error", of |-> error]) /\ phase' = "done" /\ line' = <<>>
        /\ UNCHANGED <<failure, shown, emitted, diverged, decoder>>
    BY <2>1 DEF GiveUp, run
  <2>4. QED
    BY <2>2, <2>3, PutErrorSound
<1>2. CASE SendFailure
  <2>1. failure \in Failures
    BY DEF Sound, RequestTypes
  <2>2. line = <<>> /\ phase # "backoff"
    BY <1>2 DEF SendFailure, Sound, LineRead
  <2>3. /\ Put([kind |-> "error", of |-> failure]) /\ phase' = "done" /\ line' = <<>>
        /\ UNCHANGED <<failure, shown, emitted, diverged, decoder>>
    BY <1>2, <2>2 DEF SendFailure, run
  <2>4. QED
    BY <2>1, <2>2, <2>3, PutErrorSound
<1>3. CASE EndClean
  BY <1>3 DEF EndClean, Sound, Soundly, RequestTypes, LineRead, ShownSent, EndsBlamed, run, pipe
<1>4. CASE Abandon
  <2>1. /\ dropped /\ phase' = "done" /\ line' = <<>>
        /\ UNCHANGED <<emitted, shown, diverged, decoder, failure, answer, channel, delivered, dropped>>
    BY <1>4 DEF Abandon, run, pipe
  <2>2. <<>> \in Seq(LineEvents)
    OBVIOUS
  <2>3. RequestTypes' /\ LineRead' /\ EndsBlamed
    BY <2>1, <2>2 DEF Sound, RequestTypes, LineRead, EndsBlamed
  <2>4. ShownSent'
    BY <2>1 DEF Sound, ShownSent
  <2>5. QED
    BY <2>3, <2>4 DEF Soundly
<1>5. QED
  BY <1>1, <1>2, <1>3, <1>4

LEMMA ProduceSound ==
  ASSUME Sound, Produce
  PROVE  Soundly
<1>1. CASE Connect \/ NextAttempt \/ ReadLine \/ EndOfBody
  BY <1>1, ReadSound
<1>2. CASE ConnectFails \/ ReadFails \/ Refused \/ Oversized \/ EndDiverged
  BY <1>2, FailuresSound
<1>3. CASE EmitCall \/ EmitText \/ EmitMetadata
  BY <1>3, EmitCallSound, EmitTextSound, EmitMetadataSound
<1>4. CASE Blocked \/ EndUnusable \/ EndClean \/ SendFailure \/ Abandon
  BY <1>4, EndSound
<1>5. QED
  BY <1>1, <1>2, <1>3, <1>4, Zenon DEF Produce
-----------------------------------------------------------------------------
(* The relay: what was handed over, and what is still on its way.           *)
RelayTypes ==
  /\ sem \in Streams
  /\ sent \in Seq(ModelEvents)

(* A divergence that ended the request is an error on its way.              *)
Blamed ==
  phase = "done" /\ ~dropped /\ ~gone /\ diverged =>
    Failed(sent) \/ Failed(sem.out) \/ Failed(channel)

StreamInv == Sound /\ RelayTypes /\ Blamed

LEMMA PassOn ==
  ASSUME NEW E, NEW a \in Seq(E), NEW b \in Seq(E), b # <<>>
  PROVE  /\ Append(a, Head(b)) \in Seq(E) /\ Tail(b) \in Seq(E)
         /\ Append(a, Head(b)) \o Tail(b) = a \o b
         /\ Failed(a) \/ Failed(b) => Failed(Append(a, Head(b))) \/ Failed(Tail(b))
<1> DEFINE e == Head(b)
           t == Tail(b)
           c == Append(a, e)
<1>1. Len(a) \in Nat /\ Len(b) \in Nat /\ Len(b) >= 1
  OBVIOUS
<1>2. /\ e \in E /\ t \in Seq(E) /\ Len(t) = Len(b) - 1 /\ e = b[1]
      /\ \A i \in 1..Len(t) : t[i] = b[i + 1]
  BY HeadTailProperties
<1> HIDE DEF e, t
<1>3. /\ c \in Seq(E) /\ Len(c) = Len(a) + 1
      /\ \A i \in 1..Len(a) : c[i] = a[i]
      /\ c[Len(a) + 1] = e
  BY <1>2, AppendProperties
<1> HIDE DEF c
<1>4. c \o t = a \o b
  <2>1. /\ c \o t \in Seq(E) /\ Len(c \o t) = Len(c) + Len(t)
        /\ \A i \in 1..Len(c) + Len(t) :
             (c \o t)[i] = IF i <= Len(c) THEN c[i] ELSE t[i - Len(c)]
    BY <1>2, <1>3, ConcatProperties
  <2>2. /\ a \o b \in Seq(E) /\ Len(a \o b) = Len(a) + Len(b)
        /\ \A i \in 1..Len(a) + Len(b) :
             (a \o b)[i] = IF i <= Len(a) THEN a[i] ELSE b[i - Len(a)]
    BY ConcatProperties
  <2>3. Len(c \o t) = Len(a \o b)
    BY <1>1, <1>2, <1>3, <2>1, <2>2
  <2>4. ASSUME NEW i \in 1..Len(a \o b)
        PROVE  (c \o t)[i] = (a \o b)[i]
    <3>1. i \in 1..Len(a) + Len(b) /\ i \in 1..Len(c) + Len(t)
      BY <2>1, <2>2, <2>3
    <3>2. CASE i <= Len(a)
      <4>1. i \in 1..Len(a) /\ i <= Len(c)
        BY <1>1, <1>3, <3>1, <3>2
      <4>2. QED
        BY <1>3, <2>1, <2>2, <3>1, <4>1
    <3>3. CASE i = Len(a) + 1
      <4>1. i <= Len(c) /\ ~(i <= Len(a)) /\ i - Len(a) = 1
        BY <1>1, <1>3, <3>3
      <4>2. (c \o t)[i] = e
        BY <1>3, <2>1, <3>1, <3>3, <4>1
      <4>3. (a \o b)[i] = b[1]
        BY <2>2, <3>1, <4>1
      <4>4. QED
        BY <1>2, <4>2, <4>3
    <3>4. CASE i > Len(a) + 1
      <4>1. /\ ~(i <= Len(c)) /\ ~(i <= Len(a)) /\ i - Len(c) \in 1..Len(t)
            /\ (i - Len(c)) + 1 = i - Len(a)
        BY <1>1, <1>2, <1>3, <3>1, <3>4
      <4>2. (c \o t)[i] = t[i - Len(c)]
        BY <2>1, <3>1, <4>1
      <4>3. t[i - Len(c)] = b[i - Len(a)]
        BY <1>2, <4>1
      <4>4. QED
        BY <2>2, <3>1, <4>1, <4>2, <4>3
    <3>5. QED
      BY <1>1, <3>1, <3>2, <3>3, <3>4
  <2>5. QED
    BY <2>1, <2>2, <2>3, <2>4, SeqEqual
<1>5. Failed(a) => Failed(c)
  <2>1. \A i \in 1..Len(a) : i \in 1..Len(c)
    BY <1>1, <1>3
  <2>2. QED
    BY <1>3, <2>1 DEF Failed
<1>6. ASSUME Failed(b)
      PROVE  Failed(c) \/ Failed(t)
  <2>1. PICK i \in 1..Len(b) : b[i].kind = "error"
    BY <1>6 DEF Failed
  <2>2. CASE i = 1
    <3>1. Len(a) + 1 \in 1..Len(c)
      BY <1>1, <1>3
    <3>2. QED
      BY <1>2, <1>3, <2>1, <2>2, <3>1 DEF Failed
  <2>3. CASE i # 1
    <3>1. i - 1 \in 1..Len(t) /\ (i - 1) + 1 = i
      BY <1>1, <1>2, <2>1, <2>3
    <3>2. t[i - 1] = b[i]
      BY <1>2, <3>1
    <3>3. QED
      BY <2>1, <3>1, <3>2 DEF Failed
  <2>4. QED
    BY <2>2, <2>3
<1>7. QED
  BY <1>2, <1>3, <1>4, <1>5, <1>6 DEF c, e, t

LEMMA TakeIs ==
  ASSUME Sound, Take
  PROVE  /\ Sound' /\ Head(channel) \in Items
         /\ Head(channel).kind # "error" /\ Failed(channel) => Failed(channel')
         /\ UNCHANGED <<phase, diverged, dropped>>
<1>1. /\ channel # <<>> /\ channel' = Tail(channel)
      /\ UNCHANGED <<phase, line, failure, shown, emitted, diverged, decoder, answer, dropped, delivered>>
  BY DEF Take, run
<1>2. channel \in Seq(Items)
  BY DEF Sound, RequestTypes
<1>3. /\ Head(channel) \in Items /\ channel' \in Seq(Items) /\ Len(channel') = Len(channel) - 1
      /\ \A i \in 1..Len(channel') : channel'[i] = channel[i + 1]
      /\ Head(channel) = channel[1] /\ Len(channel) \in Nat
  BY <1>1, <1>2, HeadTailProperties
<1>4. Sound'
  BY <1>1, <1>3 DEF Sound, RequestTypes, LineRead, ShownSent
<1>5. ASSUME Head(channel).kind # "error", Failed(channel)
      PROVE  Failed(channel')
  <2>1. PICK i \in 1..Len(channel) : channel[i].kind = "error"
    BY <1>5 DEF Failed
  <2>2. i # 1
    BY <1>3, <1>5, <2>1
  <2>3. i - 1 \in 1..Len(channel') /\ (i - 1) + 1 = i
    BY <1>3, <2>1, <2>2
  <2>4. channel'[i - 1] = channel[i]
    BY <1>3, <2>3
  <2>5. QED
    BY <2>1, <2>3, <2>4 DEF Failed
<1>6. QED
  BY <1>1, <1>3, <1>4, <1>5

LEMMA DropSound ==
  ASSUME Sound, Drop
  PROVE  Sound' /\ dropped'
<1>1. /\ dropped' = TRUE /\ channel' = <<>>
      /\ UNCHANGED <<phase, line, failure, shown, emitted, diverged, decoder, answer, delivered>>
  BY DEF Drop, run
<1>2. <<>> \in Seq(Items)
  OBVIOUS
<1>3. QED
  BY <1>1, <1>2 DEF Sound, RequestTypes, LineRead, ShownSent

LEMMA StillSound ==
  ASSUME Sound, UNCHANGED vars
  PROVE  Sound'
  BY DEF Sound, RequestTypes, LineRead, ShownSent, vars, run, pipe
LEMMA InitInv ==
  ASSUME StreamInit
  PROVE  StreamInv
<1>1. PICK supported \in BOOLEAN : sem = NewStream(supported)
  BY DEF StreamInit
<1>2. sem \in Streams
  BY <1>1, NewStreamType
<1>3. <<>> \in Toks /\ <<>> \in Seq(ModelEvents) /\ <<>> \in Seq(LineEvents)
      /\ <<>> \in Seq(Items) /\ [ids |-> {}, next |-> 0] \in [ids : SUBSET Ids, next : Nat]
  BY DEF Toks
<1>4. Sound
  <2>1. "none" \in Failures
    BY DEF Failures
  <2>2. /\ answer \in Answers /\ phase = "request" /\ line = <<>> /\ emitted = <<>>
        /\ decoder = [ids |-> {}, next |-> 0] /\ failure = "none"
        /\ channel = <<>> /\ shown = <<>> /\ delivered = <<>>
    BY DEF StreamInit, Init
  <2>3. QED
    BY <1>3, <2>1, <2>2 DEF Sound, RequestTypes, LineRead, ShownSent
<1>5. sent = <<>> /\ phase = "request"
  BY DEF StreamInit, Init
<1>6. RelayTypes
  BY <1>2, <1>3, <1>5 DEF RelayTypes
<1>7. Blamed
  BY <1>5 DEF Blamed
<1>8. QED
  BY <1>4, <1>6, <1>7 DEF StreamInv

LEMMA FeedInv ==
  ASSUME StreamInv, Feed
  PROVE  StreamInv'
<1>1. /\ sem.out = <<>> /\ Head(channel).kind # "error" /\ Take
      /\ sem' = FeedItem(sem, Head(channel)) /\ sent' = sent /\ gone' = gone
  BY DEF Feed, Idle
<1>2. Sound /\ RelayTypes /\ Blamed
  BY DEF StreamInv
<1>3. /\ Sound' /\ Head(channel) \in Items
      /\ Failed(channel) => Failed(channel')
      /\ UNCHANGED <<phase, diverged, dropped>>
  BY <1>1, <1>2, TakeIs
<1>4. Head(channel) \in LineEvents
  BY <1>1, <1>3 DEF Items
<1>5. sem' \in Streams
  BY <1>1, <1>2, <1>4, FeedItemType DEF RelayTypes
<1>6. RelayTypes'
  BY <1>1, <1>2, <1>5 DEF RelayTypes
<1>7. ~Failed(sem.out)
  <2>1. Len(<<>>) = 0
    OBVIOUS
  <2>2. QED
    BY <1>1, <2>1 DEF Failed
<1>8. Blamed'
  <2>1. phase = "done" /\ ~dropped /\ ~gone /\ diverged => Failed(sent) \/ Failed(channel)
    BY <1>2, <1>7 DEF Blamed
  <2>2. QED
    BY <1>1, <1>3, <2>1 DEF Blamed
<1>9. QED
  BY <1>3, <1>6, <1>8 DEF StreamInv

LEMMA FeedErrorInv ==
  ASSUME StreamInv, FeedError
  PROVE  StreamInv'
<1> DEFINE E == ModelEvents
           e == Head(channel)
           one == <<e>>
<1>1. /\ sem.out = <<>> /\ e.kind = "error" /\ Take
      /\ sem' = [sem EXCEPT !.out = one] /\ sent' = sent /\ gone' = gone
  BY DEF FeedError, Idle
<1>2. Sound /\ RelayTypes /\ Blamed
  BY DEF StreamInv
<1>3. Sound' /\ e \in Items
  BY <1>1, <1>2, TakeIs
<1>4. e \in E
  BY <1>1, <1>3 DEF Items, LineEvents, Words, Requests, ModelEvents
<1> HIDE DEF e, E
<1>5. one \in Seq(E) /\ Len(one) = 1 /\ one[1] = e
  BY <1>4
<1> HIDE DEF one
<1>6. sem \in Streams /\ sent \in Seq(E)
  BY <1>2 DEF RelayTypes, E
<1>7. sem' \in Streams /\ sem'.out = one
  BY <1>1, <1>5, <1>6 DEF Streams, E
<1>9. RelayTypes'
  BY <1>1, <1>6, <1>7 DEF RelayTypes, E
<1>11. Failed(sem'.out)
  <2>1. 1 \in 1..Len(one) /\ one[1].kind = "error"
    BY <1>1, <1>5
  <2>2. Failed(one)
    BY <2>1 DEF Failed
  <2>3. QED
    BY <1>7, <2>2
<1>12. Blamed'
  BY <1>11 DEF Blamed
<1>13. QED
  BY <1>3, <1>9, <1>12 DEF StreamInv

LEMMA FlushInv ==
  ASSUME StreamInv, Flush
  PROVE  StreamInv'
<1>1. /\ sem.out = <<>> /\ channel = <<>> /\ sem' = FinishStream(sem)
      /\ UNCHANGED vars /\ sent' = sent /\ gone' = gone
  BY DEF Flush, Idle
<1>2. Sound /\ RelayTypes /\ Blamed
  BY DEF StreamInv
<1>3. Sound'
  BY <1>1, <1>2, StillSound
<1>4. sem' \in Streams
  BY <1>1, <1>2, FinishStreamType DEF RelayTypes
<1>5. RelayTypes'
  BY <1>1, <1>2, <1>4 DEF RelayTypes
<1>6. ~Failed(sem.out) /\ ~Failed(channel)
  <2>1. Len(<<>>) = 0
    OBVIOUS
  <2>2. QED
    BY <1>1, <2>1 DEF Failed
<1>7. UNCHANGED <<phase, dropped, diverged>>
  BY <1>1 DEF vars, run, pipe
<1>8. Blamed'
  <2>1. phase = "done" /\ ~dropped /\ ~gone /\ diverged => Failed(sent)
    BY <1>2, <1>6 DEF Blamed
  <2>2. QED
    BY <1>1, <1>7, <2>1 DEF Blamed
<1>9. QED
  BY <1>3, <1>5, <1>8 DEF StreamInv

LEMMA SendInv ==
  ASSUME StreamInv, Send
  PROVE  StreamInv'
<1> DEFINE E == ModelEvents
           out == sem.out
           rest == Tail(sem.out)
<1>1. /\ out # <<>> /\ sent' = Append(sent, Head(out)) /\ sem' = [sem EXCEPT !.out = rest]
      /\ UNCHANGED vars /\ gone' = gone
  BY DEF Send
<1>2. Sound /\ RelayTypes /\ Blamed
  BY DEF StreamInv
<1>3. Sound'
  BY <1>1, <1>2, StillSound
<1>4. sem \in Streams /\ sent \in Seq(E)
  BY <1>2 DEF RelayTypes
<1>5. out \in Seq(E)
  BY <1>4 DEF Streams
<1> HIDE DEF E
<1>6. /\ Append(sent, Head(out)) \in Seq(E) /\ Tail(out) \in Seq(E)
      /\ Append(sent, Head(out)) \o Tail(out) = sent \o out
      /\ Failed(sent) \/ Failed(out) => Failed(Append(sent, Head(out))) \/ Failed(Tail(out))
  BY <1>1, <1>4, <1>5, PassOn
<1>7. /\ rest = Tail(out)
      /\ (Blamed <=> (phase = "done" /\ ~dropped /\ ~gone /\ diverged =>
                        Failed(sent) \/ Failed(out) \/ Failed(channel)))
  BY DEF Blamed
<1> HIDE DEF out, rest
<1>8. rest \in Seq(E)
  BY <1>6, <1>7
<1>9. sem' \in Streams /\ sem'.out = rest
  BY <1>1, <1>4, <1>8 DEF Streams, E
<1>11. sent' \in Seq(E)
  BY <1>1, <1>6
<1>12. RelayTypes'
  BY <1>9, <1>11 DEF RelayTypes, E
<1>15. Blamed'
  <2>1. UNCHANGED <<phase, dropped, diverged, channel>>
    BY <1>1 DEF vars, run, pipe
  <2>2. Failed(sent) \/ Failed(out) => Failed(sent') \/ Failed(sem'.out)
    BY <1>1, <1>6, <1>7, <1>9
  <2>3. QED
    BY <1>1, <1>2, <1>7, <2>1, <2>2 DEF Blamed
<1>16. QED
  BY <1>3, <1>12, <1>15 DEF StreamInv

LEMMA ReturnInv ==
  ASSUME StreamInv, Return
  PROVE  StreamInv'
<1> DEFINE E == ModelEvents
<1>1. /\ sem' = [sem EXCEPT !.out = <<>>] /\ sent' = sent
      /\ IF dropped THEN UNCHANGED vars ELSE Drop
  BY DEF Return
<1>2. Sound /\ RelayTypes
  BY DEF StreamInv
<1>3. Sound' /\ dropped'
  <2>1. CASE dropped
    <3>1. UNCHANGED vars
      BY <1>1, <2>1
    <3>2. dropped' = dropped
      BY <3>1 DEF vars, pipe
    <3>3. QED
      BY <1>2, <2>1, <3>1, <3>2, StillSound
  <2>2. CASE ~dropped
    BY <1>1, <1>2, <2>2, DropSound
  <2>3. QED
    BY <2>1, <2>2
<1>4. sem \in Streams /\ sent \in Seq(E)
  BY <1>2 DEF RelayTypes
<1>5. sem.out \in Seq(E) /\ <<>> \in Seq(E)
  BY <1>4 DEF Streams
<1> HIDE DEF E
<1>6. sem' \in Streams
  BY <1>1, <1>4, <1>5 DEF Streams, E
<1>8. RelayTypes'
  BY <1>1, <1>4, <1>6 DEF RelayTypes, E
<1>10. Blamed'
  BY <1>3 DEF Blamed
<1>11. QED
  BY <1>3, <1>8, <1>10 DEF StreamInv

LEMMA RequestInv ==
  ASSUME StreamInv, Request
  PROVE  StreamInv'
<1>1. Produce /\ UNCHANGED <<sem, sent, gone>>
  BY DEF Request, relaying
<1>2. Sound /\ RelayTypes
  BY DEF StreamInv
<1>3. Soundly
  BY <1>1, <1>2, ProduceSound
<1>4. RelayTypes'
  BY <1>1, <1>2 DEF RelayTypes
<1>5. Blamed'
  BY <1>3 DEF Soundly, EndsBlamed, Blamed
<1>6. QED
  BY <1>3, <1>4, <1>5 DEF StreamInv, Soundly, Sound

LEMMA NextInv ==
  ASSUME StreamInv, [StreamNext]_all
  PROVE  StreamInv'
<1>1. CASE Request
  BY <1>1, RequestInv
<1>2. CASE Relay
  BY <1>2, FeedInv, FeedErrorInv, FlushInv, SendInv, ReturnInv DEF Relay
<1>3. CASE HangUp
  <2>1. gone' /\ UNCHANGED <<vars, sem, sent>>
    BY <1>3 DEF HangUp
  <2>2. Sound'
    BY <2>1, StillSound DEF StreamInv
  <2>3. RelayTypes' /\ Blamed'
    BY <2>1 DEF StreamInv, RelayTypes, Blamed
  <2>4. QED
    BY <2>2, <2>3 DEF StreamInv
<1>4. CASE Finished \/ UNCHANGED all
  <2>1. UNCHANGED <<vars, sem, sent, gone>>
    BY <1>4 DEF Finished, all, relaying
  <2>2. Sound'
    BY <2>1, StillSound DEF StreamInv
  <2>3. RelayTypes' /\ Blamed'
    BY <2>1 DEF StreamInv, RelayTypes, Blamed, vars, run, pipe
  <2>4. QED
    BY <2>2, <2>3 DEF StreamInv
<1>5. QED
  BY <1>1, <1>2, <1>3, <1>4 DEF StreamNext

(* The inductive invariant: the parser stays one for any text, what its     *)
(* reasoning detector withholds is the beginning of a marker it may still   *)
(* see, and a request that ends after a divergence has an error on its way. *)
(* Code: ReasoningDetector::feed, run_turn's end.                           *)
THEOREM StreamInvariant == StreamSpec => []StreamInv
<1>1. StreamInit => StreamInv
  BY InitInv
<1>2. StreamInv /\ [StreamNext]_all => StreamInv'
  BY NextInv
<1>3. QED
  BY <1>1, <1>2, PTL DEF StreamSpec

LEMMA HandedType ==
  ASSUME StreamInv
  PROVE  /\ sent \in Seq(ModelEvents)
         /\ sem.out \in Seq(ModelEvents)
         /\ Handed \in Seq(ModelEvents)
<1> DEFINE E == ModelEvents
<1>1. sent \in Seq(E) /\ sem.out \in Seq(E)
  BY DEF StreamInv, RelayTypes, Streams
<1> HIDE DEF E
<1>2. Handed \in Seq(E)
  BY <1>1, ConcatProperties DEF Handed
<1>3. QED
  BY <1>1, <1>2 DEF E

(* A request that ends without an error has sent the whole of the last      *)
(* snapshot of its last attempt, unless that attempt sent no text.  Code:   *)
(* attempt_http returns Ok only when not diverged.                          *)
THEOREM CleanEnd == StreamSpec => []CleanEndComplete
<1>1. StreamInv => CleanEndComplete
  <2>1. SUFFICES ASSUME StreamInv, phase = "done", ~dropped, ~gone, Errors = {}
                 PROVE  shown \in {<<>>, emitted}
    BY DEF CleanEndComplete
  <2> DEFINE E == ModelEvents \cup Items
             onWay == Handed \o channel
  <2>2. sent \in Seq(E) /\ sem.out \in Seq(E) /\ Handed \in Seq(E) /\ channel \in Seq(E)
    BY <2>1, HandedType DEF StreamInv, Sound, RequestTypes
  <2> HIDE DEF E
  <2>3. /\ DOMAIN onWay = 1..Len(Handed) + Len(channel)
        /\ \A i \in 1..Len(Handed) : onWay[i] = Handed[i]
        /\ \A i \in 1..Len(channel) : onWay[Len(Handed) + i] = channel[i]
    BY <2>2, ConcatProperties
  <2>4. /\ Len(Handed) = Len(sent) + Len(sem.out)
        /\ \A i \in 1..Len(sent) : Handed[i] = sent[i]
        /\ \A i \in 1..Len(sem.out) : Handed[Len(sent) + i] = sem.out[i]
    BY <2>2, ConcatProperties DEF Handed
  <2>5. \A i \in DOMAIN onWay : onWay[i].kind # "error"
    BY <2>1 DEF Errors
  <2> HIDE DEF onWay
  <2>6. Len(sent) \in Nat /\ Len(sem.out) \in Nat /\ Len(channel) \in Nat
    BY <2>2
  <2>7. ASSUME NEW i \in 1..Len(channel)
        PROVE  channel[i].kind # "error"
    <3>1. Len(Handed) + i \in DOMAIN onWay
      BY <2>3, <2>4, <2>6
    <3>2. onWay[Len(Handed) + i] = channel[i]
      BY <2>3
    <3>3. QED
      BY <2>5, <3>1, <3>2
  <2>8. ASSUME NEW i \in 1..Len(Handed)
        PROVE  Handed[i].kind # "error"
    <3>1. i \in DOMAIN onWay /\ onWay[i] = Handed[i]
      BY <2>3, <2>4, <2>6
    <3>2. QED
      BY <2>5, <3>1
  <2>9. ~Failed(sent) /\ ~Failed(sem.out) /\ ~Failed(channel)
    <3>1. ASSUME NEW i \in 1..Len(sent)
          PROVE  sent[i].kind # "error"
      <4>1. i \in 1..Len(Handed) /\ Handed[i] = sent[i]
        BY <2>4, <2>6
      <4>2. QED
        BY <2>8, <4>1
    <3>2. ASSUME NEW i \in 1..Len(sem.out)
          PROVE  sem.out[i].kind # "error"
      <4>1. Len(sent) + i \in 1..Len(Handed) /\ Handed[Len(sent) + i] = sem.out[i]
        BY <2>4, <2>6
      <4>2. QED
        BY <2>8, <4>1
    <3>3. QED
      BY <2>7, <3>1, <3>2 DEF Failed
  <2>10. ~diverged
    BY <2>1, <2>9 DEF StreamInv, Blamed
  <2>11. QED
    BY <2>1, <2>10 DEF StreamInv, Sound, ShownSent
<1>2. QED
  BY <1>1, StreamInvariant, PTL
-----------------------------------------------------------------------------
(* The prose of a text: what of it cleaning a piece may not remove.         *)
LEMMA PrefixStep ==
  ASSUME NEW b \in Toks, NEW n \in 1..Len(b)
  PROVE  /\ SubSeq(b, 1, n - 1) \in Toks /\ b[n] \in Tokens
         /\ SubSeq(b, 1, n) = Append(SubSeq(b, 1, n - 1), b[n])
<1> DEFINE c == SubSeq(b, 1, n - 1)
           x == b[n]
<1>1. Len(b) \in Nat /\ \A i \in 1..Len(b) : b[i] \in Tokens
  BY DEF Toks
<1>2. c \in Seq(Tokens) /\ x \in Tokens
  <2>1. \A i \in 1..n - 1 : b[i] \in Tokens
    BY <1>1
  <2>2. n - 1 \in Int
    BY <1>1
  <2>3. QED
    BY <1>1, <2>1, <2>2, SubSeqProperties
<1>3. SubSeq(b, 1, n) = c \o <<x>>
  <2>1. 1 \in 1..Len(b) /\ n \in 1..Len(b)
    BY <1>1
  <2>2. QED
    BY <2>1, SubSeqRecursiveSecond DEF Toks
<1> HIDE DEF c, x
<1>4. Append(c, x) = c \o <<x>>
  BY <1>2, AppendIsConcat
<1>5. QED
  BY <1>2, <1>3, <1>4 DEF c, x, Toks

LEMMA JoinAppend ==
  ASSUME NEW a \in Toks, NEW c \in Toks, NEW x \in Tokens
  PROVE  a \o c \in Toks /\ a \o Append(c, x) = Append(a \o c, x)
<1> DEFINE one == <<x>>
<1>1. one \in Seq(Tokens) /\ a \in Seq(Tokens) /\ c \in Seq(Tokens) /\ a \o c \in Seq(Tokens)
  BY ConcatProperties DEF Toks
<1>2. Append(c, x) = c \o one /\ Append(a \o c, x) = (a \o c) \o one
  BY <1>1, AppendIsConcat
<1> HIDE DEF one
<1>3. (a \o c) \o one = a \o (c \o one)
  BY <1>1, ConcatAssociative
<1>4. QED
  BY <1>1, <1>2, <1>3 DEF Toks

LEMMA ProseStep ==
  /\ Prose(<<>>) = <<>>
  /\ \A t \in Toks : Prose(t) \in Toks
  /\ \A t \in Toks : \A x \in Tokens :
       Prose(Append(t, x)) = IF x \in Artifacts THEN Prose(t) ELSE Append(Prose(t), x)
<1>1. \A t \in Toks : Prose(t) \in Toks
  BY KeepingType DEF Prose
<1>2. Prose(<<>>) = <<>>
  <2>1. <<>> \in Toks /\ Len(<<>>) = 0
    BY DEF Toks
  <2>2. \E f : Kept(f, <<>>, {k \in DOMAIN <<>> : <<>>[k] \notin Artifacts}) /\ Prose(<<>>) = f[Len(<<>>)]
    BY <2>1, KeepingIs DEF Prose
  <2>3. QED
    BY <2>1, <2>2 DEF Kept
<1>3. ASSUME NEW t \in Toks, NEW x \in Tokens
      PROVE  Prose(Append(t, x)) = IF x \in Artifacts THEN Prose(t) ELSE Append(Prose(t), x)
  <2> DEFINE N == Len(t)
             u == Append(t, x)
             S == {k \in DOMAIN t : t[k] \notin Artifacts}
             R == {k \in DOMAIN u : u[k] \notin Artifacts}
  <2>1. /\ N \in Nat /\ u \in Toks /\ Len(u) = N + 1 /\ u[N + 1] = x
        /\ \A n \in 1..N : u[n] = t[n]
    BY AppendProperties DEF Toks
  <2>2. /\ \A n \in 1..N : n \in S <=> t[n] \notin Artifacts
        /\ \A n \in 1..N + 1 : n \in R <=> u[n] \notin Artifacts
    BY <2>1 DEF Toks
  <2>3. Prose(t) = Keeping(t, S) /\ Prose(u) = Keeping(u, R)
    BY DEF Prose
  <2> HIDE DEF u, S, R
  <2>4. PICK g : Kept(g, t, S) /\ Prose(t) = g[N]
    BY <2>3, KeepingIs
  <2>5. PICK f : Kept(f, u, R) /\ Prose(u) = f[N + 1]
    BY <2>1, <2>3, KeepingIs
  <2> DEFINE D == {n \in 0..N : f[n] = g[n]}
  <2> HIDE DEF N
  <2>6. 0 \in D
    BY <2>1, <2>4, <2>5 DEF Kept
  <2>7. ASSUME NEW n \in 1..N, n - 1 \in D
        PROVE  n \in D
    <3>1. n \in 1..N + 1 /\ n \in 0..N
      BY <2>1
    <3>2. f[n] = IF n \in R THEN Append(f[n - 1], u[n]) ELSE f[n - 1]
      BY <2>1, <2>5, <3>1 DEF Kept
    <3>3. g[n] = IF n \in S THEN Append(g[n - 1], t[n]) ELSE g[n - 1]
      BY <2>4 DEF Kept, N
    <3>4. u[n] = t[n] /\ (n \in R <=> n \in S)
      BY <2>1, <2>2, <3>1
    <3>5. QED
      BY <2>7, <3>1, <3>2, <3>3, <3>4
  <2> HIDE DEF D
  <2>8. \A n \in 0..N : n \in D
    BY <2>1, <2>6, <2>7, InductionUpTo
  <2>9. f[N] = g[N]
    BY <2>1, <2>8 DEF D
  <2>10. N + 1 \in 1..N + 1 /\ (N + 1) - 1 = N
    BY <2>1
  <2>11. f[N + 1] = IF N + 1 \in R THEN Append(f[(N + 1) - 1], u[N + 1]) ELSE f[(N + 1) - 1]
    BY <2>1, <2>5, <2>10 DEF Kept
  <2>12. N + 1 \in R <=> x \notin Artifacts
    BY <2>1, <2>2, <2>10
  <2>13. QED
    BY <2>1, <2>4, <2>5, <2>9, <2>10, <2>11, <2>12 DEF u
<1>4. QED
  BY <1>1, <1>2, <1>3

LEMMA ProseJoin ==
  ASSUME NEW a \in Toks, NEW b \in Toks
  PROVE  Prose(a \o b) = Prose(a) \o Prose(b)
<1> DEFINE N == Len(b)
           upTo(n) == SubSeq(b, 1, n)
           D == {n \in 0..N : Prose(a \o upTo(n)) = Prose(a) \o Prose(upTo(n))}
<1>1. N \in Nat /\ upTo(N) = b /\ Prose(a) \in Toks
  BY SubSeqFull, ProseStep DEF Toks
<1>2. 0 \in D
  <2>1. upTo(0) = <<>>
    BY SubSeqEmpty
  <2>2. a \o <<>> = a /\ Prose(a) \o <<>> = Prose(a)
    BY <1>1, ConcatEmptySeq DEF Toks
  <2>3. Prose(<<>>) = <<>>
    BY ProseStep
  <2> HIDE DEF upTo
  <2>4. Prose(a \o upTo(0)) = Prose(a) \o Prose(upTo(0))
    BY <2>1, <2>2, <2>3
  <2>5. QED
    BY <1>1, <2>4
<1>3. ASSUME NEW n \in 1..N, n - 1 \in D
      PROVE  n \in D
  <2> DEFINE c == upTo(n - 1)
             x == b[n]
  <2>1. c \in Toks /\ x \in Tokens /\ upTo(n) = Append(c, x)
    BY PrefixStep
  <2>2. Prose(a \o c) = Prose(a) \o Prose(c)
    BY <1>3
  <2> HIDE DEF c, x
  <2>3. a \o c \in Toks /\ a \o Append(c, x) = Append(a \o c, x)
    BY <2>1, JoinAppend
  <2>4. Prose(Append(a \o c, x)) = IF x \in Artifacts THEN Prose(a \o c) ELSE Append(Prose(a \o c), x)
    BY <2>1, <2>3, ProseStep
  <2>5. Prose(Append(c, x)) = IF x \in Artifacts THEN Prose(c) ELSE Append(Prose(c), x)
    BY <2>1, ProseStep
  <2>6. Prose(a) \o Append(Prose(c), x) = Append(Prose(a) \o Prose(c), x)
    <3>1. Prose(c) \in Toks
      BY <2>1, ProseStep
    <3>2. QED
      BY <1>1, <2>1, <3>1, JoinAppend
  <2> DEFINE l == a \o Append(c, x)
             r == Append(c, x)
  <2>7. Prose(l) = Prose(a) \o Prose(r)
    <3>1. CASE x \in Artifacts
      BY <2>2, <2>3, <2>4, <2>5, <3>1
    <3>2. CASE x \notin Artifacts
      BY <2>2, <2>3, <2>4, <2>5, <2>6, <3>2
    <3>3. QED
      BY <3>1, <3>2
  <2>8. n \in 0..N
    BY <1>1
  <2>9. Prose(a \o upTo(n)) = Prose(a) \o Prose(upTo(n))
    BY <2>1, <2>7, Zenon
  <2>10. QED
    BY <2>8, <2>9
<1> HIDE DEF D, upTo
<1>4. \A n \in 0..N : n \in D
  BY <1>1, <1>2, <1>3, InductionUpTo
<1>5. N \in D
  BY <1>1, <1>4
<1>6. QED
  BY <1>1, <1>5 DEF D

(* Dropping artifacts leaves the prose.                                     *)
LEMMA ProseOfKept ==
  ASSUME NEW t \in Toks, NEW kept, \A k \in 1..Len(t) : k \notin kept => t[k] \in Artifacts
  PROVE  Prose(Keeping(t, kept)) = Prose(t)
<1> DEFINE N == Len(t)
           upTo(n) == SubSeq(t, 1, n)
<1>1. N \in Nat /\ upTo(N) = t
  BY SubSeqFull DEF Toks
<1>2. PICK f : Kept(f, t, kept) /\ Keeping(t, kept) = f[N]
  BY KeepingIs
<1> DEFINE D == {n \in 0..N : Prose(f[n]) = Prose(upTo(n))}
<1>3. 0 \in D
  <2>1. upTo(0) = <<>>
    BY SubSeqEmpty
  <2>2. f[0] = <<>>
    BY <1>2 DEF Kept
  <2> HIDE DEF upTo
  <2>3. QED
    BY <1>1, <2>1, <2>2
<1>4. ASSUME NEW n \in 1..N, n - 1 \in D
      PROVE  n \in D
  <2> DEFINE c == upTo(n - 1)
             x == t[n]
             g == f[n - 1]
  <2>1. c \in Toks /\ x \in Tokens /\ upTo(n) = Append(c, x)
    BY PrefixStep
  <2>2. n - 1 \in 0..N /\ n \in 0..N
    BY <1>1
  <2>3. g \in Toks /\ f[n] = IF n \in kept THEN Append(g, x) ELSE g
    BY <1>2, <2>2 DEF Kept
  <2>4. Prose(g) = Prose(c)
    BY <1>4
  <2>5. n \notin kept => x \in Artifacts
    OBVIOUS
  <2> HIDE DEF c, x, g
  <2>6. Prose(Append(g, x)) = IF x \in Artifacts THEN Prose(g) ELSE Append(Prose(g), x)
    BY <2>1, <2>3, ProseStep
  <2>7. Prose(Append(c, x)) = IF x \in Artifacts THEN Prose(c) ELSE Append(Prose(c), x)
    BY <2>1, ProseStep
  <2>8. Prose(f[n]) = Prose(upTo(n))
    <3>1. CASE n \in kept
      BY <2>1, <2>3, <2>4, <2>6, <2>7, <3>1
    <3>2. CASE n \notin kept
      BY <2>1, <2>3, <2>4, <2>5, <2>7, <3>2
    <3>3. QED
      BY <3>1, <3>2
  <2>9. QED
    BY <2>2, <2>8
<1> HIDE DEF D, upTo
<1>5. \A n \in 0..N : n \in D
  BY <1>1, <1>3, <1>4, InductionUpTo
<1>6. N \in D
  BY <1>1, <1>5
<1>7. QED
  BY <1>1, <1>2, <1>6 DEF D
-----------------------------------------------------------------------------
(* The text that left is the text of one snapshot.  What clean_text removes *)
(* has to be an artifact: a reference block holds nothing else.             *)
BlocksHoldArtifacts ==
  \A texts \in Answers : \A t \in texts : \A k \in DOMAIN t : InBlock(t, k) => t[k] \in Artifacts

TextsFrom == \A i \in 1..Len(line) : line[i].kind = "text" => line[i].toks \in answer
TextInv == StreamInv /\ TextsFrom /\ OneText

LEMMA LinesTexts ==
  ASSUME NEW l \in Lines, NEW i \in 1..Len(l), l[i].kind = "text"
  PROVE  l[i].toks \in answer
<1>1. PICK c \in CallEvents \cup {<<>>}, t \in Contents : l = c \o t
  BY DEF Lines
<1> DEFINE Good(e) == e.kind = "text" => e.toks \in answer
           S == {e \in {c[1], t[1]} : Good(e)}
<1>2. c \in Seq(S)
  <2>1. CASE c = <<>>
    BY <2>1
  <2>2. CASE c # <<>>
    <3>1. PICK id : c = <<[kind |-> "call", id |-> id]>>
      BY <1>1, <2>2 DEF CallEvents
    <3> DEFINE e == [kind |-> "call", id |-> id]
    <3>2. e.kind # "text" /\ c = <<e>>
      BY <3>1
    <3> HIDE DEF e
    <3>3. c[1] = e /\ c[1] \in S
      BY <3>2
    <3> HIDE DEF S
    <3>4. QED
      BY <3>2, <3>3
  <2>3. QED
    BY <2>1, <2>2
<1>3. t \in Seq(S)
  <2>1. CASE t = <<>>
    BY <2>1
  <2>2. ASSUME NEW e, Good(e), t = <<e>>
        PROVE  t \in Seq(S)
    <3>1. t[1] = e
      BY <2>2
    <3>2. e \in S
      BY <2>2, <3>1
    <3> HIDE DEF S
    <3>3. QED
      BY <2>2, <3>2
  <2>3. ASSUME NEW u \in answer, t = <<[kind |-> "text", toks |-> u]>>
        PROVE  t \in Seq(S)
    <3> DEFINE e == [kind |-> "text", toks |-> u]
    <3>1. Good(e) /\ t = <<e>>
      BY <2>3
    <3> HIDE DEF e, Good, S
    <3>2. QED
      BY <2>2, <3>1
  <2>4. ASSUME NEW m \in Marks, t = <<[kind |-> "metadata", of |-> m]>>
        PROVE  t \in Seq(S)
    <3> DEFINE e == [kind |-> "metadata", of |-> m]
    <3>1. Good(e) /\ t = <<e>>
      BY <2>4
    <3> HIDE DEF e, Good, S
    <3>2. QED
      BY <2>2, <3>1
  <2> HIDE DEF S
  <2>5. QED
    BY <1>1, <2>1, <2>3, <2>4 DEF Contents, Marks
<1> HIDE DEF S
<1>4. l \in Seq(S)
  BY <1>1, <1>2, <1>3, ConcatProperties
<1>5. l[i] \in S
  BY <1>4
<1>6. QED
  BY <1>5 DEF S

LEMMA BlockOfRest ==
  ASSUME NEW t \in Toks, NEW prefix \in Toks, Extends(t, prefix),
         NEW k \in 1..Len(Rest(t, prefix))
  PROVE  /\ Len(prefix) + k \in DOMAIN t /\ Rest(t, prefix)[k] = t[Len(prefix) + k]
         /\ InBlock(Rest(t, prefix), k) => InBlock(t, Len(prefix) + k)
<1> DEFINE r == Rest(t, prefix)
           L == Len(prefix)
<1>1. r \in Toks /\ t = prefix \o r /\ L \in Nat /\ Len(r) \in Nat
  BY RestType DEF Toks
<1> HIDE DEF r
<1>2. /\ Len(t) = L + Len(r) /\ DOMAIN t = 1..Len(t) /\ DOMAIN r = 1..Len(r)
      /\ \A i \in 1..Len(r) : t[L + i] = r[i]
  BY <1>1, ConcatProperties DEF Toks
<1> HIDE DEF L
<1>3. L + k \in DOMAIN t /\ r[k] = t[L + k]
  BY <1>1, <1>2 DEF r
<1>4. ASSUME InBlock(r, k)
      PROVE  InBlock(t, L + k)
  <2>1. PICK i \in 1..Len(r), j \in 1..Len(r) :
               /\ i <= k /\ k <= j
               /\ r[i] = "ref(" /\ r[j] = ")ref" /\ \A m \in i..j - 1 : r[m] # ")ref"
    BY <1>2, <1>4 DEF InBlock
  <2>2. L + i \in DOMAIN t /\ L + j \in DOMAIN t /\ L + i <= L + k /\ L + k <= L + j
    BY <1>1, <1>2, <2>1 DEF r
  <2>3. t[L + i] = "ref(" /\ t[L + j] = ")ref"
    BY <1>2, <2>1
  <2>4. ASSUME NEW m \in L + i..(L + j) - 1
        PROVE  t[m] # ")ref"
    <3>1. m - L \in i..j - 1 /\ m - L \in 1..Len(r) /\ L + (m - L) = m
      BY <1>1, <2>1
    <3>2. t[L + (m - L)] = r[m - L]
      BY <1>2, <3>1
    <3>3. QED
      BY <2>1, <3>1, <3>2
  <2>5. QED
    BY <2>2, <2>3, <2>4 DEF InBlock
<1>5. QED
  BY <1>3, <1>4 DEF r, L

(* Cleaning what a snapshot adds.                                           *)
LEMMA CleanProse ==
  ASSUME BlocksHoldArtifacts, answer \in Answers, NEW t \in answer, t \in Toks,
         NEW prefix \in Toks, Extends(t, prefix)
  PROVE  Prose(t) = Prose(prefix) \o Prose(Clean(Rest(t, prefix)))
<1> DEFINE r == Rest(t, prefix)
           kept == {k \in DOMAIN r : r[k] # "card" /\ ~InBlock(r, k)}
<1>1. r \in Toks /\ t = prefix \o r
  BY RestType
<1>2. ASSUME NEW k \in 1..Len(r), k \notin kept
      PROVE  r[k] \in Artifacts
  <2>1. DOMAIN r = 1..Len(r)
    BY <1>1 DEF Toks
  <2>2. CASE r[k] = "card"
    BY <2>2 DEF Artifacts
  <2>3. CASE InBlock(r, k)
    <3>1. /\ Len(prefix) + k \in DOMAIN t /\ r[k] = t[Len(prefix) + k]
          /\ InBlock(t, Len(prefix) + k)
      BY <2>3, BlockOfRest
    <3>2. t[Len(prefix) + k] \in Artifacts
      BY <3>1 DEF BlocksHoldArtifacts
    <3>3. QED
      BY <3>1, <3>2
  <2>4. QED
    BY <1>2, <2>1, <2>2, <2>3
<1>3. Clean(r) = Keeping(r, kept)
  BY DEF Clean
<1> HIDE DEF r, kept
<1>4. Prose(Clean(r)) = Prose(r)
  BY <1>1, <1>2, <1>3, ProseOfKept
<1>5. Prose(prefix \o r) = Prose(prefix) \o Prose(r)
  BY <1>1, ProseJoin
<1>6. QED
  BY <1>1, <1>4, <1>5 DEF r

LEMMA EmitTextProse ==
  ASSUME BlocksHoldArtifacts, TextInv, EmitText
  PROVE  OneText'
<1> DEFINE candidate == Head(line).toks
           delta == Clean(Rest(candidate, emitted))
           item == [kind |-> "text", toks |-> delta]
<1>1. /\ line # <<>> /\ Head(line).kind = "text"
      /\ emitted' = IF Extends(candidate, emitted) THEN candidate ELSE emitted
      /\ IF Extends(candidate, emitted) /\ delta # <<>> THEN Put(item) ELSE UNCHANGED pipe
  BY DEF EmitText
<1>2. RequestTypes /\ TextsFrom /\ Prose(delivered) = Prose(emitted)
  BY DEF TextInv, StreamInv, Sound, OneText
<1>3. /\ line \in Seq(LineEvents) /\ answer \in Answers
      /\ emitted \in Toks /\ delivered \in Toks
  BY <1>2 DEF RequestTypes
<1>4. candidate \in answer /\ candidate \in Toks
  <2>1. Head(line) = line[1] /\ 1 \in 1..Len(line) /\ Head(line) \in LineEvents
    BY <1>1, <1>3
  <2>2. candidate \in answer
    BY <1>1, <1>2, <2>1 DEF TextsFrom
  <2>3. candidate \in Toks
    BY <1>1, <2>1 DEF LineEvents, Words, Requests
  <2>4. QED
    BY <2>2, <2>3
<1> HIDE DEF candidate
<1>5. CASE ~Extends(candidate, emitted)
  <2>1. emitted' = emitted /\ delivered' = delivered
    BY <1>1, <1>5 DEF pipe
  <2>2. QED
    BY <1>2, <2>1 DEF OneText
<1>6. CASE Extends(candidate, emitted)
  <2>1. Prose(candidate) = Prose(emitted) \o Prose(delta)
    BY <1>3, <1>4, <1>6, CleanProse
  <2>2. delta \in Toks
    BY <1>3, <1>4, <1>6, RestType, KeepingType DEF Clean
  <2> HIDE DEF delta
  <2>3. CASE delta # <<>>
    <3>1. item \in Items /\ item.kind = "text" /\ item.toks = delta
      BY <2>2 DEF Items, LineEvents, Words
    <3>2. Put(item)
      BY <1>1, <1>6, <2>3
    <3> HIDE DEF item
    <3>3. delivered' = delivered \o delta
      BY <1>2, <3>1, <3>2, PutIs
    <3>4. Prose(delivered \o delta) = Prose(delivered) \o Prose(delta)
      BY <1>3, <2>2, ProseJoin
    <3>5. QED
      BY <1>1, <1>2, <1>6, <2>1, <3>3, <3>4 DEF OneText
  <2>4. CASE delta = <<>>
    <3>1. delivered' = delivered
      BY <1>1, <1>6, <2>4 DEF pipe
    <3>2. Prose(emitted) \in Toks /\ Prose(delta) = <<>>
      BY <1>3, <2>4, ProseStep
    <3>3. Prose(emitted) \o <<>> = Prose(emitted)
      BY <3>2, ConcatEmptySeq DEF Toks
    <3>4. QED
      BY <1>1, <1>2, <1>6, <2>1, <3>1, <3>2, <3>3 DEF OneText
  <2>5. QED
    BY <2>3, <2>4
<1>7. QED
  BY <1>5, <1>6

LEMMA OtherProse ==
  ASSUME Sound, Produce, ~EmitText
  PROVE  UNCHANGED <<emitted, delivered>>
<1>1. RequestTypes
  BY DEF Sound
<1>2. CASE Connect \/ NextAttempt \/ ReadLine \/ EndOfBody \/ EndClean \/ Abandon
  BY <1>2 DEF Connect, NextAttempt, ReadLine, EndOfBody, EndClean, Abandon, run, pipe
<1>3. CASE ConnectFails \/ ReadFails \/ Refused \/ Oversized \/ EndDiverged
  BY <1>3 DEF ConnectFails, ReadFails, Refused, Oversized, EndDiverged, Fail, pipe
<1>4. ASSUME NEW item, item.kind # "text", Put(item)
      PROVE  delivered' = delivered
  <2>1. delivered' = delivered \o <<>>
    BY <1>4 DEF Put
  <2>2. QED
    BY <1>1, <2>1, ConcatEmptySeq DEF RequestTypes, Toks
<1>5. CASE EmitCall
  <2>1. emitted' = emitted /\ (UNCHANGED pipe \/ \E id : Put([kind |-> "call", id |-> id]))
    BY <1>5 DEF EmitCall
  <2>2. \A id : [kind |-> "call", id |-> id].kind # "text"
    OBVIOUS
  <2>3. QED
    BY <1>4, <2>1, <2>2 DEF pipe
<1>6. CASE EmitMetadata
  <2>1. emitted' = emitted /\ \E m : Put([kind |-> "metadata", of |-> m])
    BY <1>6 DEF EmitMetadata
  <2>2. \A m : [kind |-> "metadata", of |-> m].kind # "text"
    OBVIOUS
  <2>3. QED
    BY <1>4, <2>1, <2>2
<1>7. CASE Blocked \/ EndUnusable \/ SendFailure
  <2>1. emitted' = emitted /\ \E error : Put([kind |-> "error", of |-> error])
    BY <1>7 DEF Blocked, EndUnusable, SendFailure, GiveUp, run
  <2>2. \A error : [kind |-> "error", of |-> error].kind # "text"
    OBVIOUS
  <2>3. QED
    BY <1>4, <2>1, <2>2
<1>8. QED
  BY <1>2, <1>3, <1>5, <1>6, <1>7 DEF Produce

LEMMA ProduceTexts ==
  ASSUME Sound, TextsFrom, Produce
  PROVE  TextsFrom'
<1>1. answer' = answer
  BY DEF Produce, Connect, NextAttempt, ReadLine, EndOfBody, EndClean, Abandon, ConnectFails,
         ReadFails, Refused, Oversized, EndDiverged, Fail, EmitCall, EmitText, EmitMetadata,
         Blocked, EndUnusable, SendFailure, GiveUp, Put, pipe
<1>2. \/ line' = line \/ line' = <<>> \/ line' \in Lines
      \/ line # <<>> /\ line' = Tail(line)
  BY DEF Produce, Connect, NextAttempt, ReadLine, EndOfBody, EndClean, Abandon, ConnectFails,
         ReadFails, Refused, Oversized, EndDiverged, Fail, EmitCall, EmitText, EmitMetadata,
         Blocked, EndUnusable, SendFailure, GiveUp, Handled, Decode, run, pipe
<1>3. CASE line' = line
  BY <1>1, <1>3 DEF TextsFrom
<1>4. CASE line' = <<>>
  <2>1. Len(<<>>) = 0
    OBVIOUS
  <2>2. QED
    BY <1>4, <2>1 DEF TextsFrom
<1>5. CASE line' \in Lines
  BY <1>1, <1>5, LinesTexts DEF TextsFrom
<1>6. CASE line # <<>> /\ line' = Tail(line)
  <2>1. line \in Seq(LineEvents)
    BY DEF Sound, RequestTypes
  <2>2. /\ Len(line') = Len(line) - 1 /\ Len(line) \in Nat
        /\ \A i \in 1..Len(line') : line'[i] = line[i + 1]
    BY <1>6, <2>1, HeadTailProperties
  <2>3. ASSUME NEW i \in 1..Len(line'), line'[i].kind = "text"
        PROVE  line'[i].toks \in answer
    <3>1. i + 1 \in 1..Len(line) /\ line'[i] = line[i + 1]
      BY <2>2
    <3>2. QED
      BY <2>3, <3>1 DEF TextsFrom
  <2>4. QED
    BY <1>1, <2>3 DEF TextsFrom
<1>7. QED
  BY <1>2, <1>3, <1>4, <1>5, <1>6

(* The text that left the request is the text of one snapshot, for any      *)
(* texts whose reference blocks hold only artifacts, and any attempts.      *)
(* Code: run_turn keeps `emitted` over attempts, emit_frame sends the       *)
(* difference.                                                              *)
THEOREM OneTextSent ==
  ASSUME BlocksHoldArtifacts
  PROVE  StreamSpec => []OneText
<1>1. StreamInit => TextInv
  <2>1. SUFFICES ASSUME StreamInit
                 PROVE  TextInv
    OBVIOUS
  <2>2. line = <<>> /\ delivered = <<>> /\ emitted = <<>>
    BY <2>1 DEF StreamInit, Init
  <2>3. Len(<<>>) = 0
    OBVIOUS
  <2>4. TextsFrom /\ OneText
    BY <2>2, <2>3 DEF TextsFrom, OneText
  <2>5. QED
    BY <2>1, <2>4, InitInv DEF TextInv
<1>2. TextInv /\ [StreamNext]_all => TextInv'
  <2>1. SUFFICES ASSUME TextInv, [StreamNext]_all
                 PROVE  TextInv'
    OBVIOUS
  <2>2. StreamInv'
    BY <2>1, NextInv DEF TextInv
  <2>3. Sound /\ TextsFrom /\ OneText
    BY <2>1 DEF TextInv, StreamInv
  <2>4. CASE Request
    <3>1. Produce
      BY <2>4 DEF Request
    <3>2. TextsFrom'
      BY <2>3, <3>1, ProduceTexts
    <3>3. OneText'
      <4>1. CASE EmitText
        BY <2>1, <4>1, EmitTextProse
      <4>2. CASE ~EmitText
        BY <2>3, <3>1, <4>2, OtherProse DEF OneText
      <4>3. QED
        BY <4>1, <4>2
    <3>4. QED
      BY <2>2, <3>2, <3>3 DEF TextInv
  <2>5. CASE ~Request
    <3>1. UNCHANGED <<answer, line, emitted, delivered>>
      BY <2>1, <2>5 DEF StreamNext, Relay, Feed, FeedError, Flush, Send, Return, HangUp, Finished,
                        Take, Drop, all, vars, run, pipe
    <3>2. TextsFrom' /\ OneText'
      BY <2>3, <3>1 DEF TextsFrom, OneText
    <3>3. QED
      BY <2>2, <3>2 DEF TextInv
  <2>6. QED
    BY <2>4, <2>5
<1>3. TextInv => OneText
  BY DEF TextInv
<1>4. QED
  BY <1>1, <1>2, <1>3, PTL DEF StreamSpec
=============================================================================
