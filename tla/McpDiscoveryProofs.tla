-------------------------- MODULE McpDiscoveryProofs --------------------------
(***************************************************************************)
(* Proofs about McpDiscovery for any lists of servers, pages, answers and  *)
(* numbers of attempts.                                                    *)
(***************************************************************************)
EXTENDS McpDiscovery, SequencesExt, WellFoundedInduction, TLAPS

(***************************************************************************)
(* What FlattenSeq of the community modules computes, for every sequence   *)
(* of sequences.  The provers cannot instantiate the library's induction   *)
(* theorems, which take the formula as an operator, so the inductions here *)
(* look at the least element of the set of counterexamples.                *)
(***************************************************************************)
LEMMA LeastNatural ==
  ASSUME NEW T \in SUBSET Nat, T # {}
  PROVE  \E n \in T : \A m \in T : n <= m
<1> DEFINE R == {p \in Nat \X Nat : p[1] < p[2]}
<1>1. IsWellFoundedOn(R, Nat)
  BY NatLessThanWellFounded DEF OpToRel
<1>2. \A m, n \in Nat : <<m, n>> \in R <=> m < n
  OBVIOUS
<1> HIDE DEF R
<1>3. PICK n \in T : \A m \in T : ~(<<m, n>> \in R)
  BY <1>1, WFMin
<1>4. n \in Nat /\ T \subseteq Nat
  OBVIOUS
<1>5. \A m \in T : ~(m < n)
  BY <1>2, <1>3, <1>4, Zenon
<1>6. QED
  BY <1>4, <1>5

(* What FlattenSeq's local function has to be, up to n.                    *)
Accumulates(f, s, n) ==
  f = [i \in 1..n |-> IF i = 1 THEN s[i] ELSE f[i-1] \o s[i]]

Accumulated(s) == CHOOSE f : Accumulates(f, s, Len(s))

LEMMA AccumulationExists ==
  ASSUME NEW s, NEW n \in Nat
  PROVE  \E f : Accumulates(f, s, n)
<1> DEFINE T == {m \in Nat : ~\E f : Accumulates(f, s, m)}
<1>1. SUFFICES ASSUME T # {}
               PROVE  FALSE
  OBVIOUS
<1>2. PICK m \in T : \A k \in T : m <= k
  <2>1. T \in SUBSET Nat
    OBVIOUS
  <2> HIDE DEF T
  <2>2. QED
    BY <1>1, <2>1, LeastNatural
<1>3. m \in Nat /\ ~\E f : Accumulates(f, s, m)
  OBVIOUS
<1>4. CASE m = 0
  <2> DEFINE f == [i \in 1..0 |-> s[i]]
  <2>1. f = [i \in 1..0 |-> IF i = 1 THEN s[i] ELSE f[i-1] \o s[i]]
    OBVIOUS
  <2>2. QED
    BY <1>3, <1>4, <2>1 DEF Accumulates
<1>5. CASE m # 0
  <2>1. m - 1 \in Nat /\ ~(m <= m - 1)
    BY <1>3, <1>5
  <2>2. PICK f : Accumulates(f, s, m - 1)
    BY <1>2, <2>1
  <2> DEFINE g == [i \in 1..m |-> IF i < m THEN f[i]
                                  ELSE IF i = 1 THEN s[i] ELSE f[i-1] \o s[i]]
  <2>3. \A i \in 1..m - 1 : f[i] = IF i = 1 THEN s[i] ELSE f[i-1] \o s[i]
    BY <1>3, <2>2 DEF Accumulates
  <2>4. ASSUME NEW i \in 1..m
        PROVE  g[i] = IF i = 1 THEN s[i] ELSE g[i-1] \o s[i]
    <3>1. i # 1 => g[i-1] = f[i-1]
      BY <1>3
    <3>2. CASE i < m
      <4>1. i \in 1..m - 1
        BY <1>3, <3>2
      <4>2. QED
        BY <2>3, <3>1, <3>2, <4>1
    <3>3. CASE ~(i < m)
      BY <3>1, <3>3
    <3>4. QED
      BY <3>2, <3>3
  <2>5. g = [i \in 1..m |-> g[i]]
    OBVIOUS
  <2> HIDE DEF g
  <2>6. Accumulates(g, s, m)
    BY <2>4, <2>5 DEF Accumulates
  <2>7. QED
    BY <1>3, <2>6
<1>6. QED
  BY <1>4, <1>5

LEMMA AccumulatedIs ==
  ASSUME NEW S, NEW s \in Seq(S)
  PROVE  \A i \in 1..Len(s) :
           Accumulated(s)[i] = IF i = 1 THEN s[i] ELSE Accumulated(s)[i-1] \o s[i]
<1>1. Len(s) \in Nat
  OBVIOUS
<1>2. Accumulates(Accumulated(s), s, Len(s))
  BY <1>1, AccumulationExists DEF Accumulated
<1>3. QED
  BY <1>1, <1>2 DEF Accumulates

LEMMA FlattenIs ==
  ASSUME NEW S, NEW s \in Seq(S)
  PROVE  FlattenSeq(s) = IF Len(s) = 0 THEN <<>> ELSE Accumulated(s)[Len(s)]
<1>1. CASE Len(s) = 0
  <2>1. s = <<>>
    BY <1>1
  <2>2. QED
    BY <1>1, <2>1 DEF FlattenSeq
<1>2. CASE Len(s) # 0
  BY <1>2 DEF FlattenSeq, Accumulated, Accumulates
<1>3. QED
  BY <1>1, <1>2

LEMMA AccumulatedType ==
  ASSUME NEW S, NEW s \in Seq(Seq(S))
  PROVE  \A i \in 1..Len(s) : Accumulated(s)[i] \in Seq(S)
<1> DEFINE T == {i \in 1..Len(s) : Accumulated(s)[i] \notin Seq(S)}
<1>1. SUFFICES ASSUME T # {}
               PROVE  FALSE
  OBVIOUS
<1>2. T \in SUBSET Nat
  OBVIOUS
<1>3. PICK i \in T : \A k \in T : i <= k
  <2> HIDE DEF T
  <2>1. QED
    BY <1>1, <1>2, LeastNatural
<1>4. i \in 1..Len(s) /\ Accumulated(s)[i] \notin Seq(S) /\ s[i] \in Seq(S)
  OBVIOUS
<1>5. i # 1 => i - 1 \in 1..Len(s) /\ ~(i <= i - 1)
  BY <1>4
<1>6. i # 1 => Accumulated(s)[i-1] \in Seq(S)
  BY <1>3, <1>5
<1>7. Accumulated(s)[i] = IF i = 1 THEN s[i] ELSE Accumulated(s)[i-1] \o s[i]
  BY <1>4, AccumulatedIs
<1> HIDE DEF T
<1>8. QED
  BY <1>4, <1>6, <1>7

LEMMA AccumulatedPrefix ==
  ASSUME NEW S, NEW s \in Seq(Seq(S)), NEW n \in 0..Len(s)
  PROVE  \A i \in 1..n : Accumulated(SubSeq(s, 1, n))[i] = Accumulated(s)[i]
<1> DEFINE t == SubSeq(s, 1, n)
           T == {i \in 1..n : Accumulated(t)[i] # Accumulated(s)[i]}
<1>0. /\ t \in Seq(Seq(S)) /\ Len(t) = n
      /\ \A i \in 1..n : t[i] = s[i] /\ i \in 1..Len(s)
  OBVIOUS
<1> HIDE DEF t
<1>1. SUFFICES ASSUME T # {}
               PROVE  FALSE
  BY DEF t
<1>2. T \in SUBSET Nat
  OBVIOUS
<1>3. PICK i \in T : \A k \in T : i <= k
  <2> HIDE DEF T
  <2>1. QED
    BY <1>1, <1>2, LeastNatural
<1>4. i \in 1..n /\ Accumulated(t)[i] # Accumulated(s)[i]
  OBVIOUS
<1>5. i # 1 => i - 1 \in 1..n /\ ~(i <= i - 1)
  BY <1>4
<1>6. i # 1 => Accumulated(t)[i-1] = Accumulated(s)[i-1]
  BY <1>3, <1>5
<1> HIDE DEF T
<1>7. Accumulated(t)[i] = IF i = 1 THEN t[i] ELSE Accumulated(t)[i-1] \o t[i]
  BY <1>0, <1>4, AccumulatedIs
<1>8. Accumulated(s)[i] = IF i = 1 THEN s[i] ELSE Accumulated(s)[i-1] \o s[i]
  BY <1>0, <1>4, AccumulatedIs
<1>9. QED
  BY <1>0, <1>4, <1>6, <1>7, <1>8

(* Flattening one element more appends it.                                 *)
FlattenTo(s, n) == FlattenSeq(SubSeq(s, 1, n))

LEMMA FlattenToIs ==
  ASSUME NEW S, NEW s \in Seq(Seq(S)), NEW n \in 0..Len(s)
  PROVE  FlattenTo(s, n) = IF n = 0 THEN <<>> ELSE Accumulated(s)[n]
<1> DEFINE t == SubSeq(s, 1, n)
<1>1. t \in Seq(Seq(S)) /\ Len(t) = n
  OBVIOUS
<1>2. n # 0 => Accumulated(t)[n] = Accumulated(s)[n]
  BY AccumulatedPrefix
<1>3. FlattenTo(s, n) = FlattenSeq(t)
  BY Zenon DEF FlattenTo
<1> HIDE DEF t
<1>4. FlattenSeq(t) = IF n = 0 THEN <<>> ELSE Accumulated(t)[n]
  BY <1>1, FlattenIs
<1>5. QED
  BY <1>2, <1>3, <1>4

LEMMA FlattenStep ==
  ASSUME NEW S, NEW s \in Seq(Seq(S))
  PROVE  /\ FlattenTo(s, 0) = <<>> /\ FlattenTo(s, Len(s)) = FlattenSeq(s)
         /\ \A n \in 0..Len(s) : FlattenTo(s, n) \in Seq(S)
         /\ \A n \in 0..Len(s) - 1 :
              s[n + 1] \in Seq(S) /\ FlattenTo(s, n + 1) = FlattenTo(s, n) \o s[n + 1]
<1>1. \A n \in 0..Len(s) : FlattenTo(s, n) = IF n = 0 THEN <<>> ELSE Accumulated(s)[n]
  BY FlattenToIs
<1>2. Len(s) \in 0..Len(s) /\ 0 \in 0..Len(s)
  OBVIOUS
<1>3. FlattenTo(s, 0) = <<>> /\ FlattenTo(s, Len(s)) = FlattenSeq(s)
  BY <1>1, <1>2, FlattenIs
<1>4. \A n \in 0..Len(s) : FlattenTo(s, n) \in Seq(S)
  <2> TAKE n \in 0..Len(s)
  <2>1. CASE n = 0
    <3>1. <<>> \in Seq(S)
      OBVIOUS
    <3>2. QED
      BY <1>3, <2>1, <3>1, Zenon
  <2>2. CASE n # 0
    <3>1. n \in 1..Len(s)
      BY <2>2
    <3>2. QED
      BY <1>1, <2>2, <3>1, AccumulatedType
  <2>3. QED
    BY <2>1, <2>2
<1>5. ASSUME NEW n \in 0..Len(s) - 1
      PROVE  s[n + 1] \in Seq(S) /\ FlattenTo(s, n + 1) = FlattenTo(s, n) \o s[n + 1]
  <2>1. /\ n \in 0..Len(s) /\ n + 1 \in 1..Len(s) /\ n + 1 \in 0..Len(s)
        /\ n + 1 # 0 /\ (n + 1) - 1 = n /\ s[n + 1] \in Seq(S)
    OBVIOUS
  <2>2. Accumulated(s)[n + 1] = IF n + 1 = 1 THEN s[n + 1] ELSE Accumulated(s)[n] \o s[n + 1]
    BY <2>1, AccumulatedIs
  <2>3. FlattenTo(s, n + 1) = Accumulated(s)[n + 1]
    BY <1>1, <2>1
  <2>4. CASE n = 0
    <3>1. FlattenTo(s, n) = <<>> /\ Accumulated(s)[n + 1] = s[n + 1]
      BY <1>3, <2>2, <2>4
    <3>2. <<>> \o s[n + 1] = s[n + 1]
      BY <2>1
    <3>3. QED
      BY <2>1, <2>3, <3>1, <3>2
  <2>5. CASE n # 0
    <3>1. FlattenTo(s, n) = Accumulated(s)[n]
      BY <1>1, <2>1, <2>5
    <3>2. n + 1 # 1
      BY <2>5
    <3>3. QED
      BY <2>1, <2>2, <2>3, <3>1, <3>2
  <2>6. QED
    BY <2>4, <2>5
<1>6. QED
  BY <1>3, <1>4, <1>5

(* Nothing is lost.                                                        *)
LEMMA FlattenKeeps ==
  ASSUME NEW S, NEW s \in Seq(Seq(S)), NEW p \in 1..Len(s), NEW k \in DOMAIN s[p]
  PROVE  \E l \in DOMAIN FlattenSeq(s) : FlattenSeq(s)[l] = s[p][k]
<1> DEFINE Has(n) == \E l \in DOMAIN FlattenTo(s, n) : FlattenTo(s, n)[l] = s[p][k]
           T == {n \in p..Len(s) : ~Has(n)}
<1>1. \A n \in 1..Len(s) :
        /\ FlattenTo(s, n - 1) \in Seq(S) /\ s[n] \in Seq(S)
        /\ FlattenTo(s, n) = FlattenTo(s, n - 1) \o s[n]
  <2> TAKE n \in 1..Len(s)
  <2>1. n - 1 \in 0..Len(s) - 1 /\ n - 1 \in 0..Len(s) /\ (n - 1) + 1 = n
    OBVIOUS
  <2>2. QED
    BY <2>1, FlattenStep
<1>2. Has(p)
  <2> DEFINE a == FlattenTo(s, p - 1)
             b == s[p]
  <2>1. a \in Seq(S) /\ b \in Seq(S) /\ FlattenTo(s, p) = a \o b /\ k \in DOMAIN b
    BY <1>1, Zenon
  <2> HIDE DEF a, b
  <2>2. Len(a) + k \in DOMAIN (a \o b) /\ (a \o b)[Len(a) + k] = b[k]
    BY <2>1
  <2>3. QED
    BY <2>1, <2>2, Zenon DEF b
<1>3. \A n \in 1..Len(s) : Has(n - 1) => Has(n)
  <2> TAKE n \in 1..Len(s)
  <2> DEFINE a == FlattenTo(s, n - 1)
             b == s[n]
  <2>1. a \in Seq(S) /\ b \in Seq(S) /\ FlattenTo(s, n) = a \o b
    BY <1>1, Zenon
  <2> HIDE DEF a, b
  <2>2. \A l \in DOMAIN a : l \in DOMAIN (a \o b) /\ (a \o b)[l] = a[l]
    BY <2>1
  <2>3. QED
    BY <2>1, <2>2, Zenon DEF a
<1>4. Has(Len(s)) => \E l \in DOMAIN FlattenSeq(s) : FlattenSeq(s)[l] = s[p][k]
  BY FlattenStep
<1> HIDE DEF Has
<1>5. CASE T = {}
  <2>1. Len(s) \in p..Len(s)
    OBVIOUS
  <2>2. QED
    BY <1>4, <1>5, <2>1
<1>6. CASE T # {}
  <2>1. T \in SUBSET Nat
    OBVIOUS
  <2>2. PICK n \in T : \A m \in T : n <= m
    <3> HIDE DEF T
    <3>1. QED
      BY <1>6, <2>1, LeastNatural
  <2>3. n \in p..Len(s) /\ ~Has(n)
    OBVIOUS
  <2>4. n \in 1..Len(s) /\ ~(n <= n - 1) /\ n # p
    BY <1>2, <2>3
  <2>5. n - 1 \in p..Len(s) /\ n - 1 \notin T
    BY <2>2, <2>3, <2>4
  <2>6. QED
    BY <1>3, <2>3, <2>4, <2>5
<1>7. QED
  BY <1>5, <1>6

(***************************************************************************)
(* Types.                                                                  *)
(***************************************************************************)
Listing == {"list", "initialize", "notify"}
Busy == Listing \union {"connect", "backoff", "add"}

Clients == [legacy : BOOLEAN, cursor : Nat, seen : SUBSET Nat, pages : Nat, tools : Seq(STRING)]
Sides == {"stateless", "greeted", "ready"}
Names == {Qualified(p[1], p[2]) : p \in STRING \X STRING}
Registrations == [server : Nat, name : Names, tool : STRING]

TypeOK ==
  /\ configs \in Forwarded
  /\ at \in 0..Len(configs)
  /\ pc \in {"normalize", "next", "done"} \union Busy
  /\ attempt \in Nat
  /\ client \in Clients
  /\ session \in Sides
  /\ servers \in Seq([config : Nat, legacy : BOOLEAN, session : Sides])
  /\ tools \in Seq(Registrations)
  /\ failed \subseteq Nat
  /\ outcome \in {"pending", "fallback", "rejected", "all_failed", "bound"}
  /\ tries \in [DOMAIN configs -> 0..Attempts]
  /\ astray \subseteq Nat

(* Where the server at hand is in its attempts, and that the others have   *)
(* used theirs up or not begun.                                            *)
AttemptsKept ==
  /\ pc = "normalize" => at = 0 /\ servers = <<>> /\ failed = {}
  /\ pc \in Busy =>
       /\ at # 0 /\ at \notin failed /\ attempt \in 1..Attempts
       /\ tries[at] = IF pc = "backoff" THEN attempt ELSE attempt - 1
       /\ pc = "backoff" => attempt < Attempts
  /\ \A i \in DOMAIN configs : i > at => tries[i] = 0
  /\ \A i \in failed : i \in 1..at /\ tries[i] = Attempts

(* Every server behind the position is kept or left out.                   *)
PositionsKept ==
  /\ Kept \subseteq 1..at
  /\ pc \in {"normalize", "next"} => Kept \union failed = 1..at
  /\ pc \in Busy => Kept \union failed = 1..at - 1

(* Client and server agree on the dialect.                                 *)
DialectKept ==
  /\ pc \in {"list", "add"} => (client.legacy <=> session = "ready")
  /\ pc \in {"initialize", "notify"} => ~client.legacy
  /\ \A k \in DOMAIN servers : servers[k].legacy <=> servers[k].session = "ready"

(* The listing holds tools the server has; while the cursors are those the *)
(* server meant, all of them up to the cursor.                             *)
Tools(list, i) == FlattenSeq(list[i].pages)
Offers(list, i, tool) == \E l \in DOMAIN Tools(list, i) : Tools(list, i)[l] = tool

ListingKept ==
  /\ pc \in Listing \union {"add"} => \A k \in DOMAIN client.tools : Offers(configs, at, client.tools[k])
  /\ pc \in Listing =>
       /\ client.cursor = 0 \/ client.cursor < Len(Config.pages)
       /\ at \notin astray => client.tools = FlattenTo(Config.pages, client.cursor)
  /\ pc = "add" /\ at \notin astray => client.tools = Tools(configs, at)

(* The catalogue: each entry is a tool of the server it points to, names   *)
(* are distinct, and a server that was listed properly has all its tools.  *)
EntryKept(list, kept, r) ==
  /\ r.server \in DOMAIN kept
  /\ r.name = Qualified(list[kept[r.server].config].name, r.tool)
  /\ Offers(list, kept[r.server].config, r.tool)

Entry(list, kept, n, tool) ==
  [server |-> n, name |-> Qualified(list[kept[n].config].name, tool), tool |-> tool]

CatalogueKept ==
  /\ \A j \in DOMAIN tools : EntryKept(configs, servers, tools[j])
  /\ Distinct(tools)
  /\ \A n \in DOMAIN servers : servers[n].config \notin astray =>
       LET offered == Tools(configs, servers[n].config) IN
       \A k \in DOMAIN offered : \E j \in DOMAIN tools :
         tools[j] = Entry(configs, servers, n, offered[k])

(* What the task returned.                                                 *)
OutcomeKept ==
  /\ pc = "done" <=> outcome # "pending"
  /\ outcome = "bound" => /\ Kept \union failed = DOMAIN configs
                          /\ \A j \in DOMAIN tools : tools[j].name \notin Builtins
  /\ outcome = "all_failed" => failed = DOMAIN configs
  /\ outcome = "rejected" => Defective

DiscoveryInv ==
  /\ TypeOK /\ AttemptsKept /\ PositionsKept /\ DialectKept
  /\ ListingKept /\ CatalogueKept /\ OutcomeKept
-----------------------------------------------------------------------------
(* Lists, pages and the two steps with many outcomes.                      *)

LEMMA ConfigTypes ==
  ASSUME TypeOK
  PROVE  /\ Attempts \in Nat \ {0}
         /\ configs \in Seq(ServerConfigs) /\ Len(configs) \in Nat
         /\ DOMAIN configs = 1..Len(configs)
         /\ \A i \in DOMAIN configs : configs[i].pages \in Seq(Seq(STRING))
<1>1. configs \in Seq(ServerConfigs)
  BY DiscoveryAssumption DEF TypeOK
<1>2. \A i \in DOMAIN configs : configs[i] \in ServerConfigs
  BY <1>1
<1>3. QED
  BY <1>1, <1>2, DiscoveryAssumption DEF ServerConfigs

LEMMA ListedTypes ==
  ASSUME TypeOK, NEW i \in DOMAIN configs
  PROVE  /\ Tools(configs, i) \in Seq(STRING)
         /\ DOMAIN Tools(configs, i) = 1..Len(Tools(configs, i))
         /\ Listed(i) = Tools(configs, i)
         /\ \A p \in 1..Len(configs[i].pages) : \A k \in DOMAIN configs[i].pages[p] :
              Offers(configs, i, configs[i].pages[p][k])
<1> DEFINE pages == configs[i].pages
<1>1. pages \in Seq(Seq(STRING))
  BY ConfigTypes
<1> HIDE DEF pages
<1>2. Len(pages) \in 0..Len(pages)
  BY <1>1
<1>3. FlattenSeq(pages) \in Seq(STRING)
  BY <1>1, <1>2, FlattenStep
<1>4. \A p \in 1..Len(pages) : \A k \in DOMAIN pages[p] :
        \E l \in DOMAIN FlattenSeq(pages) : FlattenSeq(pages)[l] = pages[p][k]
  BY <1>1, FlattenKeeps
<1>5. Tools(configs, i) = FlattenSeq(pages) /\ Listed(i) = Tools(configs, i)
  BY Zenon DEF Listed, Tools, pages
<1>6. Tools(configs, i) \in Seq(STRING)
  BY <1>3, <1>5
<1>7. QED
  BY <1>4, <1>5, <1>6 DEF Offers, pages

LEMMA FailEffect ==
  ASSUME TypeOK, at \in DOMAIN configs, AttemptFails
  PROVE  /\ UNCHANGED <<client, session, attempt>>
         /\ tries' \in [DOMAIN configs -> 0..Attempts]
         /\ tries'[at] = IF tries[at] < Attempts THEN tries[at] + 1 ELSE tries[at]
         /\ \A i \in DOMAIN configs : i # at => tries'[i] = tries[i]
         /\ \/ attempt < Attempts /\ pc' = "backoff" /\ failed' = failed
            \/ ~(attempt < Attempts) /\ pc' = "next" /\ failed' = failed \union {at}
<1>1. tries' = [tries EXCEPT ![at] = IF tries[at] < Attempts THEN tries[at] + 1 ELSE tries[at]]
  BY DEF AttemptFails
<1>2. tries \in [DOMAIN configs -> 0..Attempts] /\ Attempts \in Nat
  BY ConfigTypes DEF TypeOK
<1>3. tries[at] \in 0..Attempts
  BY <1>2
<1>4. (IF tries[at] < Attempts THEN tries[at] + 1 ELSE tries[at]) \in 0..Attempts
  BY <1>2, <1>3
<1>5. /\ tries' \in [DOMAIN configs -> 0..Attempts]
      /\ tries'[at] = IF tries[at] < Attempts THEN tries[at] + 1 ELSE tries[at]
      /\ \A i \in DOMAIN configs : i # at => tries'[i] = tries[i]
  BY <1>1, <1>2, <1>4
<1>6. QED
  BY <1>5 DEF AttemptFails, Goto

(* A page was taken, the listing goes back to the handshake, or it failed. *)
Taken(next) ==
  /\ UNCHANGED <<attempt, failed, tries, session>>
  /\ astray' = IF next = NextCursor THEN astray ELSE astray \union {at}
  /\ client' \in Clients /\ client'.legacy = client.legacy
  /\ client'.tools = client.tools \o Config.pages[client.cursor + 1]
  /\ \/ next = NoCursor /\ pc' = "add"
     \/ next # NoCursor /\ pc' = "list" /\ client'.cursor = next

LEMMA ListEffect ==
  ASSUME TypeOK, at \in DOMAIN configs, ListTools,
         client.cursor = 0 \/ client.cursor < Len(Config.pages)
  PROVE  /\ pc = "list" /\ UNCHANGED <<configs, at, servers, tools, outcome>>
         /\ \/ AttemptFails /\ astray' \in {astray, astray \union {at}}
            \/ /\ pc' = "initialize" /\ ~client.legacy
               /\ UNCHANGED <<client, session, attempt, failed, tries, astray>>
            \/ \E next \in 0..Len(Config.pages) - 1 :
                 client.cursor + 1 \in 1..Len(Config.pages) /\ Taken(next)
<1>1. ASSUME NEW next \in 0..Len(Config.pages) - 1, TakePage(next), pc = "list"
      PROVE  \/ AttemptFails /\ astray' \in {astray, astray \union {at}}
             \/ client.cursor + 1 \in 1..Len(Config.pages) /\ Taken(next)
  <2> DEFINE page == Config.pages[client.cursor + 1]
             listed == client.tools \o page
  <2>1. /\ Config.pages \in Seq(Seq(STRING)) /\ client \in Clients
        /\ client.cursor \in Nat /\ client.tools \in Seq(STRING)
    BY ConfigTypes DEF TypeOK, Clients, Config
  <2>2. client.cursor + 1 \in 1..Len(Config.pages) /\ next \in Nat
    BY <2>1
  <2>3. page \in Seq(STRING)
    BY <2>1, <2>2
  <2>4. listed \in Seq(STRING)
    BY <2>1, <2>3
  <2>5. /\ astray' = IF next = NextCursor THEN astray ELSE astray \union {at}
        /\ \/ AttemptFails
           \/ /\ next = NoCursor /\ pc' = "add"
              /\ client' = [client EXCEPT !.tools = listed]
              /\ UNCHANGED <<attempt, failed, tries, session>>
           \/ /\ next # NoCursor /\ pc' = pc
              /\ client' = [client EXCEPT !.tools = listed, !.cursor = next,
                                          !.seen = client.seen \union {next},
                                          !.pages = client.pages + 1]
              /\ UNCHANGED <<attempt, failed, tries, session>>
    BY <1>1 DEF TakePage, Goto
  <2> HIDE DEF listed, page
  <2>6. /\ [client EXCEPT !.tools = listed] \in Clients
        /\ [client EXCEPT !.tools = listed].legacy = client.legacy
        /\ [client EXCEPT !.tools = listed].tools = listed
    BY <2>1, <2>4 DEF Clients
  <2> DEFINE more == [client EXCEPT !.tools = listed, !.cursor = next,
                                    !.seen = client.seen \union {next},
                                    !.pages = client.pages + 1]
  <2>7. client.seen \union {next} \in SUBSET Nat /\ client.pages + 1 \in Nat
    BY <2>1, <2>2 DEF Clients
  <2>8. more \in Clients /\ more.legacy = client.legacy /\ more.tools = listed /\ more.cursor = next
    BY <2>1, <2>2, <2>4, <2>7 DEF Clients
  <2> HIDE DEF more
  <2>9. CASE AttemptFails
    BY <2>5, <2>9
  <2>10. CASE ~AttemptFails
    <3>1. Taken(next)
      BY <1>1, <2>5, <2>6, <2>8, <2>10 DEF Taken, more, listed, page
    <3>2. QED
      BY <2>2, <3>1
  <2>11. QED
    BY <2>9, <2>10
<1>2. pc = "list" /\ UNCHANGED <<configs, at, servers, tools, outcome>>
  BY DEF ListTools
<1>3. \/ AttemptFails /\ UNCHANGED astray
      \/ \E next \in 0..Len(Config.pages) - 1 : TakePage(next)
      \/ /\ pc' = "initialize" /\ ~client.legacy
         /\ UNCHANGED <<client, session, attempt, failed, tries, astray>>
  BY DEF ListTools, ShouldFallBack, Goto
<1>4. QED
  BY <1>1, <1>2, <1>3

LEMMA RegisteredTypes ==
  ASSUME TypeOK, at \in DOMAIN configs
  PROVE  /\ Registered(at) \in Seq(Registrations)
         /\ DOMAIN Registered(at) = DOMAIN client.tools
         /\ \A k \in DOMAIN client.tools :
              Registered(at)[k] = [server |-> Len(servers) + 1,
                                   name |-> Qualified(configs[at].name, client.tools[k]),
                                   tool |-> client.tools[k]]
<1>1. /\ client.tools \in Seq(STRING) /\ Len(servers) + 1 \in Nat
      /\ \A k \in DOMAIN client.tools : client.tools[k] \in STRING
  BY DEF TypeOK, Clients
<1>2. configs[at].name \in STRING
  <2>1. configs[at] \in ServerConfigs
    BY ConfigTypes
  <2>2. QED
    BY <2>1 DEF ServerConfigs
<1> DEFINE name(k) == Qualified(configs[at].name, client.tools[k])
           entry(k) == [server |-> Len(servers) + 1, name |-> name(k), tool |-> client.tools[k]]
<1>3. \A k \in DOMAIN client.tools : name(k) \in Names
  <2> TAKE k \in DOMAIN client.tools
  <2> DEFINE p == <<configs[at].name, client.tools[k]>>
  <2>1. p \in STRING \X STRING /\ p[1] = configs[at].name /\ p[2] = client.tools[k]
    BY <1>1, <1>2
  <2> HIDE DEF p
  <2>2. Qualified(p[1], p[2]) \in Names
    BY <2>1, Zenon DEF Names
  <2>3. QED
    BY <2>1, <2>2, Zenon
<1> HIDE DEF name
<1>4. /\ \A k \in DOMAIN client.tools : entry(k) \in [server : Nat, name : Names, tool : STRING]
      /\ DOMAIN client.tools = 1..Len(client.tools) /\ Len(client.tools) \in Nat
  BY <1>1, <1>3
<1>5. Registrations = [server : Nat, name : Names, tool : STRING]
  BY Zenon DEF Registrations
<1>6. /\ Registered(at) = [k \in DOMAIN client.tools |-> entry(k)]
      /\ \A k \in DOMAIN client.tools :
           entry(k) = [server |-> Len(servers) + 1,
                       name |-> Qualified(configs[at].name, client.tools[k]),
                       tool |-> client.tools[k]]
  BY Zenon DEF Registered, name
<1> HIDE DEF entry
<1>7. Registered(at) \in Seq(Registrations)
  <2>1. Registered(at) \in [1..Len(client.tools) -> Registrations]
    BY <1>4, <1>5, <1>6
  <2>2. QED
    BY <1>4, <2>1
<1>8. /\ DOMAIN Registered(at) = DOMAIN client.tools
      /\ \A k \in DOMAIN client.tools : Registered(at)[k] = entry(k)
  BY <1>6
<1>9. QED
  BY <1>6, <1>7, <1>8

-----------------------------------------------------------------------------
(* Each part of the invariant is kept.                                     *)

LEMMA FailsKeepTypes ==
  ASSUME TypeOK, at \in DOMAIN configs, AttemptFails,
         UNCHANGED <<configs, at, servers, tools, outcome>>, astray' \subseteq Nat
  PROVE  TypeOK'
<1>1. failed \union {at} \subseteq Nat
  <2>1. at \in 1..Len(configs) /\ Len(configs) \in Nat /\ failed \subseteq Nat
    BY ConfigTypes DEF TypeOK
  <2>2. at \in Nat
    BY <2>1
  <2>3. QED
    BY <2>1, <2>2, Zenon
<1>2. /\ UNCHANGED <<client, session, attempt>> /\ failed' \subseteq Nat
      /\ tries' \in [DOMAIN configs -> 0..Attempts] /\ pc' \in {"backoff", "next"}
  BY <1>1, FailEffect DEF TypeOK
<1>3. QED
  BY <1>2 DEF TypeOK, Busy, Listing

LEMMA TypeInductive ==
  /\ Init => TypeOK
  /\ TypeOK /\ AttemptsKept /\ ListingKept /\ [Next]_vars => TypeOK'
<1>1. Init => TypeOK
  <2>1. SUFFICES ASSUME Init
                 PROVE  TypeOK
    OBVIOUS
  <2>2. configs \in Seq(ServerConfigs) /\ Attempts \in Nat
    BY <2>1, DiscoveryAssumption DEF Init
  <2>3. NewClient \in Clients
    BY DEF NewClient, Clients, NoCursor
  <2>4. <<>> \in Seq([config : Nat, legacy : BOOLEAN, session : Sides]) /\ <<>> \in Seq(Registrations)
    OBVIOUS
  <2>5. [i \in DOMAIN configs |-> 0] \in [DOMAIN configs -> 0..Attempts]
    BY <2>2
  <2>6. QED
    BY <2>1, <2>2, <2>3, <2>4, <2>5 DEF Init, TypeOK, Sides
<1>2. ASSUME TypeOK, AttemptsKept, ListingKept, [Next]_vars
      PROVE  TypeOK'
  <2>1. CASE Normalize
    BY <1>2, <2>1 DEF Normalize, Return, Goto, TypeOK
  <2>2. CASE TakeConfig
    <3>1. at + 1 \in 0..Len(configs) /\ 1 \in Nat
      BY <1>2, <2>2, ConfigTypes DEF TypeOK, TakeConfig
    <3>2. QED
      BY <1>2, <2>2, <3>1 DEF TakeConfig, Return, Goto, TypeOK, Busy, Listing
  <2>3. CASE Connect
    <3>1. at \in DOMAIN configs
      BY <1>2, <2>3, ConfigTypes DEF TypeOK, AttemptsKept, Busy, Listing, Connect
    <3>2. NewClient \in Clients
      BY DEF NewClient, Clients, NoCursor
    <3>3. CASE AttemptFails
      BY <1>2, <2>3, <3>1, <3>3, FailsKeepTypes DEF Connect, TypeOK
    <3>4. CASE ~AttemptFails
      BY <1>2, <2>3, <3>2, <3>4 DEF Connect, Goto, TypeOK, Busy, Listing, Sides
    <3>5. QED
      BY <3>3, <3>4
  <2>4. CASE ListTools
    <3>1. at \in DOMAIN configs /\ (client.cursor = 0 \/ client.cursor < Len(Config.pages))
      BY <1>2, <2>4, ConfigTypes DEF TypeOK, AttemptsKept, ListingKept, Busy, Listing, ListTools
    <3>2. /\ UNCHANGED <<configs, at, servers, tools, outcome>>
          /\ astray' \in {astray, astray \union {at}}
          /\ \/ AttemptFails
             \/ /\ client' \in Clients /\ UNCHANGED <<session, attempt, failed, tries>>
                /\ pc' \in Busy
      BY <1>2, <2>4, <3>1, ListEffect DEF Taken, Busy, Listing, TypeOK
    <3>3. at \in Nat
      BY <1>2, <2>4 DEF TypeOK
    <3>4. CASE AttemptFails
      BY <1>2, <2>4, <3>1, <3>2, <3>3, <3>4, FailsKeepTypes DEF TypeOK
    <3>5. CASE ~AttemptFails
      BY <1>2, <2>4, <3>2, <3>3, <3>5 DEF TypeOK
    <3>6. QED
      BY <3>4, <3>5
  <2>5. CASE Initialize
    <3>1. at \in DOMAIN configs
      BY <1>2, <2>5, ConfigTypes DEF TypeOK, AttemptsKept, Busy, Listing, Initialize
    <3>2. CASE AttemptFails
      BY <1>2, <2>5, <3>1, <3>2, FailsKeepTypes DEF Initialize, TypeOK
    <3>3. CASE ~AttemptFails
      BY <1>2, <2>5, <3>3 DEF Initialize, Goto, TypeOK, Busy, Listing, Sides
    <3>4. QED
      BY <3>2, <3>3
  <2>6. CASE Notify
    <3>1. at \in DOMAIN configs
      BY <1>2, <2>6, ConfigTypes DEF TypeOK, AttemptsKept, Busy, Listing, Notify
    <3>2. [client EXCEPT !.legacy = TRUE] \in Clients
      BY <1>2, <2>6 DEF TypeOK, Clients
    <3>3. CASE AttemptFails
      BY <1>2, <2>6, <3>1, <3>3, FailsKeepTypes DEF Notify, TypeOK
    <3>4. CASE ~AttemptFails
      BY <1>2, <2>6, <3>2, <3>4 DEF Notify, Goto, TypeOK, Busy, Listing, Sides
    <3>5. QED
      BY <3>3, <3>4
  <2>7. CASE Backoff
    BY <1>2, <2>7 DEF Backoff, Goto, TypeOK, Busy, Listing
  <2>8. CASE AddServer
    <3>1. at \in DOMAIN configs
      BY <1>2, <2>8, ConfigTypes DEF TypeOK, AttemptsKept, Busy, Listing, AddServer
    <3>2. /\ Registered(at) \in Seq(Registrations) /\ tools \in Seq(Registrations)
          /\ client.legacy \in BOOLEAN /\ at \in Nat
      BY <1>2, <2>8, <3>1, RegisteredTypes DEF TypeOK, Clients
    <3>3. tools \o Registered(at) \in Seq(Registrations)
      BY <3>2
    <3>4. [config |-> at, legacy |-> client.legacy, session |-> session]
            \in [config : Nat, legacy : BOOLEAN, session : Sides]
      BY <1>2, <2>8, <3>2 DEF TypeOK
    <3>5. Append(servers, [config |-> at, legacy |-> client.legacy, session |-> session])
            \in Seq([config : Nat, legacy : BOOLEAN, session : Sides])
      BY <1>2, <2>8, <3>4 DEF TypeOK
    <3>6. QED
      BY <1>2, <2>8, <3>3, <3>5 DEF AddServer, Return, Goto, TypeOK
  <2>9. CASE Finish
    BY <1>2, <2>9 DEF Finish, Return, Goto, Registration, TypeOK
  <2>10. CASE UNCHANGED vars
    BY <1>2, <2>10 DEF vars, TypeOK
  <2>11. QED
    BY <1>2, <2>1, <2>2, <2>3, <2>4, <2>5, <2>6, <2>7, <2>8, <2>9, <2>10 DEF Next
<1>3. QED
  BY <1>1, <1>2

LEMMA FailsKeepAttempts ==
  ASSUME TypeOK, AttemptsKept, at \in DOMAIN configs, AttemptFails,
         UNCHANGED <<configs, at, servers>>, pc \in Busy, pc # "backoff"
  PROVE  AttemptsKept'
<1>1. /\ attempt \in 1..Attempts /\ attempt' = attempt /\ at # 0 /\ at \notin failed
      /\ tries[at] = attempt - 1 /\ Attempts \in Nat /\ at \in Nat
  BY FailEffect, ConfigTypes DEF AttemptsKept, TypeOK
<1>2. tries'[at] = attempt
  BY <1>1, FailEffect
<1>3. \A i \in DOMAIN configs : i > at => tries'[i] = 0
  <2> TAKE i \in DOMAIN configs
  <2>1. i > at => i # at /\ tries[i] = 0
    BY <1>1 DEF AttemptsKept
  <2>2. QED
    BY <2>1, FailEffect
<1>4. \A i \in failed : i \in 1..at /\ i # at /\ tries'[i] = Attempts
  BY <1>1, FailEffect, ConfigTypes DEF AttemptsKept, TypeOK
<1>5. CASE attempt < Attempts
  BY <1>1, <1>2, <1>3, <1>4, <1>5, FailEffect DEF AttemptsKept, Busy, Listing
<1>6. CASE ~(attempt < Attempts)
  <2>1. attempt = Attempts /\ pc' = "next" /\ failed' = failed \union {at}
    BY <1>1, <1>6, FailEffect
  <2>2. QED
    BY <1>1, <1>2, <1>3, <1>4, <2>1 DEF AttemptsKept, Busy, Listing
<1>7. QED
  BY <1>5, <1>6

LEMMA AttemptsInductive ==
  /\ Init => AttemptsKept
  /\ TypeOK /\ AttemptsKept /\ ListingKept /\ [Next]_vars => AttemptsKept'
<1>1. Init => AttemptsKept
  BY DiscoveryAssumption DEF Init, AttemptsKept, Busy, Listing
<1>2. ASSUME TypeOK, AttemptsKept, ListingKept, [Next]_vars
      PROVE  AttemptsKept'
  <2>1. CASE Normalize
    BY <1>2, <2>1 DEF Normalize, Return, Goto, AttemptsKept, Busy, Listing
  <2>2. CASE TakeConfig
    <3>1. /\ at \in Nat /\ at + 1 \in DOMAIN configs /\ Attempts \in Nat \ {0}
          /\ \A i \in failed : i \in 1..at
      BY <1>2, <2>2, ConfigTypes DEF TakeConfig, TypeOK, AttemptsKept
    <3>2. tries[at + 1] = 0
      BY <1>2, <2>2, <3>1 DEF AttemptsKept
    <3>3. QED
      BY <1>2, <2>2, <3>1, <3>2, ConfigTypes DEF TakeConfig, Return, Goto, AttemptsKept, Busy, Listing
  <2>3. CASE Connect
    <3>1. at \in DOMAIN configs
      BY <1>2, <2>3, ConfigTypes DEF TypeOK, AttemptsKept, Busy, Listing, Connect
    <3>2. /\ UNCHANGED <<configs, at, servers>> /\ pc \in Busy /\ pc # "backoff"
      BY <1>2, <2>3 DEF Connect, Busy, Listing
    <3>3. CASE AttemptFails
      BY <1>2, <2>3, <3>1, <3>2, <3>3, FailsKeepAttempts
    <3>4. CASE ~AttemptFails
      BY <1>2, <2>3, <3>2, <3>4 DEF Connect, Goto, AttemptsKept, Busy, Listing
    <3>5. QED
      BY <3>3, <3>4
  <2>4. CASE ListTools
    <3>1. at \in DOMAIN configs /\ (client.cursor = 0 \/ client.cursor < Len(Config.pages))
      BY <1>2, <2>4, ConfigTypes DEF TypeOK, AttemptsKept, ListingKept, Busy, Listing, ListTools
    <3>2. /\ UNCHANGED <<configs, at, servers>> /\ pc = "list"
          /\ \/ AttemptFails
             \/ UNCHANGED <<attempt, failed, tries>> /\ pc' \in {"list", "initialize", "add"}
      BY <1>2, <2>4, <3>1, ListEffect DEF Taken
    <3>3. CASE AttemptFails
      BY <1>2, <2>4, <3>1, <3>2, <3>3, FailsKeepAttempts DEF Busy, Listing
    <3>4. CASE ~AttemptFails
      BY <1>2, <2>4, <3>2, <3>4 DEF AttemptsKept, Busy, Listing
    <3>5. QED
      BY <3>3, <3>4
  <2>5. CASE Initialize
    <3>1. at \in DOMAIN configs
      BY <1>2, <2>5, ConfigTypes DEF TypeOK, AttemptsKept, Busy, Listing, Initialize
    <3>2. /\ UNCHANGED <<configs, at, servers>> /\ pc \in Busy /\ pc # "backoff"
      BY <1>2, <2>5 DEF Initialize, Busy, Listing
    <3>3. CASE AttemptFails
      BY <1>2, <2>5, <3>1, <3>2, <3>3, FailsKeepAttempts
    <3>4. CASE ~AttemptFails
      BY <1>2, <2>5, <3>2, <3>4 DEF Initialize, Goto, AttemptsKept, Busy, Listing
    <3>5. QED
      BY <3>3, <3>4
  <2>6. CASE Notify
    <3>1. at \in DOMAIN configs
      BY <1>2, <2>6, ConfigTypes DEF TypeOK, AttemptsKept, Busy, Listing, Notify
    <3>2. /\ UNCHANGED <<configs, at, servers>> /\ pc \in Busy /\ pc # "backoff"
      BY <1>2, <2>6 DEF Notify, Busy, Listing
    <3>3. CASE AttemptFails
      BY <1>2, <2>6, <3>1, <3>2, <3>3, FailsKeepAttempts
    <3>4. CASE ~AttemptFails
      BY <1>2, <2>6, <3>2, <3>4 DEF Notify, Goto, AttemptsKept, Busy, Listing
    <3>5. QED
      BY <3>3, <3>4
  <2>7. CASE Backoff
    <3>1. Attempts \in Nat
      BY <1>2, <2>7, ConfigTypes
    <3>2. attempt \in 1..Attempts /\ attempt < Attempts /\ tries[at] = attempt
      BY <1>2, <2>7 DEF Backoff, AttemptsKept, Busy
    <3>3. attempt + 1 \in 1..Attempts /\ tries[at] = (attempt + 1) - 1
      BY <3>1, <3>2
    <3>4. QED
      BY <1>2, <2>7, <3>3 DEF Backoff, Goto, AttemptsKept, Busy, Listing
  <2>8. CASE AddServer
    BY <1>2, <2>8 DEF AddServer, Return, Goto, AttemptsKept, Busy, Listing
  <2>9. CASE Finish
    BY <1>2, <2>9 DEF Finish, Return, Goto, AttemptsKept, Busy, Listing
  <2>10. CASE UNCHANGED vars
    BY <1>2, <2>10 DEF vars, AttemptsKept
  <2>11. QED
    BY <1>2, <2>1, <2>2, <2>3, <2>4, <2>5, <2>6, <2>7, <2>8, <2>9, <2>10 DEF Next
<1>3. QED
  BY <1>1, <1>2

LEMMA FailsKeepPositions ==
  ASSUME TypeOK, PositionsKept, at \in DOMAIN configs, AttemptFails,
         UNCHANGED <<configs, at, servers>>, pc \in Busy, Kept' = Kept
  PROVE  PositionsKept'
<1>1. /\ at \in Nat /\ at # 0 /\ Kept \subseteq 1..at /\ Kept \union failed = 1..at - 1
  BY ConfigTypes DEF PositionsKept, TypeOK
<1>2. CASE attempt < Attempts
  BY <1>1, <1>2, FailEffect DEF PositionsKept, Busy, Listing
<1>3. CASE ~(attempt < Attempts)
  <2>1. pc' = "next" /\ failed' = failed \union {at}
    BY <1>3, FailEffect
  <2>2. (1..at - 1) \union {at} = 1..at
    BY <1>1
  <2>3. Kept' \union failed' = 1..at
    BY <1>1, <2>1, <2>2
  <2>4. QED
    BY <1>1, <2>1, <2>3 DEF PositionsKept, Busy, Listing
<1>4. QED
  BY <1>2, <1>3

LEMMA PositionsInductive ==
  /\ Init => PositionsKept
  /\ TypeOK /\ AttemptsKept /\ ListingKept /\ PositionsKept /\ [Next]_vars => PositionsKept'
<1>1. Init => PositionsKept
  BY DEF Init, PositionsKept, Busy, Listing, Kept
<1>2. ASSUME TypeOK, AttemptsKept, ListingKept, PositionsKept, [Next]_vars
      PROVE  PositionsKept'
  <2>1. CASE Normalize
    BY <1>2, <2>1 DEF Normalize, Return, Goto, PositionsKept, Busy, Listing, Kept
  <2>2. CASE TakeConfig
    <3>1. at \in Nat /\ Kept' = Kept /\ 1..at \subseteq 1..at + 1 /\ (at + 1) - 1 = at
      BY <1>2, <2>2 DEF TakeConfig, TypeOK, Kept
    <3>2. QED
      BY <1>2, <2>2, <3>1 DEF TakeConfig, Return, Goto, PositionsKept, Busy, Listing
  <2>3. CASE Connect
    <3>1. at \in DOMAIN configs
      BY <1>2, <2>3, ConfigTypes DEF TypeOK, AttemptsKept, Busy, Listing, Connect
    <3>2. UNCHANGED <<configs, at, servers>> /\ pc \in Busy /\ Kept' = Kept
      BY <1>2, <2>3 DEF Connect, Busy, Listing, Kept
    <3>3. CASE AttemptFails
      BY <1>2, <2>3, <3>1, <3>2, <3>3, FailsKeepPositions
    <3>4. CASE ~AttemptFails
      BY <1>2, <2>3, <3>2, <3>4 DEF Connect, Goto, PositionsKept, Busy, Listing
    <3>5. QED
      BY <3>3, <3>4
  <2>4. CASE ListTools
    <3>1. at \in DOMAIN configs /\ (client.cursor = 0 \/ client.cursor < Len(Config.pages))
      BY <1>2, <2>4, ConfigTypes DEF TypeOK, AttemptsKept, ListingKept, Busy, Listing, ListTools
    <3>2. /\ UNCHANGED <<configs, at, servers>> /\ pc = "list" /\ Kept' = Kept
          /\ \/ AttemptFails
             \/ UNCHANGED <<attempt, failed, tries>> /\ pc' \in {"list", "initialize", "add"}
      BY <1>2, <2>4, <3>1, ListEffect DEF Taken, Kept
    <3>3. CASE AttemptFails
      BY <1>2, <2>4, <3>1, <3>2, <3>3, FailsKeepPositions DEF Busy, Listing
    <3>4. CASE ~AttemptFails
      BY <1>2, <2>4, <3>2, <3>4 DEF PositionsKept, Busy, Listing
    <3>5. QED
      BY <3>3, <3>4
  <2>5. CASE Initialize
    <3>1. at \in DOMAIN configs
      BY <1>2, <2>5, ConfigTypes DEF TypeOK, AttemptsKept, Busy, Listing, Initialize
    <3>2. UNCHANGED <<configs, at, servers>> /\ pc \in Busy /\ Kept' = Kept
      BY <1>2, <2>5 DEF Initialize, Busy, Listing, Kept
    <3>3. CASE AttemptFails
      BY <1>2, <2>5, <3>1, <3>2, <3>3, FailsKeepPositions
    <3>4. CASE ~AttemptFails
      BY <1>2, <2>5, <3>2, <3>4 DEF Initialize, Goto, PositionsKept, Busy, Listing
    <3>5. QED
      BY <3>3, <3>4
  <2>6. CASE Notify
    <3>1. at \in DOMAIN configs
      BY <1>2, <2>6, ConfigTypes DEF TypeOK, AttemptsKept, Busy, Listing, Notify
    <3>2. UNCHANGED <<configs, at, servers>> /\ pc \in Busy /\ Kept' = Kept
      BY <1>2, <2>6 DEF Notify, Busy, Listing, Kept
    <3>3. CASE AttemptFails
      BY <1>2, <2>6, <3>1, <3>2, <3>3, FailsKeepPositions
    <3>4. CASE ~AttemptFails
      BY <1>2, <2>6, <3>2, <3>4 DEF Notify, Goto, PositionsKept, Busy, Listing
    <3>5. QED
      BY <3>3, <3>4
  <2>7. CASE Backoff
    BY <1>2, <2>7 DEF Backoff, Goto, PositionsKept, Busy, Listing, Kept
  <2>8. CASE AddServer
    <3>1. at \in Nat /\ at # 0 /\ Kept \union failed = 1..at - 1 /\ Kept \subseteq 1..at
      BY <1>2, <2>8 DEF AddServer, TypeOK, AttemptsKept, PositionsKept, Busy
    <3>2. CASE servers' = servers
      BY <1>2, <2>8, <3>1, <3>2 DEF AddServer, Return, Goto, PositionsKept, Busy, Listing, Kept
    <3>3. CASE servers' # servers
      <4> DEFINE new == [config |-> at, legacy |-> client.legacy, session |-> session]
      <4>1. /\ servers' = Append(servers, new) /\ pc' = "next" /\ UNCHANGED <<at, failed>>
        BY <1>2, <2>8, <3>3 DEF AddServer, Goto
      <4>2. servers \in Seq([config : Nat, legacy : BOOLEAN, session : Sides]) /\ new.config = at
        BY <1>2, <2>8 DEF TypeOK
      <4> HIDE DEF new
      <4>3. /\ DOMAIN servers' = DOMAIN servers \union {Len(servers) + 1}
            /\ servers'[Len(servers) + 1] = new
            /\ \A n \in DOMAIN servers : servers'[n] = servers[n]
        BY <4>1, <4>2
      <4>4. Kept' = Kept \union {at}
        BY <4>2, <4>3 DEF Kept
      <4>5. (1..at - 1) \union {at} = 1..at
        BY <3>1
      <4>6. Kept' \union failed' = 1..at
        BY <3>1, <4>1, <4>4, <4>5
      <4>7. QED
        BY <4>1, <4>6 DEF PositionsKept, Busy, Listing
    <3>4. QED
      BY <3>2, <3>3
  <2>9. CASE Finish
    BY <1>2, <2>9 DEF Finish, Return, Goto, PositionsKept, Busy, Listing, Kept
  <2>10. CASE UNCHANGED vars
    BY <1>2, <2>10 DEF vars, PositionsKept, Kept
  <2>11. QED
    BY <1>2, <2>1, <2>2, <2>3, <2>4, <2>5, <2>6, <2>7, <2>8, <2>9, <2>10 DEF Next
<1>3. QED
  BY <1>1, <1>2

LEMMA DialectInductive ==
  /\ Init => DialectKept
  /\ TypeOK /\ AttemptsKept /\ ListingKept /\ DialectKept /\ [Next]_vars => DialectKept'
<1>1. Init => DialectKept
  BY DEF Init, DialectKept
<1>2. ASSUME TypeOK, AttemptsKept, ListingKept, DialectKept, [Next]_vars
      PROVE  DialectKept'
  <2>1. CASE Normalize
    BY <1>2, <2>1 DEF Normalize, Return, Goto, DialectKept
  <2>2. CASE TakeConfig
    BY <1>2, <2>2 DEF TakeConfig, Return, Goto, DialectKept
  <2>3. CASE Connect
    <3>1. at \in DOMAIN configs
      BY <1>2, <2>3, ConfigTypes DEF TypeOK, AttemptsKept, Busy, Listing, Connect
    <3>2. CASE AttemptFails
      BY <1>2, <2>3, <3>1, <3>2, FailEffect DEF Connect, DialectKept
    <3>3. CASE ~AttemptFails
      BY <1>2, <2>3, <3>3 DEF Connect, Goto, DialectKept, NewClient
    <3>4. QED
      BY <3>2, <3>3
  <2>4. CASE ListTools
    <3>1. at \in DOMAIN configs /\ (client.cursor = 0 \/ client.cursor < Len(Config.pages))
      BY <1>2, <2>4, ConfigTypes DEF TypeOK, AttemptsKept, ListingKept, Busy, Listing, ListTools
    <3>2. /\ pc = "list" /\ UNCHANGED servers
          /\ \/ AttemptFails
             \/ /\ client'.legacy = client.legacy /\ UNCHANGED session
                /\ pc' = "initialize" => ~client.legacy
                /\ pc' # "notify"
      BY <1>2, <2>4, <3>1, ListEffect DEF Taken
    <3>3. CASE AttemptFails
      BY <1>2, <2>4, <3>1, <3>2, <3>3, FailEffect DEF DialectKept
    <3>4. CASE ~AttemptFails
      BY <1>2, <2>4, <3>2, <3>4 DEF DialectKept
    <3>5. QED
      BY <3>3, <3>4
  <2>5. CASE Initialize
    <3>1. at \in DOMAIN configs
      BY <1>2, <2>5, ConfigTypes DEF TypeOK, AttemptsKept, Busy, Listing, Initialize
    <3>2. CASE AttemptFails
      BY <1>2, <2>5, <3>1, <3>2, FailEffect DEF Initialize, DialectKept
    <3>3. CASE ~AttemptFails
      BY <1>2, <2>5, <3>3 DEF Initialize, Goto, DialectKept
    <3>4. QED
      BY <3>2, <3>3
  <2>6. CASE Notify
    <3>1. at \in DOMAIN configs
      BY <1>2, <2>6, ConfigTypes DEF TypeOK, AttemptsKept, Busy, Listing, Notify
    <3>2. CASE AttemptFails
      BY <1>2, <2>6, <3>1, <3>2, FailEffect DEF Notify, DialectKept
    <3>3. CASE ~AttemptFails
      <4>1. client \in Clients
        BY <1>2, <2>6 DEF TypeOK
      <4>2. [client EXCEPT !.legacy = TRUE].legacy = TRUE
        BY <4>1 DEF Clients
      <4>3. QED
        BY <1>2, <2>6, <3>3, <4>2 DEF Notify, Goto, DialectKept
    <3>4. QED
      BY <3>2, <3>3
  <2>7. CASE Backoff
    BY <1>2, <2>7 DEF Backoff, Goto, DialectKept
  <2>8. CASE AddServer
    <3>1. CASE servers' = servers
      BY <1>2, <2>8, <3>1 DEF AddServer, Return, Goto, DialectKept
    <3>2. CASE servers' # servers
      <4> DEFINE new == [config |-> at, legacy |-> client.legacy, session |-> session]
      <4>1. /\ servers' = Append(servers, new) /\ pc' = "next"
            /\ client.legacy <=> session = "ready"
        BY <1>2, <2>8, <3>2 DEF AddServer, Goto, DialectKept
      <4>2. /\ servers \in Seq([config : Nat, legacy : BOOLEAN, session : Sides])
            /\ new.legacy = client.legacy /\ new.session = session
        BY <1>2, <2>8 DEF TypeOK
      <4> HIDE DEF new
      <4>3. /\ DOMAIN servers' = DOMAIN servers \union {Len(servers) + 1}
            /\ servers'[Len(servers) + 1] = new
            /\ \A n \in DOMAIN servers : servers'[n] = servers[n]
        BY <4>1, <4>2
      <4>4. \A n \in DOMAIN servers' : servers'[n].legacy <=> servers'[n].session = "ready"
        BY <1>2, <2>8, <4>1, <4>2, <4>3 DEF DialectKept
      <4>5. QED
        BY <4>1, <4>4 DEF DialectKept
    <3>3. QED
      BY <3>1, <3>2
  <2>9. CASE Finish
    BY <1>2, <2>9 DEF Finish, Return, Goto, DialectKept
  <2>10. CASE UNCHANGED vars
    BY <1>2, <2>10 DEF vars, DialectKept
  <2>11. QED
    BY <1>2, <2>1, <2>2, <2>3, <2>4, <2>5, <2>6, <2>7, <2>8, <2>9, <2>10 DEF Next
<1>3. QED
  BY <1>1, <1>2

LEMMA TakenKeepsListing ==
  ASSUME TypeOK, ListingKept, pc = "list", at \in DOMAIN configs, UNCHANGED <<configs, at>>,
         NEW next \in 0..Len(Config.pages) - 1, Taken(next),
         client.cursor + 1 \in 1..Len(Config.pages)
  PROVE  ListingKept'
<1> DEFINE pages == Config.pages
           page == pages[client.cursor + 1]
           cursor == client.cursor
<1>1. /\ pages \in Seq(Seq(STRING)) /\ client.tools \in Seq(STRING) /\ cursor \in Nat
      /\ page \in Seq(STRING) /\ next \in Nat /\ Len(pages) \in Nat
  <2>1. client.tools \in Seq(STRING) /\ cursor \in Nat
    BY DEF TypeOK, Clients
  <2>2. pages \in Seq(Seq(STRING))
    BY ConfigTypes DEF Config
  <2> HIDE DEF pages
  <2>3. cursor + 1 \in 1..Len(pages) /\ next \in 0..Len(pages) - 1
    BY DEF pages
  <2>4. QED
    BY <2>1, <2>2, <2>3
<1>2. client'.tools = client.tools \o page /\ Config' = Config
  BY Zenon DEF Taken, Config
<1>3. \A k \in DOMAIN client.tools : Offers(configs, at, client.tools[k])
  BY DEF ListingKept, Listing
<1>4. \A k \in DOMAIN page : Offers(configs, at, page[k])
  BY ListedTypes DEF Config
<1>5. \A k \in DOMAIN client'.tools : Offers(configs, at, client'.tools[k])
  <2>1. \A t, q \in Seq(STRING) : \A k \in DOMAIN (t \o q) :
          \/ k \in DOMAIN t /\ (t \o q)[k] = t[k]
          \/ k - Len(t) \in DOMAIN q /\ (t \o q)[k] = q[k - Len(t)]
    OBVIOUS
  <2> HIDE DEF page
  <2>2. \A k \in DOMAIN (client.tools \o page) :
          \/ k \in DOMAIN client.tools /\ (client.tools \o page)[k] = client.tools[k]
          \/ /\ k - Len(client.tools) \in DOMAIN page
             /\ (client.tools \o page)[k] = page[k - Len(client.tools)]
    BY <1>1, <2>1, Zenon
  <2>3. QED
    BY <1>2, <1>3, <1>4, <2>2, Zenon
<1>6. ASSUME at \notin astray'
      PROVE  /\ next = NextCursor
             /\ client'.tools = FlattenTo(pages, cursor + 1)
  <2>1. next = NextCursor /\ at \notin astray
    BY <1>6 DEF Taken
  <2>2. client.tools = FlattenTo(pages, cursor)
    BY <2>1 DEF ListingKept, Listing
  <2> HIDE DEF pages
  <2>3. cursor \in 0..Len(pages) - 1
    BY <1>1 DEF pages
  <2>4. FlattenTo(pages, cursor + 1) = FlattenTo(pages, cursor) \o pages[cursor + 1]
    BY <1>1, <2>3, FlattenStep
  <2>5. QED
    BY <1>2, <2>1, <2>2, <2>4, Zenon
<1>7. CASE next # NoCursor
  <2>1. pc' = "list" /\ client'.cursor = next
    BY <1>7 DEF Taken
  <2>2. next < Len(Config'.pages)
    BY <1>1, <1>2
  <2>3. at' \notin astray' => client'.tools = FlattenTo(Config'.pages, client'.cursor)
    <3>1. at \notin astray' => next = cursor + 1
      BY <1>6, <1>7 DEF NextCursor
    <3>2. QED
      BY <1>2, <1>6, <2>1, <3>1
  <2>4. QED
    BY <1>5, <2>1, <2>2, <2>3 DEF ListingKept, Listing
<1>8. CASE next = NoCursor
  <2>1. pc' = "add"
    BY <1>8 DEF Taken
  <2>2. at \notin astray' => client'.tools = Tools(configs, at)
    <3>1. SUFFICES ASSUME at \notin astray'
                   PROVE  client'.tools = Tools(configs, at)
      OBVIOUS
    <3>2. cursor + 1 = Len(pages)
      BY <1>1, <1>6, <1>8, <3>1 DEF NextCursor, NoCursor
    <3> HIDE DEF pages
    <3>3. FlattenTo(pages, Len(pages)) = FlattenSeq(pages)
      BY <1>1, FlattenStep
    <3>4. QED
      BY <1>6, <3>1, <3>2, <3>3, Zenon DEF Tools, pages, Config
  <2>3. QED
    BY <1>5, <2>1, <2>2 DEF ListingKept, Listing
<1>9. QED
  BY <1>7, <1>8

LEMMA ListingInductive ==
  /\ Init => ListingKept
  /\ TypeOK /\ AttemptsKept /\ ListingKept /\ [Next]_vars => ListingKept'
<1>1. Init => ListingKept
  BY DEF Init, ListingKept, Listing
<1>2. ASSUME TypeOK, AttemptsKept, ListingKept, [Next]_vars
      PROVE  ListingKept'
  <2>1. CASE Normalize
    BY <1>2, <2>1 DEF Normalize, Return, Goto, ListingKept, Listing
  <2>2. CASE TakeConfig
    BY <1>2, <2>2 DEF TakeConfig, Return, Goto, ListingKept, Listing
  <2>3. CASE Connect
    <3>1. at \in DOMAIN configs
      BY <1>2, <2>3, ConfigTypes DEF TypeOK, AttemptsKept, Busy, Listing, Connect
    <3>2. CASE AttemptFails /\ UNCHANGED astray
      BY <1>2, <2>3, <3>1, <3>2, FailEffect DEF Connect, ListingKept, Listing
    <3>3. CASE ~(AttemptFails /\ UNCHANGED astray)
      <4>1. /\ pc' = "list" /\ client' = NewClient /\ UNCHANGED <<configs, at>>
        BY <1>2, <2>3, <3>3 DEF Connect, Goto
      <4>2. client'.tools = <<>> /\ client'.cursor = 0 /\ DOMAIN client'.tools = {}
        BY <4>1 DEF NewClient, NoCursor
      <4> DEFINE pages == configs[at].pages
      <4>3. pages \in Seq(Seq(STRING))
        BY <1>2, <2>3, <3>1, ConfigTypes
      <4> HIDE DEF pages
      <4>4. FlattenTo(pages, 0) = <<>>
        BY <4>3, FlattenStep
      <4>5. QED
        BY <4>1, <4>2, <4>4 DEF ListingKept, Listing, Config, pages
    <3>4. QED
      BY <3>2, <3>3
  <2>4. CASE ListTools
    <3>1. at \in DOMAIN configs /\ (client.cursor = 0 \/ client.cursor < Len(Config.pages))
      BY <1>2, <2>4, ConfigTypes DEF TypeOK, AttemptsKept, ListingKept, Busy, Listing, ListTools
    <3>2. /\ pc = "list" /\ UNCHANGED <<configs, at>>
          /\ \/ AttemptFails
             \/ pc' = "initialize" /\ UNCHANGED <<client, astray>>
             \/ \E next \in 0..Len(Config.pages) - 1 :
                  client.cursor + 1 \in 1..Len(Config.pages) /\ Taken(next)
      BY <1>2, <2>4, <3>1, ListEffect
    <3>3. CASE AttemptFails
      BY <1>2, <2>4, <3>1, <3>3, FailEffect DEF ListingKept, Listing
    <3>4. CASE pc' = "initialize" /\ UNCHANGED <<client, astray>>
      BY <1>2, <2>4, <3>2, <3>4 DEF ListingKept, Listing, Config
    <3>5. ASSUME NEW next \in 0..Len(Config.pages) - 1,
                 client.cursor + 1 \in 1..Len(Config.pages), Taken(next)
          PROVE  ListingKept'
      BY <1>2, <2>4, <3>1, <3>2, <3>5, TakenKeepsListing
    <3>6. QED
      BY <3>2, <3>3, <3>4, <3>5
  <2>5. CASE Initialize
    <3>1. at \in DOMAIN configs
      BY <1>2, <2>5, ConfigTypes DEF TypeOK, AttemptsKept, Busy, Listing, Initialize
    <3>2. CASE AttemptFails
      BY <1>2, <2>5, <3>1, <3>2, FailEffect DEF Initialize, ListingKept, Listing
    <3>3. CASE ~AttemptFails
      BY <1>2, <2>5, <3>3 DEF Initialize, Goto, ListingKept, Listing, Config
    <3>4. QED
      BY <3>2, <3>3
  <2>6. CASE Notify
    <3>1. at \in DOMAIN configs
      BY <1>2, <2>6, ConfigTypes DEF TypeOK, AttemptsKept, Busy, Listing, Notify
    <3>2. CASE AttemptFails
      BY <1>2, <2>6, <3>1, <3>2, FailEffect DEF Notify, ListingKept, Listing
    <3>3. CASE ~AttemptFails
      <4>1. client \in Clients
        BY <1>2, <2>6 DEF TypeOK
      <4>2. /\ [client EXCEPT !.legacy = TRUE].tools = client.tools
            /\ [client EXCEPT !.legacy = TRUE].cursor = client.cursor
        BY <4>1 DEF Clients
      <4>3. /\ pc = "notify" /\ pc' = "list" /\ UNCHANGED <<configs, at, astray>>
            /\ client'.tools = client.tools /\ client'.cursor = client.cursor
        BY <1>2, <2>6, <3>3, <4>2 DEF Notify, Goto
      <4>4. QED
        BY <1>2, <2>6, <4>3 DEF ListingKept, Listing, Config
    <3>4. QED
      BY <3>2, <3>3
  <2>7. CASE Backoff
    BY <1>2, <2>7 DEF Backoff, Goto, ListingKept, Listing
  <2>8. CASE AddServer
    BY <1>2, <2>8 DEF AddServer, Return, Goto, ListingKept, Listing
  <2>9. CASE Finish
    BY <1>2, <2>9 DEF Finish, Return, Goto, ListingKept, Listing
  <2>10. CASE UNCHANGED vars
    BY <1>2, <2>10 DEF vars, ListingKept, Listing, Config
  <2>11. QED
    BY <1>2, <2>1, <2>2, <2>3, <2>4, <2>5, <2>6, <2>7, <2>8, <2>9, <2>10 DEF Next
<1>3. QED
  BY <1>1, <1>2

LEMMA NeutralKeepsCatalogue ==
  ASSUME CatalogueKept, UNCHANGED <<configs, servers, tools>>,
         \A n \in DOMAIN servers : servers[n].config \in astray' <=> servers[n].config \in astray
  PROVE  CatalogueKept'
BY DEF CatalogueKept

(* The servers already kept are not the one at hand.                       *)
LEMMA OthersKept ==
  ASSUME TypeOK, AttemptsKept, PositionsKept, pc \in Busy, UNCHANGED <<configs, servers, tools>>,
         astray' \in {astray, astray \union {at}, astray \ {at}}, CatalogueKept
  PROVE  CatalogueKept'
<1>1. at \in Nat /\ Kept \subseteq 1..at - 1
  BY DEF TypeOK, PositionsKept
<1>2. \A n \in DOMAIN servers : servers[n].config \in 1..at - 1
  BY <1>1 DEF Kept
<1>3. \A n \in DOMAIN servers : servers[n].config # at
  BY <1>1, <1>2
<1>4. QED
  BY <1>3, NeutralKeepsCatalogue

(* Indices of a concatenation.                                             *)
LEMMA Concatenation ==
  ASSUME NEW S, NEW s \in Seq(S), NEW t \in Seq(S)
  PROVE  /\ \A j \in DOMAIN s : j \in DOMAIN (s \o t) /\ (s \o t)[j] = s[j]
         /\ \A k \in DOMAIN t : Len(s) + k \in DOMAIN (s \o t) /\ (s \o t)[Len(s) + k] = t[k]
         /\ \A j \in DOMAIN (s \o t) :
              \/ j \in DOMAIN s /\ (s \o t)[j] = s[j]
              \/ \E k \in DOMAIN t : j = Len(s) + k /\ (s \o t)[j] = t[k]
<1>1. \A j \in DOMAIN s : j \in DOMAIN (s \o t) /\ (s \o t)[j] = s[j]
  OBVIOUS
<1>2. \A k \in DOMAIN t : Len(s) + k \in DOMAIN (s \o t) /\ (s \o t)[Len(s) + k] = t[k]
  OBVIOUS
<1>3. ASSUME NEW j \in DOMAIN (s \o t), j \notin DOMAIN s
      PROVE  \E k \in DOMAIN t : j = Len(s) + k /\ (s \o t)[j] = t[k]
  <2>1. j - Len(s) \in DOMAIN t /\ j = Len(s) + (j - Len(s))
    BY <1>3
  <2>2. QED
    BY <1>2, <2>1
<1>4. QED
  BY <1>1, <1>2, <1>3

LEMMA CatalogueInductive ==
  /\ Init => CatalogueKept
  /\ TypeOK /\ AttemptsKept /\ PositionsKept /\ ListingKept /\ CatalogueKept /\ [Next]_vars => CatalogueKept'
<1>1. Init => CatalogueKept
  BY DEF Init, CatalogueKept, Distinct
<1>2. ASSUME TypeOK, AttemptsKept, PositionsKept, ListingKept, CatalogueKept, [Next]_vars
      PROVE  CatalogueKept'
  <2>1. CASE Normalize
    BY <1>2, <2>1, NeutralKeepsCatalogue DEF Normalize
  <2>2. CASE TakeConfig
    BY <1>2, <2>2, NeutralKeepsCatalogue DEF TakeConfig
  <2>3. CASE Connect
    BY <1>2, <2>3, OthersKept DEF Connect, Busy, Listing
  <2>4. CASE ListTools
    <3>1. at \in DOMAIN configs /\ (client.cursor = 0 \/ client.cursor < Len(Config.pages))
      BY <1>2, <2>4, ConfigTypes DEF TypeOK, AttemptsKept, ListingKept, Busy, Listing, ListTools
    <3>2. /\ pc = "list" /\ UNCHANGED <<configs, servers, tools>>
          /\ astray' \in {astray, astray \union {at}}
      BY <1>2, <2>4, <3>1, ListEffect DEF Taken
    <3>3. QED
      BY <1>2, <2>4, <3>2, OthersKept DEF Busy, Listing
  <2>5. CASE Initialize
    BY <1>2, <2>5, NeutralKeepsCatalogue DEF Initialize
  <2>6. CASE Notify
    BY <1>2, <2>6, NeutralKeepsCatalogue DEF Notify
  <2>7. CASE Backoff
    BY <1>2, <2>7, NeutralKeepsCatalogue DEF Backoff
  <2>8. CASE AddServer
    <3>1. at \in DOMAIN configs
      BY <1>2, <2>8, ConfigTypes DEF TypeOK, AttemptsKept, Busy, Listing, AddServer
    <3> DEFINE more == Registered(at)
               new == [config |-> at, legacy |-> client.legacy, session |-> session]
               N == Len(servers) + 1
    <3>2. CASE ~Distinct(tools \o more)
      BY <1>2, <2>8, <3>2, NeutralKeepsCatalogue DEF AddServer
    <3>3. CASE Distinct(tools \o more)
      <4>1. /\ tools' = tools \o more /\ servers' = Append(servers, new)
            /\ UNCHANGED <<configs, astray>> /\ pc = "add"
        BY <1>2, <2>8, <3>3 DEF AddServer
      <4>2. /\ more \in Seq(Registrations) /\ tools \in Seq(Registrations)
            /\ DOMAIN more = DOMAIN client.tools
            /\ \A k \in DOMAIN more :
                 more[k] = [server |-> N, name |-> Qualified(configs[at].name, client.tools[k]),
                            tool |-> client.tools[k]]
        BY <1>2, <2>8, <3>1, RegisteredTypes DEF TypeOK
      <4>3. new.config = at
        OBVIOUS
      <4> HIDE DEF more, new
      <4>4. /\ DOMAIN servers' = DOMAIN servers \union {N} /\ servers'[N] = new
            /\ \A n \in DOMAIN servers : servers'[n] = servers[n] /\ n # N
        BY <1>2, <2>8, <4>1 DEF TypeOK
      <4> HIDE DEF N
      <4>5. /\ \A j \in DOMAIN tools : j \in DOMAIN tools' /\ tools'[j] = tools[j]
            /\ \A k \in DOMAIN more : Len(tools) + k \in DOMAIN tools' /\ tools'[Len(tools) + k] = more[k]
            /\ \A j \in DOMAIN tools' :
                 \/ j \in DOMAIN tools /\ tools'[j] = tools[j]
                 \/ \E k \in DOMAIN more : j = Len(tools) + k /\ tools'[j] = more[k]
        BY <4>1, <4>2, Concatenation
      <4>6. \A j \in DOMAIN tools : EntryKept(configs, servers', tools[j])
        BY <1>2, <2>8, <4>4 DEF CatalogueKept, EntryKept
      <4>7. \A k \in DOMAIN more : EntryKept(configs, servers', more[k])
        <5> TAKE k \in DOMAIN more
        <5>1. Offers(configs, at, client.tools[k])
          BY <1>2, <2>8, <4>1, <4>2 DEF ListingKept
        <5>2. /\ more[k].server = N /\ more[k].tool = client.tools[k]
              /\ more[k].name = Qualified(configs[at].name, client.tools[k])
          <6> DEFINE q == Qualified(configs[at].name, client.tools[k])
          <6>1. more[k] = [server |-> N, name |-> q, tool |-> client.tools[k]]
            BY <4>2, Zenon
          <6> HIDE DEF q
          <6>2. more[k].server = N /\ more[k].tool = client.tools[k] /\ more[k].name = q
            BY <6>1
          <6>3. QED
            BY <6>2, Zenon DEF q
        <5>3. QED
          BY <4>3, <4>4, <5>1, <5>2 DEF EntryKept
      <4>8. \A j \in DOMAIN tools' : EntryKept(configs', servers', tools'[j])
        BY <4>1, <4>5, <4>6, <4>7
      <4>9. ASSUME NEW n \in DOMAIN servers', servers'[n].config \notin astray,
                   NEW k \in DOMAIN Tools(configs, servers'[n].config)
            PROVE  \E j \in DOMAIN tools' :
                     tools'[j] = Entry(configs, servers', n, Tools(configs, servers'[n].config)[k])
        <5>1. CASE n \in DOMAIN servers
          <6>1. servers'[n] = servers[n]
            BY <4>4, <5>1
          <6>2. PICK j \in DOMAIN tools :
                  tools[j] = Entry(configs, servers, n, Tools(configs, servers[n].config)[k])
            BY <1>2, <2>8, <4>9, <5>1, <6>1 DEF CatalogueKept
          <6>3. j \in DOMAIN tools' /\ tools'[j] = tools[j]
            BY <4>5
          <6>4. QED
            BY <6>1, <6>2, <6>3 DEF Entry
        <5>2. CASE n = N
          <6>1. servers'[n].config = at
            BY <4>3, <4>4, <5>2
          <6>2. client.tools = Tools(configs, at)
            BY <1>2, <2>8, <4>1, <4>9, <6>1 DEF ListingKept
          <6>3. k \in DOMAIN more
            BY <4>2, <4>9, <6>1, <6>2
          <6>4. tools'[Len(tools) + k] = more[k] /\ Len(tools) + k \in DOMAIN tools'
            BY <4>5, <6>3
          <6>5. more[k] = Entry(configs, servers', n, Tools(configs, at)[k])
            BY <4>2, <5>2, <6>1, <6>2, <6>3 DEF Entry
          <6>6. QED
            BY <6>1, <6>4, <6>5
        <5>3. QED
          BY <4>4, <5>1, <5>2
      <4>10. Distinct(tools')
        BY <3>3, <4>1 DEF more
      <4>11. QED
        BY <4>1, <4>8, <4>9, <4>10 DEF CatalogueKept
    <3>4. QED
      BY <3>2, <3>3
  <2>9. CASE Finish
    BY <1>2, <2>9, NeutralKeepsCatalogue DEF Finish
  <2>10. CASE UNCHANGED vars
    BY <1>2, <2>10, NeutralKeepsCatalogue DEF vars
  <2>11. QED
    BY <1>2, <2>1, <2>2, <2>3, <2>4, <2>5, <2>6, <2>7, <2>8, <2>9, <2>10 DEF Next
<1>3. QED
  BY <1>1, <1>2

LEMMA DefectiveKept ==
  ASSUME Defective, UNCHANGED <<configs, at, astray>>
  PROVE  Defective'
BY DEF Defective, Listed

(* Two tools of one name in one catalogue.                                 *)
LEMMA EqualNamesAreDefects ==
  ASSUME TypeOK, at \in DOMAIN configs, AttemptsKept, PositionsKept, ListingKept, CatalogueKept,
         pc = "add", ~Distinct(tools \o Registered(at)), at \notin astray
  PROVE  Defective
<1> DEFINE more == Registered(at)
<1>1. /\ more \in Seq(Registrations) /\ tools \in Seq(Registrations)
      /\ DOMAIN more = DOMAIN client.tools
      /\ \A k \in DOMAIN more :
           more[k] = [server |-> Len(servers) + 1,
                      name |-> Qualified(configs[at].name, client.tools[k]),
                      tool |-> client.tools[k]]
  BY RegisteredTypes DEF TypeOK
<1>2. client.tools = Listed(at)
  BY ListedTypes DEF ListingKept
<1> HIDE DEF more
<1>3. PICK i, j \in DOMAIN (tools \o more) :
        (tools \o more)[i].name = (tools \o more)[j].name /\ i # j
  BY DEF Distinct, more
<1> DEFINE Same(c, k, d, l) ==
             /\ c \in DOMAIN configs /\ d \in DOMAIN configs
             /\ k \in DOMAIN Listed(c) /\ l \in DOMAIN Listed(d)
             /\ <<c, k>> # <<d, l>>
             /\ Qualified(configs[c].name, Listed(c)[k]) = Qualified(configs[d].name, Listed(d)[l])
<1>4. \A c, k, d, l : Same(c, k, d, l) => Defective
  BY DEF Defective
<1>5. \A k \in DOMAIN more :
        k \in DOMAIN Listed(at) /\ more[k].name = Qualified(configs[at].name, Listed(at)[k])
  BY <1>1, <1>2
<1>6. ASSUME NEW x \in DOMAIN tools
      PROVE  \E c \in DOMAIN configs : \E l \in DOMAIN Listed(c) :
               c # at /\ tools[x].name = Qualified(configs[c].name, Listed(c)[l])
  <2> DEFINE c == servers[tools[x].server].config
  <2>1. EntryKept(configs, servers, tools[x])
    BY DEF CatalogueKept
  <2>2. c \in Kept
    BY <2>1 DEF EntryKept, Kept
  <2>3. at \in 1..Len(configs) /\ Len(configs) \in Nat /\ Kept \subseteq 1..at - 1
    BY ConfigTypes DEF PositionsKept, Busy
  <2>4. c \in DOMAIN configs /\ c # at
    <3> HIDE DEF c
    <3>1. c \in 1..at - 1
      BY <2>2, <2>3
    <3>2. QED
      BY <2>3, <3>1, ConfigTypes
  <2>5. PICK l \in DOMAIN Tools(configs, c) : Tools(configs, c)[l] = tools[x].tool
    BY <2>1 DEF EntryKept, Offers
  <2>6. Listed(c) = Tools(configs, c)
    BY <2>4, ListedTypes
  <2>7. tools[x].name = Qualified(configs[c].name, tools[x].tool)
    BY <2>1, Zenon DEF EntryKept
  <2> HIDE DEF c
  <2>8. QED
    BY <2>4, <2>5, <2>6, <2>7
<1>7. \A x \in DOMAIN (tools \o more) :
        \/ x \in DOMAIN tools /\ (tools \o more)[x] = tools[x]
        \/ \E k \in DOMAIN more : x = Len(tools) + k /\ (tools \o more)[x] = more[k]
  BY <1>1, Concatenation
<1> HIDE DEF Same
<1>8. ASSUME NEW x \in DOMAIN tools, NEW k \in DOMAIN more, tools[x].name = more[k].name
      PROVE  Defective
  <2>1. PICK c \in DOMAIN configs : \E l \in DOMAIN Listed(c) :
               c # at /\ tools[x].name = Qualified(configs[c].name, Listed(c)[l])
    BY <1>6
  <2>2. PICK l \in DOMAIN Listed(c) :
               c # at /\ tools[x].name = Qualified(configs[c].name, Listed(c)[l])
    BY <2>1
  <2>3. Same(c, l, at, k)
    <3>1. <<c, l>> # <<at, k>>
      BY <2>2
    <3>2. QED
      BY <1>5, <1>8, <2>2, <3>1 DEF Same
  <2>4. QED
    BY <1>4, <2>3
<1>9. CASE i \in DOMAIN tools /\ (tools \o more)[i] = tools[i]
  <2>1. CASE j \in DOMAIN tools /\ (tools \o more)[j] = tools[j]
    BY <1>3, <1>9, <2>1 DEF CatalogueKept, Distinct
  <2>2. ASSUME NEW k \in DOMAIN more, (tools \o more)[j] = more[k]
        PROVE  Defective
    BY <1>3, <1>8, <1>9, <2>2
  <2>3. QED
    BY <1>7, <2>1, <2>2
<1>10. ASSUME NEW k \in DOMAIN more, i = Len(tools) + k, (tools \o more)[i] = more[k]
       PROVE  Defective
  <2>1. CASE j \in DOMAIN tools /\ (tools \o more)[j] = tools[j]
    BY <1>3, <1>8, <1>10, <2>1
  <2>2. ASSUME NEW l \in DOMAIN more, j = Len(tools) + l, (tools \o more)[j] = more[l]
        PROVE  Defective
    <3>1. k # l
      BY <1>3, <1>10, <2>2
    <3>2. Same(at, k, at, l)
      <4>1. <<at, k>> # <<at, l>>
        BY <3>1
      <4>2. QED
        BY <1>3, <1>5, <1>10, <2>2, <4>1 DEF Same
    <3>3. QED
      BY <1>4, <3>2
  <2>3. QED
    BY <1>7, <2>1, <2>2
<1>11. QED
  BY <1>7, <1>9, <1>10

LEMMA OutcomeInductive ==
  /\ Init => OutcomeKept
  /\ TypeOK /\ AttemptsKept /\ PositionsKept /\ ListingKept /\ CatalogueKept /\ OutcomeKept /\ [Next]_vars => OutcomeKept'
<1>1. Init => OutcomeKept
  BY DEF Init, OutcomeKept
<1>2. ASSUME TypeOK, AttemptsKept, PositionsKept, ListingKept, CatalogueKept, OutcomeKept, [Next]_vars
      PROVE  OutcomeKept'
  <2>1. CASE Normalize
    BY <1>2, <2>1 DEF Normalize, Return, Goto, OutcomeKept, Defective, Normalizable
  <2>2. CASE TakeConfig
    <3>1. CASE ~Unusable(configs[at + 1])
      BY <1>2, <2>2, <3>1 DEF TakeConfig, Goto, OutcomeKept
    <3>2. CASE Unusable(configs[at + 1])
      <4>1. /\ pc' = "done" /\ outcome' = "rejected" /\ UNCHANGED configs
            /\ at \in Nat /\ at + 1 \in DOMAIN configs
        BY <1>2, <2>2, <3>2, ConfigTypes DEF TakeConfig, Return, Goto, TypeOK
      <4>2. CASE ~Valid(configs[at + 1])
        BY <4>1, <4>2 DEF Defective, Valid, HeadersAllowed, OutcomeKept
      <4>3. ASSUME NEW i \in 1..at, configs[i].name = configs[at + 1].name
            PROVE  OutcomeKept'
        <5>1. i \in DOMAIN configs /\ i # at + 1
          BY <4>1, ConfigTypes, <1>2, <2>2
        <5>2. Defective'
          BY <4>1, <4>3, <5>1 DEF Defective
        <5>3. QED
          BY <4>1, <5>2 DEF OutcomeKept
      <4>4. QED
        BY <3>2, <4>2, <4>3 DEF Unusable
    <3>3. QED
      BY <3>1, <3>2
  <2>3. CASE Connect
    <3>1. at \in DOMAIN configs
      BY <1>2, <2>3, ConfigTypes DEF TypeOK, AttemptsKept, Busy, Listing, Connect
    <3>2. pc' # "done" /\ pc # "done" /\ UNCHANGED outcome
      BY <1>2, <2>3, <3>1, FailEffect DEF Connect, Goto
    <3>3. QED
      BY <1>2, <2>3, <3>2 DEF OutcomeKept
  <2>4. CASE ListTools
    <3>1. at \in DOMAIN configs /\ (client.cursor = 0 \/ client.cursor < Len(Config.pages))
      BY <1>2, <2>4, ConfigTypes DEF TypeOK, AttemptsKept, ListingKept, Busy, Listing, ListTools
    <3>2. pc' # "done" /\ pc # "done" /\ UNCHANGED outcome
      BY <1>2, <2>4, <3>1, ListEffect, FailEffect DEF Taken
    <3>3. QED
      BY <1>2, <2>4, <3>2 DEF OutcomeKept
  <2>5. CASE Initialize
    <3>1. at \in DOMAIN configs
      BY <1>2, <2>5, ConfigTypes DEF TypeOK, AttemptsKept, Busy, Listing, Initialize
    <3>2. pc' # "done" /\ pc # "done" /\ UNCHANGED outcome
      BY <1>2, <2>5, <3>1, FailEffect DEF Initialize, Goto
    <3>3. QED
      BY <1>2, <2>5, <3>2 DEF OutcomeKept
  <2>6. CASE Notify
    <3>1. at \in DOMAIN configs
      BY <1>2, <2>6, ConfigTypes DEF TypeOK, AttemptsKept, Busy, Listing, Notify
    <3>2. pc' # "done" /\ pc # "done" /\ UNCHANGED outcome
      BY <1>2, <2>6, <3>1, FailEffect DEF Notify, Goto
    <3>3. QED
      BY <1>2, <2>6, <3>2 DEF OutcomeKept
  <2>7. CASE Backoff
    BY <1>2, <2>7 DEF Backoff, Goto, OutcomeKept
  <2>8. CASE AddServer
    <3>1. at \in DOMAIN configs
      BY <1>2, <2>8, ConfigTypes DEF TypeOK, AttemptsKept, Busy, Listing, AddServer
    <3>2. CASE Distinct(tools \o Registered(at))
      BY <1>2, <2>8, <3>2 DEF AddServer, Goto, OutcomeKept
    <3>3. CASE ~Distinct(tools \o Registered(at))
      <4>1. /\ pc = "add" /\ pc' = "done" /\ outcome' = "rejected"
            /\ UNCHANGED <<configs, at, astray>>
        BY <1>2, <2>8, <3>3 DEF AddServer, Return, Goto
      <4>2. Defective
        <5>1. CASE at \in astray
          BY <5>1 DEF Defective
        <5>2. CASE at \notin astray
          BY <1>2, <2>8, <3>1, <3>3, <4>1, <5>2, EqualNamesAreDefects
        <5>3. QED
          BY <5>1, <5>2
      <4>3. QED
        BY <4>1, <4>2, DefectiveKept DEF OutcomeKept
    <3>4. QED
      BY <3>2, <3>3
  <2>9. CASE Finish
    <3>1. /\ pc = "next" /\ at = Len(configs) /\ pc' = "done"
          /\ outcome' = IF servers = <<>> THEN "all_failed" ELSE Registration
          /\ UNCHANGED <<configs, at, servers, tools, failed, astray>>
      BY <1>2, <2>9 DEF Finish, Return, Goto
    <3>2. Kept \union failed = DOMAIN configs /\ Kept' = Kept
      BY <1>2, <2>9, <3>1, ConfigTypes DEF PositionsKept, Kept
    <3>3. CASE servers = <<>>
      <4>1. Kept = {}
        BY <3>3 DEF Kept
      <4>2. QED
        BY <3>1, <3>2, <3>3, <4>1 DEF OutcomeKept
    <3>4. CASE servers # <<>> /\ \A k \in DOMAIN tools : tools[k].name \notin Builtins
      BY <3>1, <3>2, <3>4 DEF OutcomeKept, Registration
    <3>5. ASSUME NEW x \in DOMAIN tools, servers # <<>>, tools[x].name \in Builtins
          PROVE  OutcomeKept'
      <4> DEFINE c == servers[tools[x].server].config
      <4>1. EntryKept(configs, servers, tools[x])
        BY <1>2, <2>9 DEF CatalogueKept
      <4>2. c \in Kept
        BY <4>1 DEF EntryKept, Kept
      <4>3. PICK l \in DOMAIN Tools(configs, c) : Tools(configs, c)[l] = tools[x].tool
        BY <4>1 DEF EntryKept, Offers
      <4>4. tools[x].name = Qualified(configs[c].name, tools[x].tool)
        BY <4>1, Zenon DEF EntryKept
      <4> HIDE DEF c
      <4>5. c \in DOMAIN configs
        BY <3>2, <4>2
      <4>6. Listed(c) = Tools(configs, c)
        BY <1>2, <2>9, <4>5, ListedTypes
      <4>7. l \in DOMAIN Listed(c) /\ Qualified(configs[c].name, Listed(c)[l]) \in Builtins
        BY <3>5, <4>3, <4>4, <4>6
      <4>8. Defective
        BY <4>5, <4>7 DEF Defective
      <4>9. QED
        BY <3>1, <3>5, <4>8, DefectiveKept DEF OutcomeKept, Registration
    <3>6. QED
      BY <3>3, <3>4, <3>5
  <2>10. CASE UNCHANGED vars
    <3>1. UNCHANGED <<configs, at, pc, servers, tools, failed, outcome, astray>>
      BY <1>2, <2>10 DEF vars
    <3>2. QED
      BY <1>2, <2>10, <3>1, DefectiveKept DEF OutcomeKept, Kept
  <2>11. QED
    BY <1>2, <2>1, <2>2, <2>3, <2>4, <2>5, <2>6, <2>7, <2>8, <2>9, <2>10 DEF Next
<1>3. QED
  BY <1>1, <1>2

-----------------------------------------------------------------------------
(* The theorems.                                                           *)

LEMMA DiscoveryInvInductive ==
  /\ Init => DiscoveryInv
  /\ DiscoveryInv /\ [Next]_vars => DiscoveryInv'
<1>1. Init => DiscoveryInv
  BY TypeInductive, AttemptsInductive, PositionsInductive, DialectInductive, ListingInductive,
     CatalogueInductive, OutcomeInductive DEF DiscoveryInv
<1>2. ASSUME DiscoveryInv, [Next]_vars
      PROVE  DiscoveryInv'
  <2>1. /\ TypeOK /\ AttemptsKept /\ PositionsKept /\ DialectKept
        /\ ListingKept /\ CatalogueKept /\ OutcomeKept
    BY <1>2 DEF DiscoveryInv
  <2>2. TypeOK' /\ AttemptsKept' /\ PositionsKept'
    BY <1>2, <2>1, TypeInductive, AttemptsInductive, PositionsInductive
  <2>3. DialectKept' /\ ListingKept'
    BY <1>2, <2>1, DialectInductive, ListingInductive
  <2>4. CatalogueKept' /\ OutcomeKept'
    BY <1>2, <2>1, CatalogueInductive, OutcomeInductive
  <2>5. QED
    BY <2>2, <2>3, <2>4 DEF DiscoveryInv
<1>3. QED
  BY <1>1, <1>2

(* What from_configs keeps true while it works through the list: what each *)
(* server has been given of its attempts, what has been listed of it, and  *)
(* what the catalogue holds of those before it.                            *)
THEOREM Invariance == Spec => []DiscoveryInv
<1>1. QED
  BY DiscoveryInvInductive, PTL DEF Spec

(* Client and server speak one dialect, in the listing and in every later  *)
(* call: McpServerClient is in legacy mode exactly when the handshake of   *)
(* initialize_legacy was completed with this connection.                   *)
THEOREM DialectsAgree == Spec => []OneDialect
<1>1. DiscoveryInv => OneDialect
  BY DEF DiscoveryInv, DialectKept, OneDialect, Dialect, Expected
<1>2. QED
  BY <1>1, Invariance, PTL

(* from_configs leaves a server out only after all its attempts, accounts  *)
(* for every server of the list, and refuses a list for a defect of its    *)
(* own.                                                                    *)
THEOREM OmissionsHaveCause == Spec => []OmittedForCause
<1>1. DiscoveryInv => OmittedForCause
  BY DEF DiscoveryInv, AttemptsKept, OutcomeKept, OmittedForCause
<1>2. QED
  BY <1>1, Invariance, PTL

(* McpCatalog::call_async, after the registry has looked at the builtins,  *)
(* routes the qualified name of each tool that a kept server offers to     *)
(* that server and that tool.                                              *)
THEOREM CallsAreRouted == Spec => []CallsReachTheirServer
<1>1. ASSUME DiscoveryInv, outcome = "bound", NEW i \in Kept \ astray, NEW k \in DOMAIN Listed(i)
      PROVE  Route(Qualified(configs[i].name, Listed(i)[k])) =
               [at |-> "mcp", config |-> i, tool |-> Listed(i)[k]]
  <2> DEFINE name == Qualified(configs[i].name, Listed(i)[k])
             tool == Listed(i)[k]
  <2>1. /\ TypeOK /\ Kept \subseteq DOMAIN configs /\ CatalogueKept
        /\ \A j \in DOMAIN tools : tools[j].name \notin Builtins
    BY <1>1 DEF DiscoveryInv, OutcomeKept
  <2>2. PICK n \in DOMAIN servers : servers[n].config = i
    BY DEF Kept
  <2>3. Listed(i) = Tools(configs, i)
    BY <2>1, ListedTypes
  <2>4. PICK j \in DOMAIN tools : tools[j] = Entry(configs, servers, n, tool)
    BY <2>1, <2>2, <2>3 DEF CatalogueKept
  <2>5. tools[j].server = n /\ tools[j].name = name /\ tools[j].tool = tool
    <3> HIDE DEF name, tool
    <3>1. Qualified(configs[servers[n].config].name, tool) = name
      BY <2>2, Zenon DEF name, tool
    <3>2. tools[j] = [server |-> n, name |-> name, tool |-> tool]
      BY <2>4, <3>1, Zenon DEF Entry
    <3>3. QED
      BY <3>2
  <2> HIDE DEF name, tool
  <2>6. name \notin Builtins
    BY <2>1, <2>5
  <2> DEFINE Named == {x \in 1..Len(tools) : tools[x].name = name}
             found == SelectInSeq(tools, LAMBDA t : t.name = name)
  <2>7. DOMAIN tools = 1..Len(tools) /\ Len(tools) \in Nat
    BY <2>1 DEF TypeOK
  <2>8. Named = {j}
    BY <2>1, <2>5, <2>7 DEF CatalogueKept, Distinct
  <2>9. found = j
    <3>1. found = IF Named # {} THEN Min(Named) ELSE 0
      BY Zenon DEF SelectInSeq
    <3> HIDE DEF Named, found
    <3>2. Min({j}) = j
      BY <2>7 DEF Min
    <3>3. QED
      BY <2>8, <3>1, <3>2
  <2>10. Route(name) = IF found = 0 \/ tools[found].server \notin DOMAIN servers
                       THEN [at |-> "unknown"]
                       ELSE [at |-> "mcp", config |-> servers[tools[found].server].config,
                             tool |-> tools[found].tool]
    BY <2>6, Zenon DEF Route
  <2> HIDE DEF Named, found
  <2>11. Route(name) = [at |-> "mcp", config |-> i, tool |-> tool]
    BY <2>2, <2>5, <2>7, <2>9, <2>10
  <2>12. QED
    BY <2>11, Zenon DEF name, tool
<1>2. DiscoveryInv => CallsReachTheirServer
  BY <1>1 DEF CallsReachTheirServer
<1>3. QED
  BY <1>2, Invariance, PTL
=============================================================================
