----------------------------- MODULE MCHistory -----------------------------
(* A small instance of History: one user text, which quotes a call, one model   *)
(* text with a stray fence, two interchangeable ids that every round and turn   *)
(* may use again, and, beside the empty one, two files of the older format.     *)
EXTENDS History, TLC

CONSTANTS c, d

Symmetry == Permutations({c, d})

MCUserTexts == {<<Plain(1), Inline(Id("a", 0), "read")>>}
MCTexts == {<<Plain(1), Close>>}

\* Text and two inline calls, and an answer without an id for each
MCInlineFile ==
  << Message("user", <<Plain(1)>>, Unread),
     Message("assistant",
             <<Plain(1), Inline(Id("a", 0), "read"), Inline(Id("b", 0), "read")>>,
             Unread),
     Message("tool", <<Plain(1)>>, Header(NoId, "read", TRUE)),
     Message("tool", <<Plain(2)>>, Header(NoId, "read", FALSE)) >>

\* A call between two texts, and an answer of no known form
MCUnreadFile ==
  << Message("assistant", <<Plain(1), Inline(Id("a", 0), "read"), Plain(1)>>, Unread),
     Message("tool", <<Plain(1)>>, Unread) >>

MCFiles == {<<>>, MCInlineFile, MCUnreadFile}
=============================================================================
