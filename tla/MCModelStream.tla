----------------------------- MODULE MCModelStream ----------------------------
(* TLC instances of ModelStream: every marker a detector holds back, with   *)
(* what may stand around it, and the pieces clean_text removes.             *)
EXTENDS ModelStream

Texts == {
  CallFence \o <<"{", "}">> \o Fence \o <<"b">>,
  <<"a">> \o CallInline \o <<"{", "id:1}", Newline>>,
  <<"[", "T", "ool result]:", Newline>> \o FollowUpTag,
  <<"<", "t", "hinking>", "r">> \o ThinkClose \o <<"b">>,
  <<"[", "T", "hinking]:", "r">> \o ThinkClose,
  <<"[", "t", "hinking]:", "<", "r">>,
  <<"a", "card", "ref(", "py", ")ref">>}

(* An upstream knows one text and one of its beginnings, or the first two. *)
Beginning(t, n) == SubSeq(t, 1, n)
MCAnswers ==
  UNION {{{Beginning(t, n), t} : n \in 1..Len(t) - 1} : t \in Texts}
    \cup {{Beginning(t, 1), Beginning(t, 2), t} : t \in Texts}
MCOwnIds == {Own(1)}
===============================================================================
