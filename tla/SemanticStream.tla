---------------------------- MODULE SemanticStream ----------------------------
(* GeminiSemanticStream: the incremental parser that turns the text deltas *)
(* and the structured frames of one model stream into model events.        *)
(*                                                                         *)
(* A text is a sequence of tokens, between which the upstream may cut it:  *)
(* words, newlines, halves of a code fence, and pieces of markers and JSON *)
(* objects, such that two markers share the tokens of a beginning they     *)
(* share, for what a detector holds back can become either.  The three     *)
(* spellings of a call fence are one, and so are <thinking> and <think>.   *)
(* The operators are pure: each returns the parser it leaves, with the     *)
(* events it emits appended to the field "out".                            *)
EXTENDS CallIds, FiniteSets, FiniteSetsExt, Sequences, SequencesExt

CONSTANTS
  MaxPending,    (* MAX_PENDING, in tokens *)
  MaxFollowUp,   (* MAX_FOLLOW_UP, in tokens *)
  MaxToolBlock   (* MAX_TOOL_BLOCK, in tokens *)

ASSUME SemanticAssumption ==
  /\ {MaxPending, MaxFollowUp, MaxToolBlock} \subseteq Nat \ {0}
  /\ MaxFollowUp < MaxPending

-------------------------------------------------------------------------------
(* Tokens and markers *)

Newline == "\n"
Fence == <<"tick", "tick">>                       (* closes a call block *)
CallFence == <<"tick", "tick", "tool_call">>      (* opens one *)
CallInline == <<"[", "t", "ool_", "call ">>
FollowUpPrefix == <<"<", "FollowUp">>
FollowUpTag == <<"<", "FollowUp", "/>">>     (* a complete, valid tag *)
CallMarkers == {CallFence, CallInline, FollowUpPrefix}

ResultInline == <<"[", "t", "ool_", "r", "esult ">>
ResultLegacy == {<<"[", "T", "ool result for ">>, <<"[", "T", "ool result]:">>}
ResultMarkers == ResultLegacy \cup {ResultInline}

ThinkOpen == {<<"<", "t", "hinking>">>, <<"[", "T", "hinking]:">>, <<"[", "t", "hinking]:">>}
ThinkClose == <<"<", "/", "thinking>">>
Assistant == <<"[", "A", "ssistant]:">>

(* The JSON objects a text may hold, and the ids they carry. *)
Objects == [t \in {<<"{", "}">>, <<"{", "id:1}">>} |->
              IF t = <<"{", "}">> THEN NoId ELSE Own(1)]

(* Position of the first occurrence of a marker, 0 if there is none. *)
Find(s, m) ==
  LET at == {i \in 1..Len(s) - Len(m) + 1 : SubSeq(s, i, i + Len(m) - 1) = m}
  IN  IF at = {} THEN 0 ELSE Min(at)

HasRun(s, m) == Find(s, m) # 0

(* Of the first occurrence of any marker. *)
FindAny(s, ms) ==
  LET at == {Find(s, m) : m \in ms} \ {0}
  IN  IF at = {} THEN 0 ELSE Min(at)

(* Length of the marker the text begins with, 0 if there is none. *)
Opening(s, ms) == IF FindAny(s, ms) = 1 THEN Len(CHOOSE m \in ms : Find(s, m) = 1) ELSE 0

(* Mutant: nothing is held back. *)
PartialSuffixNone(s, ms) == 0

(* Length of the longest end of s that some marker of ms could continue. *)
PartialSuffix(s, ms) ==
  LET fits == {0} \cup {k \in 1..Len(s) : \E m \in ms :
                          k < Len(m) /\ SubSeq(s, Len(s) - k + 1, Len(s)) = SubSeq(m, 1, k)}
  IN  Max(fits)

From(s, i) == SubSeq(s, i, Len(s))
Before(s, i) == SubSeq(s, 1, i - 1)

StripNewlines(s) ==
  From(s, CHOOSE i \in 1..Len(s) + 1 :
            /\ \A j \in 1..i - 1 : s[j] = Newline
            /\ i = Len(s) + 1 \/ s[i] # Newline)

Trim(s) == Reverse(StripNewlines(Reverse(StripNewlines(s))))

-------------------------------------------------------------------------------
(* ProtocolDetector: finds calls in the text, drops echoed tool results. *)

NewProtocol == [mode |-> "normal", pending |-> <<>>, atStart |-> TRUE, nextId |-> 0,
                body |-> <<>>, oversized |-> FALSE, fenced |-> FALSE,
                final |-> FALSE, more |-> FALSE, out |-> <<>>]

Text(t) == [kind |-> "text", toks |-> t]
Call(id) == [kind |-> "call", id |-> id]

(* normalize_assistant_marker *)
WithoutSpeaker(t) ==
  LET words == StripNewlines(t)
  IN  IF Find(words, Assistant) = 1 THEN StripNewlines(From(words, Len(Assistant) + 1)) ELSE t

(* emit_text *)
Emit(p, t) == IF t = <<>> THEN p ELSE [p EXCEPT !.out = Append(@, Text(WithoutSpeaker(t)))]

(* drain returns when an iteration consumed nothing. *)
Stop(p) == [p EXCEPT !.more = FALSE]
Hold(p, t) == [p EXCEPT !.pending = t]

(* The text before position i leaves; the rest is looked at again. *)
EmitBefore(p, i) ==
  Emit([p EXCEPT !.pending = From(@, i), !.atStart = FALSE], Before(p.pending, i))

(* Past the first n tokens, in another mode. *)
Enter(p, n, mode) ==
  [p EXCEPT !.pending = From(@, n + 1), !.mode = mode, !.atStart = FALSE,
            !.body = <<>>, !.oversized = FALSE]

(* A parsed call: its own id, or the detector's next one. *)
IsObject(t) == t \in DOMAIN Objects

ParseCall(p, body) ==
  IF ~IsObject(body) THEN p
  ELSE IF Objects[body] # NoId THEN [p EXCEPT !.out = Append(@, Call(Objects[body]))]
  ELSE [p EXCEPT !.nextId = @ + 1, !.out = Append(@, Call(Allocated(p.nextId)))]

(* A result line; the last one of the stream is dropped without its newline. *)
AtResult(p, newline) ==
  IF Find(p.pending, ResultInline) = 1 THEN Enter(p, Len(ResultInline), "inline_result")
  ELSE IF newline = 0 THEN Stop(IF p.final THEN Hold(p, <<>>) ELSE p)
  ELSE Enter([p EXCEPT !.fenced = HasRun(Before(p.pending, newline), CallFence)],
             newline, "result")

AtInlineCall(p) ==
  IF ~p.final /\ ~HasRun(p.pending, <<Newline>>) THEN Stop(p)
  ELSE Enter(p, Len(CallInline), "inline_call")

(* parse_follow_up_candidates: every tag of the pending text must be whole; *)
(* all that is pending goes with them.                                      *)
TagsAt(s) == {i \in 1..Len(s) : Find(From(s, i), FollowUpPrefix) = 1}
TagsWhole(s) == \A i \in TagsAt(s) : Find(From(s, i), FollowUpTag) = 1

AllocateCalls(p, count) ==
  [p EXCEPT !.nextId = @ + count,
            !.out = @ \o [n \in 1..count |-> Call(Allocated(p.nextId + n - 1))]]

AtFollowUp(p) ==
  IF ~TagsWhole(p.pending) /\ ~p.final /\ Len(p.pending) <= MaxFollowUp THEN Stop(p)
  ELSE AllocateCalls([p EXCEPT !.pending = <<>>, !.atStart = FALSE],
                     IF TagsWhole(p.pending) THEN Cardinality(TagsAt(p.pending)) ELSE 0)

(* No whole marker: a bare object at the start of the stream is a call, an *)
(* end that could still become a marker is held back, the rest is text.    *)
AtPlain(p, held) ==
  IF p.atStart /\ IsObject(Trim(p.pending))
  THEN ParseCall([p EXCEPT !.pending = <<>>, !.atStart = FALSE], Trim(p.pending))
  ELSE IF held = Len(p.pending) THEN Stop(p)
  ELSE IF held > 0 THEN EmitBefore(p, Len(p.pending) - held + 1)
  ELSE Stop(EmitBefore(p, Len(p.pending) + 1))

DrainNormal(p, result, fence, inline, tag) ==
  IF result > 1 THEN EmitBefore(p, result)
  ELSE IF result = 1 THEN AtResult(p, Find(p.pending, <<Newline>>))
  ELSE IF fence > 1 THEN EmitBefore(p, fence)
  ELSE IF fence = 1 THEN Enter(p, Len(CallFence), "block")
  ELSE IF inline > 1 THEN EmitBefore(p, inline)
  ELSE IF inline = 1 THEN AtInlineCall(p)
  ELSE IF tag > 1 THEN EmitBefore(p, tag)
  ELSE IF tag = 1 THEN AtFollowUp(p)
  ELSE AtPlain(p, PartialSuffix(p.pending, CallMarkers))

(* An ignored line or block, up to its end; a stream that ends inside one *)
(* drops it.                                                              *)
Leave(p, rest) == [p EXCEPT !.pending = rest, !.mode = "normal"]
Unfinished(p) == Stop(IF p.final THEN Leave(p, <<>>) ELSE p)

DrainLine(p, newline) ==
  IF newline = 0 THEN Unfinished(p) ELSE Leave(p, From(p.pending, newline + 1))

DrainFencedResult(p, close) ==
  IF p.pending = Fence THEN Leave(p, <<>>)
  ELSE IF close = 0 THEN Unfinished(p)
  ELSE Leave(p, StripNewlines(From(p.pending, close + Len(Fence) + 1)))

DrainInlineCall(p, newline) ==
  IF newline = 0 THEN Unfinished(p)
  ELSE ParseCall(Leave(p, StripNewlines(From(p.pending, newline + 1))),
                 Before(p.pending, newline))

(* The body is taken from pending at every call, so a closing fence that   *)
(* arrives in two pieces is never seen whole.                              *)
Absorb(p, piece) ==
  LET body == p.body \o piece
      over == p.oversized \/ Len(body) > MaxToolBlock
  IN  [p EXCEPT !.oversized = over, !.body = IF over THEN <<>> ELSE body]

DrainBlock(p, close) ==
  IF close = 0
  THEN Stop([Absorb(p, p.pending) EXCEPT !.pending = <<>>,
                                         !.mode = IF p.final THEN "normal" ELSE @])
  ELSE ParseCall(Leave(p, StripNewlines(From(p.pending, close + Len(Fence)))),
                 IF p.oversized THEN <<>> ELSE Trim(p.body \o Before(p.pending, close)))

DrainStep(p) ==
  IF p.pending = <<>> THEN Stop(IF p.mode = "normal" THEN p ELSE Unfinished(p))
  ELSE IF p.mode = "normal"
  THEN DrainNormal(p, FindAny(p.pending, ResultMarkers), Find(p.pending, CallFence),
                   Find(p.pending, CallInline), Find(p.pending, FollowUpPrefix))
  ELSE IF p.mode = "block" THEN DrainBlock(p, Find(p.pending, Fence))
  ELSE IF p.mode = "inline_call" THEN DrainInlineCall(p, Find(p.pending, <<Newline>>))
  ELSE IF p.mode = "result" /\ p.fenced
  THEN DrainFencedResult(p, Find(p.pending, <<Newline>> \o Fence))
  ELSE DrainLine(p, Find(p.pending, <<Newline>>))

(* Every iteration stops or takes a token at least (proved: DrainStepTakes), so  *)
(* the loop never needs more of them than this.                          *)
Drain(p) ==
  LET turns == Len(p.pending) + 1
      run[n \in 0..turns] ==
        IF n = 0 THEN p
        ELSE LET before == run[n - 1] IN IF before.more THEN DrainStep(before) ELSE before
  IN  run[turns]

FeedProtocol(p, chunk) ==
  IF chunk = <<>> THEN p
  ELSE IF Len(p.pending) + Len(chunk) > MaxPending THEN Leave(p, <<>>)
  ELSE Drain([p EXCEPT !.pending = @ \o chunk, !.more = TRUE])

FinishProtocol(p) == Leave(Drain([p EXCEPT !.final = TRUE, !.more = TRUE]), <<>>)

-------------------------------------------------------------------------------
(* ReasoningDetector: splits the leading <think> block off the answer. *)

NewReasoning(supported) ==
  [phase |-> IF supported THEN "detecting" ELSE "response", pending |-> <<>>,
   supported |-> supported, out |-> <<>>]

Say(r, kind, t) ==
  IF t = <<>> THEN r ELSE [r EXCEPT !.out = Append(@, [kind |-> kind, toks |-> t])]

(* The text before position i leaves, what follows is held back. *)
SayBefore(r, kind, s, i) == Say([r EXCEPT !.pending = From(s, i)], kind, Before(s, i))

FeedBody(r, s, close) ==
  IF close = 0
  THEN SayBefore(r, "reasoning", s, Len(s) - PartialSuffix(s, {ThinkClose}) + 1)
  ELSE Say(Say([r EXCEPT !.phase = "response", !.pending = <<>>],
               "reasoning", Before(s, close)),
           "text", From(s, close + Len(ThinkClose)))

(* What is held back when the phase becomes response stays in pending: *)
(* later text passes it, and finish emits it last.                     *)
FeedDetecting(r, s, held) ==
  IF Opening(s, ThinkOpen) > 0
  THEN LET body == From(s, Opening(s, ThinkOpen) + 1)
       IN  FeedBody([r EXCEPT !.phase = "reasoning", !.pending = <<>>], body, Find(body, ThinkClose))
  ELSE IF Len(s) <= held THEN [r EXCEPT !.pending = s]
  ELSE SayBefore([r EXCEPT !.phase = "response"], "text", s, Len(s) - held + 1)

FeedReasoning(r, delta) ==
  IF delta = <<>> \/ r.phase = "completed" THEN r
  ELSE IF r.phase = "response" THEN Say(r, "text", delta)
  ELSE IF r.phase = "detecting"
  THEN FeedDetecting(r, r.pending \o delta, PartialSuffix(r.pending \o delta, ThinkOpen))
  ELSE FeedBody(r, r.pending \o delta, Find(r.pending \o delta, ThinkClose))

FinishReasoning(r) ==
  IF r.phase = "completed" THEN r
  ELSE Say([r EXCEPT !.phase = "completed", !.pending = <<>>],
           IF r.phase = "reasoning" THEN "reasoning" ELSE "text", r.pending)

-------------------------------------------------------------------------------
(* GeminiSemanticStream *)

NewStream(supported) ==
  [protocol |-> NewProtocol, reasoning |-> NewReasoning(supported), ids |-> {},
   completed |-> FALSE, out |-> <<>>]

(* project_tool_call: an id is projected once. *)
ProjectCall(s, id) ==
  IF id \in s.ids THEN s
  ELSE [s EXCEPT !.ids = @ \cup {id}, !.out = Append(@, Call(id))]

(* The reasoning detector's events are the stream's. *)
Heard(s, r) == [s EXCEPT !.reasoning = [r EXCEPT !.out = <<>>], !.out = @ \o r.out]
ToReasoning(s, t) == Heard(s, FeedReasoning(s.reasoning, t))

HasMarker(t) == \E m \in CallMarkers : HasRun(t, m)

(* project_protocol_text: text in which a marker survived is parsed once *)
(* more by a fresh detector; a marker that survives that is dropped.     *)
ProjectResidue(s, e) ==
  IF e.kind = "call" THEN ProjectCall(s, e.id)
  ELSE IF HasMarker(e.toks) THEN s
  ELSE ToReasoning(s, e.toks)

ProjectResidues(s, events) ==
  LET after[n \in 0..Len(events)] ==
        IF n = 0 THEN s ELSE ProjectResidue(after[n - 1], events[n])
  IN  after[Len(events)]

ProjectText(s, t) ==
  IF HasMarker(t)
  THEN ProjectResidues(s, FinishProtocol(FeedProtocol(NewProtocol, t)).out)
  ELSE ToReasoning(s, t)

Project(s, e) == IF e.kind = "call" THEN ProjectCall(s, e.id) ELSE ProjectText(s, e.toks)

ProjectAll(s, events) ==
  LET after[n \in 0..Len(events)] ==
        IF n = 0 THEN s ELSE Project(after[n - 1], events[n])
  IN  after[Len(events)]

Parsed(s, p) == ProjectAll([s EXCEPT !.protocol = [p EXCEPT !.out = <<>>]], p.out)

(* feed: text through the detectors, structured calls past them; of the *)
(* metadata only the usage counts.                                      *)
FeedText(s, t) == Parsed(s, FeedProtocol(s.protocol, t))

FeedItem(s, item) ==
  IF s.completed THEN s
  ELSE IF item.kind = "text" THEN FeedText(s, item.toks)
  ELSE IF item.kind = "call" THEN ProjectCall(s, item.id)
  ELSE IF item.of = "usage" THEN [s EXCEPT !.out = Append(@, [kind |-> "usage"])]
  ELSE s

(* finish: the protocol detector first, then the reasoning detector. *)
Complete(s) == [Heard(s, FinishReasoning(s.reasoning)) EXCEPT !.completed = TRUE]
FinishStream(s) ==
  IF s.completed THEN s ELSE Complete(Parsed(s, FinishProtocol(s.protocol)))

===============================================================================
