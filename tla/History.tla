------------------------------ MODULE History ------------------------------
(***************************************************************************)
(* The conversation history of a session (agent-runtime state/history.rs)  *)
(* through the turns that write it: the user message and the entries the   *)
(* agent loop pushes, the compaction and the prompt window of every model  *)
(* round, the commit and the file.                                         *)
(*                                                                         *)
(* A history keeps its entries twice, as structured entries ("canonical")  *)
(* and as the text of messages ("legacy"), and a dirty flag says which one *)
(* is read.  Text is a sequence of lines; a line is plain, or one of the   *)
(* lines the two grammars of a tool call are made of.  A plain line is     *)
(* known by its length only.                                               *)
(***************************************************************************)
EXTENDS Integers, FiniteSets, FiniteSetsExt, Sequences, SequencesExt

CONSTANTS UserTexts,      \* texts of user messages: any lines, call grammar included
          Texts,          \* texts of model answers: lines without call grammar
          Ids, Names,     \* ids the model gives its calls, tool names
          Words,          \* all ids and names, those in files and user texts among them
          Files,          \* histories found on disk, as text messages
          MaxMessages, MaxPromptChars,            \* prompt window
          Threshold, Emergency, PreserveTurns,    \* compaction
          MaxRounds, MaxCalls,                    \* per turn, per round
          MaxLog                                  \* bound: entries of a session

ASSUME LimitsAssumption ==
  /\ {MaxMessages, PreserveTurns} \subseteq Nat \ {0}
  /\ {MaxPromptChars, Threshold, Emergency, MaxRounds, MaxCalls, MaxLog} \subseteq Nat

VARIABLES live, kept,     \* the committed history, and what was said in it
          mine, said,     \* the running turn's copy, and what was said in it
          file,           \* what a load of the session file returns
          phase, round, overflow, seen, waiting, prompt

vars == <<live, kept, mine, said, file, phase, round, overflow, seen, waiting, prompt>>

(***************************************************************************)
(* Lines, entries and messages.                                            *)
(***************************************************************************)
Plain(size) == [line |-> "plain", size |-> size]
Open == [line |-> "open"]
Close == [line |-> "close"]
Payload(id, name) == [line |-> "payload", id |-> id, name |-> name]
Inline(id, name) == [line |-> "inline", id |-> id, name |-> name]

\* A call id: what the model sent, and the round it was renamed in (0: not renamed).
Id(upstream, renamed) == [upstream |-> upstream, renamed |-> renamed]
NoId == Id("", 0)

Entry(kind, text, id, name, ok) ==
  [kind |-> kind, text |-> text, id |-> id, name |-> name, ok |-> ok]
User(text) == Entry("user", text, NoId, "", TRUE)
Assistant(text) == Entry("assistant", text, NoId, "", TRUE)
ToolCall(id, name) == Entry("call", <<>>, id, name, TRUE)
ToolResult(id, name, text, ok) == Entry("result", text, id, name, ok)

\* The header of a result message; Unread is one parse_tool_result cannot read.
Header(id, name, ok) == [id |-> id, name |-> name, ok |-> ok]
Unread == Header(NoId, "", TRUE)

\* The kind of a message is its role.
Message(kind, lines, header) == [kind |-> kind, lines |-> lines, header |-> header]

ToLegacy(e) ==
  CASE e.kind = "user" -> Message("user", e.text, Unread)
    [] e.kind = "assistant" -> Message("assistant", e.text, Unread)
    [] e.kind = "call" ->
         Message("assistant", <<Open, Payload(e.id, e.name), Close>>, Unread)
    [] e.kind = "result" -> Message("tool", e.text, Header(e.id, e.name, e.ok))

\* The sum of the numbers of "sizes" at the positions in "at"
SumOver(sizes, at) ==
  LET upTo[n \in 0..Len(sizes)] ==
        IF n = 0 THEN 0 ELSE upTo[n - 1] + (IF n \in at THEN sizes[n] ELSE 0)
  IN  upTo[Len(sizes)]

SumOf(sizes) == SumOver(sizes, DOMAIN sizes)

LineSize(l) == IF l.line = "plain" THEN l.size ELSE 1

Size(m) ==
  SumOf([i \in DOMAIN m.lines |-> LineSize(m.lines[i])]) + (IF m.kind = "tool" THEN 1 ELSE 0)

(***************************************************************************)
(* Reading entries back from text.                                         *)
(***************************************************************************)
\* entries read, calls an id-less result may belong to, plain lines not yet
\* flushed, lines taken for a fenced call
Reader == [entries |-> <<>>, pending |-> <<>>, plain |-> <<>>, taken |-> <<>>]

Flush(r) ==
  IF r.plain = <<>> THEN r
  ELSE [r EXCEPT !.entries = Append(@, Assistant(r.plain)), !.plain = <<>>]

Recognised(r, id, name) ==
  [Flush(r) EXCEPT !.entries = Append(@, ToolCall(id, name)),
                   !.pending = Append(@, [id |-> id, name |-> name]),
                   !.taken = <<>>]

KeepLine(r, l) == [r EXCEPT !.plain = Append(@, l), !.taken = <<>>]

\* A fence takes the two lines after it; when they are no call they are lost.
ReadLine(r, l) ==
  CASE Len(r.taken) = 1 -> [r EXCEPT !.taken = Append(@, l)]
    [] Len(r.taken) = 2 ->
         IF l = Close /\ r.taken[2].line = "payload"
         THEN Recognised(r, r.taken[2].id, r.taken[2].name)
         ELSE KeepLine(r, Open)
    [] r.taken = <<>> /\ l = Open -> [r EXCEPT !.taken = <<l>>]
    [] r.taken = <<>> /\ l.line = "inline" -> Recognised(r, l.id, l.name)
    [] OTHER -> KeepLine(r, l)

ReadLines(r, lines) ==
  LET upTo[n \in 0..Len(lines)] ==
        IF n = 0 THEN r ELSE ReadLine(upTo[n - 1], lines[n])
  IN  upTo[Len(lines)]

EndOfText(r) == Flush(IF r.taken = <<>> THEN r ELSE KeepLine(r, Open))

ReadToolResult(m) ==
  IF m.header = Unread THEN ToolResult(NoId, "legacy", m.lines, TRUE)
  ELSE ToolResult(m.header.id, m.header.name, m.lines, m.header.ok)

\* A result without an id is given to the last call of that tool still open.
Resolve(r, result) ==
  LET open == {i \in DOMAIN r.pending : r.pending[i].name = result.name} IN
  IF result.id = NoId /\ result.name # "legacy" /\ open # {}
  THEN [r EXCEPT !.entries = Append(@, [result EXCEPT !.id = r.pending[Max(open)].id]),
                 !.pending = RemoveAt(@, Max(open))]
  ELSE [r EXCEPT !.entries = Append(@, result)]

ReadMessage(r, m) ==
  CASE m.kind = "user" -> [r EXCEPT !.entries = Append(@, User(m.lines))]
    [] m.kind = "assistant" -> EndOfText(ReadLines(r, m.lines))
    [] m.kind = "tool" -> Resolve(r, ReadToolResult(m))

ReadAll(r, legacy) ==
  LET upTo[n \in 0..Len(legacy)] ==
        IF n = 0 THEN r ELSE ReadMessage(upTo[n - 1], legacy[n])
  IN  upTo[Len(legacy)]

NormalizeLegacy(legacy) == ReadAll(Reader, legacy).entries

(***************************************************************************)
(* The history and its operations.                                         *)
(***************************************************************************)
FromLegacy(legacy) ==
  [canonical |-> NormalizeLegacy(legacy), legacy |-> legacy, dirty |-> FALSE]

Entries(h) == IF h.dirty THEN NormalizeLegacy(h.legacy) ELSE h.canonical

\* push((Role, String)): text only
PushText(h, m) == [h EXCEPT !.legacy = Append(@, m), !.dirty = TRUE]

\* push_canonical: both forms
PushEntry(h, e) ==
  [canonical |-> Append(h.canonical, e), legacy |-> Append(h.legacy, ToLegacy(e)),
   dirty |-> FALSE]

PushAll(h, entries) ==
  LET upTo[n \in 0..Len(entries)] ==
        IF n = 0 THEN h ELSE PushEntry(upTo[n - 1], entries[n])
  IN  upTo[Len(entries)]

\* deref_mut, taken to pass the messages to compact_messages
Touch(h) == [h EXCEPT !.dirty = TRUE]

\* A commit that keeps the structured entries it has.
NormalizedNever(h) == [h EXCEPT !.dirty = FALSE]

Normalized(h) == [h EXCEPT !.canonical = NormalizeLegacy(h.legacy), !.dirty = FALSE]

\* Written to the file and read back
Saved(h) ==
  [canonical |-> Entries(h),
   legacy |-> [i \in DOMAIN Entries(h) |-> ToLegacy(Entries(h)[i])],
   dirty |-> FALSE]

(***************************************************************************)
(* Turns of a history, of messages or of entries: a turn starts at the     *)
(* first item and at each user item.                                       *)
(***************************************************************************)
Turns(items) ==
  LET upTo[n \in 0..Len(items)] ==
        IF n = 0 THEN <<>>
        ELSE LET turns == upTo[n - 1] IN
             IF turns = <<>> \/ items[n].kind = "user" THEN Append(turns, <<items[n]>>)
             ELSE [turns EXCEPT ![Len(turns)] = Append(@, items[n])]
  IN  upTo[Len(items)]

\* The items of the turns not in "gone"
WithoutTurns(turns, gone) ==
  LET upTo[n \in 0..Len(turns)] ==
        IF n = 0 THEN <<>>
        ELSE IF n \in gone THEN upTo[n - 1] ELSE upTo[n - 1] \o turns[n]
  IN  upTo[Len(turns)]

TurnSizes(turns) ==
  [t \in DOMAIN turns |-> SumOf([i \in DOMAIN turns[t] |-> Size(turns[t][i])])]

\* The turns that may go
Older(sizes) == {t \in DOMAIN sizes : t + PreserveTurns <= Len(sizes)}

\* The oldest turns go first.
EvictedOldest(sizes, target) ==
  {t \in Older(sizes) : SumOf(sizes) - SumOver(sizes, 1..(t-1)) > target}

\* compact_messages: the largest of the older turns go first, until the rest fits.
EvictedOf(sizes, target) ==
  LET before(t) == {u \in Older(sizes) :
                      sizes[u] > sizes[t] \/ (sizes[u] = sizes[t] /\ u < t)}
  IN  {t \in Older(sizes) : SumOf(sizes) - SumOver(sizes, before(t)) > target}

Evicted(legacy, target) == EvictedOf(TurnSizes(Turns(legacy)), target)

Compact(h, target) ==
  [h EXCEPT !.legacy = WithoutTurns(Turns(@), Evicted(@, target))]

(***************************************************************************)
(* build_prompt: the entries from the start of a turn on.                  *)
(***************************************************************************)
SizeFrom(entries, start) ==
  SumOver([i \in DOMAIN entries |-> Size(ToLegacy(entries[i]))], start..Len(entries))

\* Where the turns start, in order
TurnStarts(entries) ==
  LET upTo[n \in 0..Len(entries)] ==
        IF n = 0 THEN <<>>
        ELSE IF n = 1 \/ entries[n].kind = "user" THEN Append(upTo[n - 1], n)
        ELSE upTo[n - 1]
  IN  upTo[Len(entries)]

\* Binary search of the first turn that fits, among the last MaxMessages
FirstFitting(starts, fitting) ==
  LET search[range \in (1..Len(starts)) \X (1..Len(starts))] ==
        LET lo == range[1]
            hi == range[2]
            mid == lo + ((hi - lo) \div 2)
        IN  IF lo >= hi THEN lo
            ELSE search[IF starts[mid] \in fitting THEN <<lo, mid>> ELSE <<mid + 1, hi>>]
      first == IF Len(starts) > MaxMessages THEN Len(starts) - MaxMessages + 1 ELSE 1
  IN  starts[search[<<first, Len(starts)>>]]

\* A history that just fits is cut.
WindowStrict(entries) ==
  LET fitting == {s \in DOMAIN entries : SizeFrom(entries, s) < MaxPromptChars} IN
  IF entries = <<>> THEN <<>>
  ELSE SubSeq(entries, FirstFitting(TurnStarts(entries), fitting), Len(entries))

Window(entries) ==
  LET fitting == {s \in DOMAIN entries : SizeFrom(entries, s) <= MaxPromptChars} IN
  IF entries = <<>> THEN <<>>
  ELSE SubSeq(entries, FirstFitting(TurnStarts(entries), fitting), Len(entries))

(***************************************************************************)
(* What the constants hold.                                                *)
(***************************************************************************)
AnyId == [upstream : Words, renamed : Nat]
Lines == [line : {"plain"}, size : Nat] \cup {Open, Close}
           \cup [line : {"payload", "inline"}, id : AnyId, name : Words]
Headers == [id : AnyId, name : Words, ok : BOOLEAN]
Messages == [kind : {"user", "assistant", "tool"}, lines : Seq(Lines), header : Headers]

\* Text in which nothing starts a call, and not empty
Prose(text) ==
  /\ text # <<>>
  /\ \A i \in DOMAIN text : text[i] # Open /\ text[i].line # "inline"

\* canonicalize_tool_calls refuses an empty id and blank text is not pushed.  That the
\* text of a round starts no call is a limit of this model: the stream takes call
\* syntax out of each event, but the text of a round is the events joined
\* (model_projection.rs:118), and those can join to a call.  Such a round is not
\* modelled.
ASSUME TextsAssumption ==
  /\ Ids \cup Names \cup {"", "legacy"} \subseteq Words
  /\ "" \notin Ids
  /\ UserTexts \subseteq Seq(Lines)
  /\ \A text \in Texts : text \in Seq(Lines) /\ Prose(text)

\* An entry that text can hold: the text of an answer starts no call, a call has an
\* id, and so has a result unless it was of no known form.
Settled(e) ==
  /\ e.kind = "assistant" => Prose(e.text)
  /\ e.kind = "call" => e.id # NoId
  /\ e.kind = "result" /\ e.id = NoId => e.name = "legacy"

\* Of the calls among the first n entries, the last one with this id is of this tool.
Called(entries, n, id, name) ==
  \E c \in 1..n :
    /\ entries[c].kind = "call" /\ entries[c].id = id /\ entries[c].name = name
    /\ \A k \in c + 1..n : ~(entries[k].kind = "call" /\ entries[k].id = id)

Paired(entries) ==
  \A j \in DOMAIN entries : entries[j].kind = "result" /\ entries[j].id # NoId =>
    Called(entries, j - 1, entries[j].id, entries[j].name)

\* Files are what earlier versions have written of turns like those below: each
\* turn can be read, and its results find their calls in it.
ASSUME FilesAssumption ==
  \A f \in Files :
    /\ f \in Seq(Messages)
    /\ \A t \in DOMAIN Turns(f) :
         LET entries == NormalizeLegacy(Turns(f)[t]) IN
         /\ entries # <<>>
         /\ \A i \in DOMAIN entries : Settled(entries[i])
         /\ Paired(entries)

(***************************************************************************)
(* The turns.                                                              *)
(***************************************************************************)
Init ==
  /\ live \in {FromLegacy(f) : f \in Files}
  /\ file = live
  /\ kept = Entries(live)
  /\ mine = live
  /\ said = kept
  /\ phase = "idle"
  /\ round = 0
  /\ overflow = FALSE
  /\ seen = {}
  /\ waiting = <<>>
  /\ prompt = <<>>

Committed == <<live, kept, file>>

\* run_turn pushes the user message on its copy of the session.
StartTurn(text) ==
  /\ phase = "idle" /\ Len(kept) < MaxLog
  /\ mine' = PushText(live, Message("user", text, Unread))
  /\ said' = Append(kept, User(text))
  /\ phase' = "round"
  /\ UNCHANGED <<Committed, round, overflow, seen, waiting, prompt>>

CompactTo(target) ==
  /\ mine' = Compact(Touch(mine), target)
  /\ said' = WithoutTurns(Turns(said), Evicted(mine.legacy, target))

\* The top of a round: compaction, then the prompt of the request.
BuildPrompt ==
  /\ phase = "round" /\ round < MaxRounds
  /\ CompactTo(Threshold)
  /\ prompt' = Window(Entries(mine'))
  /\ phase' = "prompted"
  /\ UNCHANGED <<Committed, round, overflow, seen, waiting>>

\* The provider refuses the prompt as too long: one emergency compaction.
ContextError ==
  /\ phase = "prompted" /\ ~overflow
  /\ CompactTo(Emergency)
  /\ overflow' = TRUE
  /\ prompt' = <<>>
  /\ phase' = "round"
  /\ round' = round + 1
  /\ UNCHANGED <<Committed, seen, waiting>>

\* Entries pushed one after the other by the loop
Say(entries) ==
  /\ Len(said) + Len(entries) <= MaxLog
  /\ mine' = PushAll(mine, entries)
  /\ said' = said \o entries

Answered ==
  /\ phase = "prompted"
  /\ prompt' = <<>>
  /\ overflow' = FALSE
  /\ UNCHANGED Committed

FinalText(text) ==
  /\ Answered
  /\ Say(<<Assistant(text)>>)
  /\ phase' = "done"
  /\ UNCHANGED <<round, seen, waiting>>

\* canonicalize_tool_calls: an id of an earlier round is renamed after this one.
Canonical(upstream) ==
  IF Id(upstream, 0) \in seen THEN Id(upstream, round) ELSE Id(upstream, 0)

RoundCalls ==
  {calls \in SeqOf(Ids \X Names, MaxCalls) :
     \A i, j \in DOMAIN calls : i # j => calls[i][1] # calls[j][1]}

CallEntries(calls) == [i \in DOMAIN calls |-> ToolCall(Canonical(calls[i][1]), calls[i][2])]

\* The text of a round is pushed unless it is blank.
TextEntries(text) == IF text = <<>> THEN <<>> ELSE <<Assistant(text)>>

Calls(text, calls) ==
  /\ Answered
  /\ calls # <<>>
  /\ Say(TextEntries(text) \o CallEntries(calls))
  /\ seen' = seen \cup {c.id : c \in Range(CallEntries(calls))}
  /\ waiting' = CallEntries(calls)
  /\ phase' = "tools"
  /\ UNCHANGED round

ResultOf(call, ok) == ToolResult(call.id, call.name, <<Plain(1)>>, ok)

Result(ok) ==
  /\ phase = "tools"
  /\ Say(<<ResultOf(Head(waiting), ok)>>)
  /\ waiting' = Tail(waiting)
  /\ IF Len(waiting) = 1 THEN phase' = "round" /\ round' = round + 1
     ELSE UNCHANGED <<phase, round>>
  /\ UNCHANGED <<Committed, overflow, seen, prompt>>

\* The user's answer to a terminal action is pushed unless it is blank.
AnswerEntries(answer) == IF answer = <<>> THEN <<>> ELSE <<User(answer)>>

\* A terminal action (the call "id") whose user's answer opens the next round.
FollowUp(text, id, answer) ==
  /\ Answered
  /\ Say(TextEntries(text) \o AnswerEntries(answer))
  /\ seen' = seen \cup {Canonical(id)}
  /\ phase' = "round"
  /\ round' = round + 1
  /\ UNCHANGED waiting

\* Calls beside a terminal action: the first one's result is refused before the
\* call is recorded (TurnPipeline's SkipResult), and the turn fails.
FollowUpRefused(text) ==
  /\ Answered
  /\ Say(TextEntries(text))
  /\ phase' = "done"
  /\ UNCHANGED <<round, seen, waiting>>

TurnOver ==
  /\ phase' = "idle"
  /\ round' = 0
  /\ overflow' = FALSE
  /\ seen' = {}
  /\ waiting' = <<>>
  /\ prompt' = <<>>

\* end_turn, whatever the turn's outcome and wherever it stopped
Commit ==
  /\ phase # "idle"
  /\ live' = Normalized(mine)
  /\ file' = Saved(Normalized(mine))
  /\ mine' = Normalized(mine)
  /\ kept' = said
  /\ UNCHANGED said
  /\ TurnOver

\* The commit is refused or cannot be written: the turn's copy is dropped.
CommitLost ==
  /\ phase # "idle"
  /\ mine' = live
  /\ said' = kept
  /\ UNCHANGED Committed
  /\ TurnOver

\* The session is read from its file again.
Reload ==
  /\ phase = "idle"
  /\ live' = file
  /\ mine' = file
  /\ UNCHANGED <<kept, said, file, phase, round, overflow, seen, waiting, prompt>>

Next ==
  \/ \E text \in UserTexts : StartTurn(text)
  \/ BuildPrompt
  \/ ContextError
  \/ \E text \in Texts : FinalText(text)
  \/ \E text \in Texts \cup {<<>>}, calls \in RoundCalls : Calls(text, calls)
  \/ \E ok \in BOOLEAN : Result(ok)
  \/ \E text \in Texts \cup {<<>>}, id \in Ids, answer \in UserTexts \cup {<<>>} :
       FollowUp(text, id, answer)
  \/ \E text \in Texts \cup {<<>>} : FollowUpRefused(text)
  \/ Commit
  \/ CommitLost
  \/ Reload

Spec == Init /\ [][Next]_vars

(***************************************************************************)
(* Properties.                                                             *)
(***************************************************************************)
\* The text form and the dirty flag never cost an entry: the prompt of a round
\* ends with what was said and was not compacted away, in order, and a committed
\* history, in memory or from its file, is what was said in it.
PromptFaithful ==
  /\ phase = "prompted" => Entries(mine) = said /\ IsSuffix(prompt, said)
  /\ phase = "idle" => Entries(live) = kept /\ Entries(file) = kept

\* What compact_messages may do to "old": whole turns go, only when the history is
\* over the target, never one of the last PreserveTurns, none smaller than one that
\* stays, no more than needed, and enough unless every older turn is gone.
CompactsTo(old, new, target) ==
  LET turns == Turns(old)
      sizes == TurnSizes(turns)
  IN  \E gone \in SUBSET Older(sizes) :
        /\ new = WithoutTurns(turns, gone)
        /\ \A t \in gone, u \in Older(sizes) \ gone : sizes[t] >= sizes[u]
        /\ \A t \in gone : SumOver(sizes, DOMAIN sizes \ (gone \ {t})) > target \/
             \E u \in gone : sizes[u] < sizes[t]
        /\ SumOver(sizes, DOMAIN sizes \ gone) <= target \/ gone = Older(sizes)

\* Each compaction, the one of every round and the emergency one, is such a step.
CompactionRight ==
  [][/\ phase = "round" /\ phase' = "prompted" => CompactsTo(mine.legacy, mine'.legacy, Threshold)
     /\ phase = "prompted" /\ phase' = "round" /\ overflow'
          => CompactsTo(mine.legacy, mine'.legacy, Emergency)]_vars

\* The window of the prompt is the longest that starts at a turn, holds at most
\* MaxMessages turns and fits; the last turn is sent whole even if it does not.
\* It never shows a result whose call it left out.
WindowRight ==
  phase = "prompted" =>
    LET starts == {s \in DOMAIN said : s = 1 \/ said[s].kind = "user"}
        fits(s) == /\ Cardinality({t \in starts : t >= s}) <= MaxMessages
                   /\ SizeFrom(said, s) <= MaxPromptChars
        right == {s \in starts : fits(s)} \cup {Max(starts)}
    IN  /\ prompt = SubSeq(said, Min(right), Len(said))
        /\ \A i \in DOMAIN prompt :
             prompt[i].kind = "result" /\ prompt[i].id # NoId =>
               \E j \in 1..(i-1) : prompt[j].kind = "call" /\ prompt[j].id = prompt[i].id
=============================================================================
