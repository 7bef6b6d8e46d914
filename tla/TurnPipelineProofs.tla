-------------------------- MODULE TurnPipelineProofs --------------------------
(***************************************************************************)
(* Proofs about TurnPipeline for any calls, actions and limits.            *)
(*                                                                         *)
(* TypeInv says which call a location is about; ControlInv what a location *)
(* says of the journal, the lease, the history and the executions begun;   *)
(* JournalInv what is in the channel and what is still to come of it; and  *)
(* CardInv what the client was shown of each call, or will be.  The last   *)
(* one carries the refinement of PromptContract.                           *)
(***************************************************************************)
EXTENDS TurnPipeline, TLAPS

(* Locations of the call at the head of the calls to execute.              *)
Calling == {"gate", "deciding", "listening", "unheard", "execute", "running", "returned",
            "result"}

CurrentThere ==
  /\ pc \in Calling \union {"announce", "skip_result"} => executable # <<>>
  /\ pc = "asking" => offered # <<>>

TypeInv == TypeOK /\ CurrentThere

Opening == {"begin", "upload", "precheck", "refused", "precancel", "run", "start",
            "abort_start"}
Rounds  == {"round", "request", "stream", "reasoning", "text", "close", "wrap", "judge",
            "sort", "asking", "skip", "skip_result", "conclude", "complete", "budget",
            "call", "announce"} \union Calling
Ending  == {"finish", "backstop", "join", "done"}

(* The journal is open through the rounds; once the turn only has to be    *)
(* finalized there is nothing left to say, or nobody to hear it.           *)
PhaseKept ==
  /\ pc \in Opening => integ.phase = "NotStarted"
  /\ pc \in Rounds \union {"precancelled"} => integ.phase = "Active"
  /\ pc \in {"abort_end", "exit"} => integ.phase # "Terminal"
  /\ pc \in Ending => integ.phase # "Active" \/ projector # "running"

(* The result is set where the turn leaves its rounds, and a turn that     *)
(* completes goes straight to its finalization.                            *)
ResultSet ==
  /\ pc \in (Opening \union Rounds) \ {"close"} => result = "none"
  /\ result = "ok" => pc \in Ending

(* end_turn is called where a turn with a session passes "finish", or      *)
(* before its only events when its limits were refused.                    *)
LeaseKept ==
  /\ pc = "begin" => ~leased
  /\ pc \in Rounds \union {"upload", "precheck", "precancel", "precancelled", "run", "start",
                           "exit", "settle", "finish", "refused"} => leased
  /\ pc \in {"backstop", "join", "done"} => finishes = IF leased THEN 1 ELSE 0
  /\ pc \in {"abort_start", "abort_end"} => finishes = 0 \/ (finishes = 1 /\ leased)
  /\ pc \notin {"abort_start", "abort_end", "backstop", "join", "done"} => finishes = 0
  /\ response # "none" => pc = "done" /\ projector # "running"

(* Calls are recorded when the round executes them and answered one by one *)
Executing == Calling \union {"call", "announce"}

HistoryKept ==
  /\ answered \subseteq asked
  /\ pc \in Executing => asked = answered \union Range(executable)
  /\ pc \in (Opening \union Rounds) \ (Executing \union {"close"}) => asked = answered
  /\ result = "ok" => asked = answered

(* After an execution that began with the flag up the turn can only end.   *)
LateOnce ==
  /\ late <= 1
  /\ late = 1 => signal /\ pc \in {"running", "returned", "exit", "settle"} \union Ending

FlowInv == ResultSet /\ LeaseKept /\ HistoryKept /\ LateOnce

ControlInv == TypeInv /\ FlowInv /\ PhaseKept

(* The terminal event is the last of the channel and the one of the result *)
Told(kind) == projector = kind \/ \E i \in 1..Len(queue) : queue[i].kind = kind

TerminalOf(r) ==
  IF r = "ok" THEN "turn_completed" ELSE TerminalFor(r)

TerminalLast ==
  /\ integ.phase # "Terminal" => \A kind \in TerminalEvents : ~Told(kind)
  /\ \A kind \in TerminalEvents : Told(kind) => kind = TerminalOf(result)
  /\ projector = "running" =>
       \A i \in 1..Len(queue) : queue[i].kind \in TerminalEvents => i = Len(queue)

JournalInv == ControlInv /\ SequenceUnbroken /\ TerminalLast /\ ResponseAgrees

Rank(shown) ==
  CASE shown = "pending" -> 1 [] shown = "running" -> 2 [] shown = "done" -> 3 [] OTHER -> 0

(* The client sees the call so, or will when the channel is empty.         *)
Shown(c, shown) ==
  \/ card[c] = shown
  \/ \E i \in 1..Len(queue) : queue[i].call = c /\ queue[i].shown = shown

Views == {"pending", "running", "done"}

(* What the channel holds for a card only advances it, and shows a call    *)
(* running only after it showed it pending.                                *)
CardsAdvance ==
  \A i \in 1..Len(queue) : queue[i].shown # "none" =>
    /\ queue[i].call \in Calls /\ queue[i].kind \in ToolEvents
    /\ Rank(card[queue[i].call]) < Rank(queue[i].shown)
    /\ \A j \in 1..Len(queue) :
         j < i /\ queue[j].call = queue[i].call => Rank(queue[j].shown) < Rank(queue[i].shown)
    /\ queue[i].shown = "running" =>
         \/ card[queue[i].call] = "pending"
         \/ \E j \in 1..Len(queue) :
              j < i /\ queue[j].call = queue[i].call /\ queue[j].shown = "pending"

(* What is shown of a call, by its phase in the journal ...                *)
CardsFollowTools ==
  \A c \in Calls :
    /\ integ.tools[c] = "unknown" => \A shown \in Views : ~Shown(c, shown)
    /\ integ.tools[c] \in {"result", "denied"} => Shown(c, "done")

(* ... and by the location, of the call the location is about.             *)
CurrentShown ==
  /\ pc = "skip_result" => integ.tools[Current] = "requested"
  /\ pc \in {"gate", "deciding", "listening", "unheard", "execute"} =>
       /\ integ.tools[Current] \in {"requested", "permission"}
       /\ Shown(Current, "pending") /\ ~Shown(Current, "running")
  /\ pc \in Calling => ~Shown(Current, "done")

(* A turn that completed has left no call open, and only an ending aborts  *)
(* calls.                                                                  *)
CompletedSettled ==
  /\ integ.phase # "Terminal" => \A c \in Calls : integ.tools[c] \notin {"cancelled", "failed"}
  /\ result = "ok" => \A c \in Calls : integ.tools[c] \in {"unknown", "result", "denied"}
  /\ projector = "turn_completed" => \A c \in Calls : card[c] \in {"hidden", "done"}

CardsLive == CardsAdvance /\ CardsFollowTools /\ CurrentShown

CardInv == JournalInv /\ (projector = "running" => CardsLive) /\ CompletedSettled

-----------------------------------------------------------------------------
(* TypeOK in the groups that actions leave alone together.                 *)
EmitterOK == integ \in Integrities /\ sequence \in Nat /\ queue \in Seq(Events)
ClientOK ==
  /\ projector \in {"running", "broken"} \union TerminalEvents
  /\ expected \in Nat
  /\ card \in [Calls -> {"hidden", "pending", "running", "done"}]
StreamOK == items \in 0..MaxItems /\ delta \in Texts /\ text \in Texts
RoundOK == offered \in Seq(Calls) /\ executable \in Seq(Calls) /\ chosen \in BOOLEAN
LoopOK ==
  /\ round \in 0..MaxRounds /\ retried \in BOOLEAN /\ seen \subseteq Calls
  /\ used \in 0..MaxCallsPerTurn /\ asked \subseteq Calls /\ answered \subseteq Calls
  /\ late \in Nat
StoreOK ==
  /\ limited \in BOOLEAN /\ leased \in BOOLEAN /\ finishes \in Nat /\ saved \in BOOLEAN
TurnOK ==
  /\ pc \in Locations /\ signal \in BOOLEAN
  /\ result \in {"none", "ok", "cancelled", "max_rounds", "failed"}
  /\ response \in {"none", "end_turn", "cancelled", "max_turn_requests", "error"}

LEMMA TypeGroups ==
  /\ TypeOK <=> EmitterOK /\ ClientOK /\ StreamOK /\ RoundOK /\ LoopOK /\ StoreOK /\ TurnOK
  /\ TypeOK' <=> (EmitterOK /\ ClientOK /\ StreamOK /\ RoundOK /\ LoopOK /\ StoreOK /\ TurnOK)'
BY DEF TypeOK, EmitterOK, ClientOK, StreamOK, RoundOK, LoopOK, StoreOK, TurnOK

LEMMA GroupsKept ==
  /\ EmitterOK /\ UNCHANGED emitterVars => EmitterOK'
  /\ ClientOK /\ UNCHANGED clientVars => ClientOK'
  /\ StreamOK /\ UNCHANGED streamVars => StreamOK'
  /\ RoundOK /\ UNCHANGED roundVars => RoundOK'
  /\ LoopOK /\ UNCHANGED loopVars => LoopOK'
  /\ StoreOK /\ UNCHANGED serviceVars => StoreOK'
<1>1. EmitterOK /\ UNCHANGED emitterVars => EmitterOK'
  BY DEF emitterVars, EmitterOK
<1>2. ClientOK /\ UNCHANGED clientVars => ClientOK'
  BY DEF clientVars, ClientOK
<1>3. StreamOK /\ UNCHANGED streamVars => StreamOK'
  BY DEF streamVars, StreamOK
<1>4. RoundOK /\ UNCHANGED roundVars => RoundOK'
  BY DEF roundVars, RoundOK
<1>5. LoopOK /\ UNCHANGED loopVars => LoopOK'
  BY DEF loopVars, LoopOK
<1>6. StoreOK /\ UNCHANGED serviceVars => StoreOK'
  BY DEF serviceVars, StoreOK
<1>7. QED
  BY <1>1, <1>2, <1>3, <1>4, <1>5, <1>6

LEMMA RangeOfTail ==
  ASSUME NEW S, NEW s \in Seq(S)
  PROVE  /\ Range(s) \subseteq S
         /\ s = <<>> => Range(s) = {}
         /\ s # <<>> => /\ Head(s) \in S /\ Tail(s) \in Seq(S)
                        /\ Range(s) = {Head(s)} \union Range(Tail(s))
<1>1. /\ Range(s) = {s[i] : i \in 1..Len(s)}
      /\ s # <<>> => Range(Tail(s)) = {Tail(s)[i] : i \in 1..Len(Tail(s))}
  <2>1. DOMAIN s = 1..Len(s)
    OBVIOUS
  <2>2. s # <<>> => DOMAIN Tail(s) = 1..Len(Tail(s))
    OBVIOUS
  <2>3. QED
    BY <2>1, <2>2 DEF Range
<1>2. ASSUME s # <<>>
      PROVE  Range(s) = {Head(s)} \union Range(Tail(s))
  <2>1. Len(s) > 0 /\ Len(Tail(s)) = Len(s) - 1 /\ Head(s) = s[1]
    BY <1>2
  <2>2. \A i \in 1..Len(Tail(s)) : i + 1 \in 1..Len(s) /\ Tail(s)[i] = s[i + 1]
    BY <1>2
  <2>3. \A i \in 1..Len(s) : i = 1 \/ i - 1 \in 1..Len(Tail(s))
    BY <2>1
  <2>4. \A i \in 1..Len(s) : s[i] \in {Head(s)} \union Range(Tail(s))
    <3>1. TAKE i \in 1..Len(s)
    <3>2. CASE i = 1
      BY <2>1, <3>2
    <3>3. CASE i # 1
      <4>1. i - 1 \in 1..Len(Tail(s)) /\ Tail(s)[i - 1] = s[i]
        BY <2>1, <2>2, <2>3, <3>3
      <4>2. QED
        BY <1>1, <1>2, <4>1
    <3>4. QED
      BY <3>2, <3>3
  <2>5. \A i \in 1..Len(Tail(s)) : Tail(s)[i] \in Range(s)
    BY <1>1, <2>2
  <2>6. Head(s) \in Range(s)
    BY <1>1, <2>1
  <2>7. QED
    BY <1>1, <1>2, <2>4, <2>5, <2>6
<1>3. QED
  BY <1>1, <1>2

(* An emission changes the journal as its kind says.                       *)
LEMMA AfterEffect ==
  ASSUME NEW t \in Integrities, NEW kind \in EventKinds, NEW c,
         kind \in ToolEvents => c \in Calls
  PROVE  /\ After(t, kind, c) \in Integrities
         /\ After(t, kind, c).phase =
              IF kind = "turn_started" THEN "Active"
              ELSE IF kind \in TerminalEvents THEN "Terminal" ELSE t.phase
         /\ kind \notin ToolEvents \union TerminalEvents => After(t, kind, c).tools = t.tools
<1>1. /\ t.phase \in {"NotStarted", "Active", "Terminal"} /\ t.assistant \in BOOLEAN
      /\ t.thinking \in BOOLEAN /\ t.tools \in [Calls -> ToolPhases] /\ t.worked \in BOOLEAN
  BY DEF Integrities
<1>2. CASE kind \in ToolEvents
  <2>1. ToolPhaseAfter(t, kind, c) \in ToolPhases
    BY <1>2 DEF ToolEvents, ToolPhaseAfter, ToolPhases, OpenPhases, DonePhases
  <2>2. After(t, kind, c) = [t EXCEPT !.tools[c] = ToolPhaseAfter(t, kind, c),
                                      !.worked = @ \/ kind = "tool_call_requested"]
    BY <1>2 DEF After, ToolEvents, TerminalEvents
  <2> DEFINE tools == [t.tools EXCEPT ![c] = ToolPhaseAfter(t, kind, c)]
             worked == t.worked \/ kind = "tool_call_requested"
  <2>3. tools \in [Calls -> ToolPhases] /\ worked \in BOOLEAN
    BY <1>1, <1>2, <2>1
  <2>4. After(t, kind, c) = [t EXCEPT !.tools = tools, !.worked = worked]
    BY <1>1, <1>2, <2>2 DEF Integrities
  <2> HIDE DEF tools, worked
  <2>5. After(t, kind, c) \in Integrities /\ After(t, kind, c).phase = t.phase
    BY <1>1, <2>3, <2>4 DEF Integrities
  <2>6. QED
    BY <1>2, <2>5 DEF ToolEvents, TerminalEvents
<1>3. CASE kind \in TerminalEvents
  <2> DEFINE reason == IF kind = "turn_cancelled" THEN "cancelled" ELSE "failed"
  <2>1. Abort(t, reason) \in [Calls -> ToolPhases]
    BY <1>1 DEF Abort, ToolPhases, OpenPhases, DonePhases
  <2>2. After(t, kind, c) = [t EXCEPT !.phase = "Terminal", !.assistant = FALSE,
                                      !.thinking = FALSE, !.tools = Abort(t, reason)]
    BY <1>3 DEF After, ToolEvents, TerminalEvents
  <2> HIDE DEF reason
  <2>3. QED
    BY <1>1, <1>3, <2>1, <2>2 DEF Integrities, ToolEvents, TerminalEvents
<1>4. CASE kind \notin ToolEvents \union TerminalEvents
  BY <1>1, <1>4 DEF After, EventKinds, Integrities, ToolEvents, TerminalEvents
<1>5. QED
  BY <1>2, <1>3, <1>4

(* What an accepted emission does to the channel.                          *)
Emits(kind, c, shown) == Accepts(kind, c) /\ PublishCard(kind, c, shown)

EventOf(kind, c, shown) == [kind |-> kind, call |-> c, seq |-> sequence, shown |-> shown]

LEMMA EmitsEffect ==
  ASSUME EmitterOK, NEW kind \in EventKinds, NEW c \in Calls \union {NoCall},
         NEW shown \in {"none", "pending", "running", "done"},
         kind \in ToolEvents => c \in Calls, Emits(kind, c, shown)
  PROVE  /\ EmitterOK'
         /\ projector = "running" /\ Admits(integ, kind, c)
         /\ integ' = After(integ, kind, c) /\ sequence' = sequence + 1
         /\ Len(queue') = Len(queue) + 1
         /\ \A i \in 1..Len(queue) : queue'[i] = queue[i]
         /\ queue'[Len(queue) + 1] = EventOf(kind, c, shown)
<1>1. /\ projector = "running" /\ Admits(integ, kind, c)
      /\ integ' = After(integ, kind, c) /\ sequence' = sequence + 1
      /\ queue' = Append(queue, EventOf(kind, c, shown))
  BY DEF Emits, Accepts, PublishCard, EventOf
<1>2. integ' \in Integrities
  BY <1>1, AfterEffect DEF EmitterOK
<1>3. EventOf(kind, c, shown) \in Events
  BY DEF EventOf, Events, EmitterOK
<1>4. QED
  BY <1>1, <1>2, <1>3 DEF EmitterOK

LEMMA PlainKinds ==
  /\ EventKinds \ ToolEvents =
       {"turn_started", "assistant_started", "assistant_delta", "assistant_completed",
        "thinking_started", "thinking_delta", "thinking_completed", "turn_completed",
        "turn_cancelled", "turn_failed"}
  /\ ToolEvents \subseteq EventKinds /\ TerminalEvents \subseteq EventKinds \ ToolEvents
BY DEF EventKinds, ToolEvents, TerminalEvents

(* A step of the turn says one thing or nothing.                           *)
Silent == UNCHANGED emitterVars
Says(kind) == Emits(kind, NoCall, "none")
SaysOf(kind, shown) == Emits(kind, Current, shown)

LEMMA EmissionCases ==
  /\ \A kind : Try(kind) => Says(kind) \/ (Silent /\ ~Accepts(kind, NoCall))
  /\ \A kind, l : EmitThen(kind, l) =>
       \/ Says(kind) /\ pc' = l /\ result' = result
       \/ Silent /\ pc' = "exit" /\ result' = "failed"
  /\ \A kind, l : EmitOrClose(kind, l) =>
       \/ Says(kind) /\ pc' = l /\ result' = result
       \/ Silent /\ pc' = "close" /\ result' = "failed"
  /\ \A kind, shown, l : EmitCardThen(kind, shown, l) =>
       \/ SaysOf(kind, shown) /\ pc' = l /\ result' = result
       \/ Silent /\ pc' = "exit" /\ result' = "failed" /\ ~Accepts(kind, Current)
BY DEF Try, EmitThen, EmitOrClose, EmitCardThen, Publish, Says, SaysOf, Silent, Emits,
       Goto, Leave

LEMMA SpeechTyped ==
  ASSUME EmitterOK
  PROVE  /\ Silent => EmitterOK'
         /\ \A kind \in EventKinds \ ToolEvents : Says(kind) => EmitterOK'
         /\ Current \in Calls =>
              \A kind \in EventKinds, shown \in {"none", "pending", "running", "done"} :
                SaysOf(kind, shown) => EmitterOK'
<1>1. Silent => EmitterOK'
  BY GroupsKept DEF Silent
<1>2. ASSUME NEW kind \in EventKinds \ ToolEvents, Says(kind)
      PROVE  EmitterOK'
  BY <1>2, EmitsEffect DEF Says
<1>3. ASSUME Current \in Calls, NEW kind \in EventKinds,
             NEW shown \in {"none", "pending", "running", "done"}, SaysOf(kind, shown)
      PROVE  EmitterOK'
  BY <1>3, EmitsEffect DEF SaysOf
<1>4. QED
  BY <1>1, <1>2, <1>3

LEMMA Limits ==
  MaxRounds \in Nat /\ MaxCallsPerTurn \in Nat /\ MaxItems \in Nat /\ <<>> \in Seq(Calls)
BY PipelineAssumption

LEMMA TypeInvInductive ==
  /\ Init => TypeInv
  /\ TypeInv /\ [Next]_vars => TypeInv'
<1>1. ASSUME Init
      PROVE  TypeInv
  <2>1. EmitterOK
    BY <1>1 DEF Init, EmitterOK, NewIntegrity, Integrities, ToolPhases
  <2>2. ClientOK /\ StoreOK
    BY <1>1 DEF Init, ClientOK, StoreOK
  <2>3. StreamOK
    BY <1>1, Limits DEF Init, StreamOK, Texts
  <2>4. RoundOK
    BY <1>1, Limits DEF Init, RoundOK
  <2>5. LoopOK
    <3>1. /\ round = 0 /\ retried = FALSE /\ used = 0 /\ late = 0
          /\ seen = {} /\ asked = {} /\ answered = {}
      BY <1>1 DEF Init
    <3>2. 0 \in 0..MaxRounds /\ 0 \in 0..MaxCallsPerTurn
      BY Limits
    <3>3. QED
      BY <3>1, <3>2 DEF LoopOK
  <2>6. TurnOK /\ CurrentThere
    BY <1>1 DEF Init, TurnOK, CurrentThere, Locations, Calling
  <2>7. QED
    BY <2>1, <2>2, <2>3, <2>4, <2>5, <2>6, TypeGroups DEF TypeInv
<1>2. ASSUME TypeInv, [Next]_vars
      PROVE  TypeInv'
  <2> USE <1>2
  <2>0. /\ EmitterOK /\ ClientOK /\ StreamOK /\ RoundOK /\ LoopOK /\ StoreOK /\ TurnOK
        /\ CurrentThere
        /\ TypeInv' <=> /\ (EmitterOK /\ ClientOK /\ StreamOK /\ RoundOK)'
                        /\ (LoopOK /\ StoreOK /\ TurnOK /\ CurrentThere)'
    BY TypeGroups DEF TypeInv
  <2>1. pc \in Calling \union {"announce", "skip_result"} => Current \in Calls
    BY <2>0, RangeOfTail DEF Current, CurrentThere, RoundOK
  <2>2. CASE BeginTurn
    <3>1. TurnOK' /\ CurrentThere'
      BY <2>0, <2>2 DEF BeginTurn, TurnOK, CurrentThere, Locations, Calling
    <3>2. StoreOK'
      BY <2>0, <2>2 DEF BeginTurn, StoreOK
    <3>3. QED
      BY <2>0, <2>2, <3>1, <3>2, GroupsKept DEF BeginTurn
  <2>3. CASE Upload
    <3>1. TurnOK' /\ CurrentThere'
      BY <2>0, <2>3 DEF Upload, TurnOK, CurrentThere, Locations, Calling
    <3>2. QED
      BY <2>0, <2>3, <3>1, GroupsKept DEF Upload
  <2>4. CASE FailBeforeExecution
    <3>1. EmitterOK'
      BY <2>0, <2>4, EmissionCases, SpeechTyped, PlainKinds DEF FailBeforeExecution
    <3>2. TurnOK' /\ CurrentThere'
      BY <2>0, <2>4 DEF FailBeforeExecution, TurnOK, CurrentThere, Locations, Calling
    <3>3. QED
      BY <2>0, <2>4, <3>1, <3>2, GroupsKept DEF FailBeforeExecution
  <2>5. CASE Precheck
    <3>1. EmitterOK'
      BY <2>0, <2>5, EmissionCases, SpeechTyped, PlainKinds
         DEF Precheck, Publish, Says, Emits, Silent
    <3>2. TurnOK' /\ CurrentThere'
      BY <2>0, <2>5 DEF Precheck, Goto, TurnOK, CurrentThere, Locations, Calling
    <3>3. QED
      BY <2>0, <2>5, <3>1, <3>2, GroupsKept DEF Precheck
  <2>6. CASE Run
    <3>1. EmitterOK'
      BY <2>0, <2>6, SpeechTyped, PlainKinds DEF Run, Publish, Says, Emits, Silent
    <3>2. TurnOK' /\ CurrentThere'
      BY <2>0, <2>6
         DEF Run, Goto, Leave, UnlessCancelled, TurnOK, CurrentThere, Locations, Calling
    <3>3. QED
      BY <2>0, <2>6, <3>1, <3>2, GroupsKept DEF Run
  <2>7. CASE RoundStart
    <3>1. TurnOK' /\ CurrentThere'
      BY <2>0, <2>7
         DEF RoundStart, Goto, Leave, UnlessCancelled, TurnOK, CurrentThere, Locations, Calling
    <3>2. StreamOK'
      BY <2>0, <2>7, Limits DEF RoundStart, StreamOK, Texts
    <3>3. RoundOK'
      BY <2>0, <2>7, Limits DEF RoundStart, RoundOK
    <3>4. LoopOK'
      BY <2>0, <2>7, Limits DEF RoundStart, LoopOK
    <3>5. QED
      BY <2>0, <2>7, <3>1, <3>2, <3>3, <3>4, GroupsKept DEF RoundStart
  <2>8. CASE Request
    <3>1. TurnOK' /\ CurrentThere' /\ LoopOK'
      BY <2>0, <2>8 DEF Request, Goto, Leave, TurnOK, LoopOK, CurrentThere, Locations, Calling
    <3>2. QED
      BY <2>0, <2>8, <3>1, GroupsKept DEF Request
  <2>9. CASE StreamItem
    <3>1. TurnOK' /\ CurrentThere'
      BY <2>0, <2>9 DEF StreamItem, Goto, Leave, TurnOK, CurrentThere, Locations, Calling
    <3>2. StreamOK'
      BY <2>0, <2>9, Limits DEF StreamItem, StreamOK
    <3>3. RoundOK'
      <4>1. offered' = offered \/ \E c \in Calls : offered' = Append(offered, c)
        BY <2>9 DEF StreamItem
      <4>2. offered \in Seq(Calls) => offered' \in Seq(Calls)
        BY <4>1
      <4>3. QED
        BY <2>0, <2>9, <4>2 DEF StreamItem, RoundOK
    <3>4. QED
      BY <2>0, <2>9, <3>1, <3>2, <3>3, GroupsKept DEF StreamItem
  <2>10. CASE StreamOver
    <3>1. TurnOK' /\ CurrentThere'
      BY <2>0, <2>10 DEF StreamOver, TurnOK, CurrentThere, Locations, Calling
    <3>2. QED
      BY <2>0, <2>10, <3>1, GroupsKept DEF StreamOver
  <2>11. CASE ReasoningDelta
    <3>1. /\ EmitterOK'
          /\ pc' \in {"reasoning", "stream", "close"} /\ result' \in {result, "failed"}
      BY <2>0, <2>11, EmissionCases, SpeechTyped, PlainKinds DEF ReasoningDelta
    <3>2. TurnOK' /\ CurrentThere'
      BY <2>0, <2>11, <3>1 DEF ReasoningDelta, TurnOK, CurrentThere, Locations, Calling
    <3>3. QED
      BY <2>0, <2>11, <3>1, <3>2, GroupsKept DEF ReasoningDelta
  <2>12. CASE TextDelta
    <3>1. /\ EmitterOK'
          /\ pc' \in {"text", "stream", "close"} /\ result' \in {result, "failed"}
      BY <2>0, <2>12, EmissionCases, SpeechTyped, PlainKinds DEF TextDelta
    <3>2. TurnOK' /\ CurrentThere'
      BY <2>0, <2>12, <3>1 DEF TextDelta, TurnOK, CurrentThere, Locations, Calling
    <3>3. StreamOK'
      BY <2>0, <2>12 DEF TextDelta, StreamOK, Longer, Texts
    <3>4. QED
      BY <2>0, <2>12, <3>1, <3>2, <3>3, GroupsKept DEF TextDelta
  <2>13. CASE CloseScopes
    <3>1. EmitterOK'
      BY <2>0, <2>13, EmissionCases, SpeechTyped, PlainKinds DEF CloseScopes, Publish, Says, Emits
    <3>2. TurnOK' /\ CurrentThere'
      BY <2>0, <2>13 DEF CloseScopes, TurnOK, CurrentThere, Locations, Calling
    <3>3. QED
      BY <2>0, <2>13, <3>1, <3>2, GroupsKept DEF CloseScopes
  <2>14. CASE WrapStream
    <3>1. YieldsToAction(integ) \in Integrities
      BY <2>0 DEF EmitterOK, YieldsToAction, Integrities
    <3>2. /\ EmitterOK'
          /\ pc' \in {"wrap", "judge", "exit"} /\ result' \in {result, "failed"}
      BY <2>0, <2>14, <3>1, EmissionCases, SpeechTyped, PlainKinds
         DEF WrapStream, Goto, EmitterOK, Silent, emitterVars
    <3>3. TurnOK' /\ CurrentThere'
      BY <2>0, <2>14, <3>2 DEF WrapStream, TurnOK, CurrentThere, Locations, Calling
    <3>4. QED
      BY <2>0, <2>14, <3>2, <3>3, GroupsKept DEF WrapStream
  <2>15. CASE Judge
    <3>1. TurnOK' /\ CurrentThere'
      BY <2>0, <2>15 DEF Judge, Goto, Leave, TurnOK, CurrentThere, Locations, Calling
    <3>2. LoopOK'
      BY <2>0, <2>15, RangeOfTail DEF Judge, LoopOK, RoundOK
    <3>3. QED
      BY <2>0, <2>15, <3>1, <3>2, GroupsKept DEF Judge
  <2>16. CASE Sort
    <3>1. TurnOK' /\ CurrentThere'
      BY <2>0, <2>16
         DEF Sort, Goto, Leave, UnlessCancelled, TurnOK, CurrentThere, Locations, Calling
    <3>2. RoundOK'
      <4>1. \/ UNCHANGED <<offered, executable>>
            \/ /\ offered # <<>> /\ offered' = Tail(offered)
               /\ executable' = Append(executable, Head(offered))
        BY <2>16 DEF Sort
      <4>2. offered' \in Seq(Calls) /\ executable' \in Seq(Calls)
        <5>1. offered \in Seq(Calls) /\ executable \in Seq(Calls)
          BY <2>0 DEF RoundOK
        <5>2. offered # <<>> => Head(offered) \in Calls /\ Tail(offered) \in Seq(Calls)
          BY <5>1
        <5>3. offered # <<>> => Append(executable, Head(offered)) \in Seq(Calls)
          BY <5>1, <5>2
        <5>4. QED
          BY <4>1, <5>1, <5>2, <5>3
      <4>3. QED
        BY <2>0, <2>16, <4>2 DEF Sort, RoundOK
    <3>3. QED
      BY <2>0, <2>16, <3>1, <3>2, GroupsKept DEF Sort
  <2>17. CASE AskAction
    <3>1. TurnOK' /\ CurrentThere'
      BY <2>0, <2>17 DEF AskAction, Goto, Leave, TurnOK, CurrentThere, Locations, Calling
    <3>2. RoundOK'
      BY <2>0, <2>17, RangeOfTail DEF AskAction, RoundOK, CurrentThere
    <3>3. QED
      BY <2>0, <2>17, <3>1, <3>2, GroupsKept DEF AskAction
  <2>18. CASE Skip
    <3>1. /\ EmitterOK'
          /\ pc' \in {"round", "skip_result", "exit"} /\ result' \in {result, "failed"}
          /\ pc' = "skip_result" => executable # <<>>
      <4>1. CASE executable = <<>>
        BY <2>0, <2>18, <4>1, SpeechTyped DEF Skip, Goto, Silent
      <4>2. CASE executable # <<>>
        <5>1. Current \in Calls
          BY <2>0, <4>2, RangeOfTail DEF RoundOK, Current
        <5>2. QED
          BY <2>0, <2>18, <4>2, <5>1, EmissionCases, SpeechTyped, PlainKinds
             DEF Skip, ToolEvents
      <4>3. QED
        BY <4>1, <4>2
    <3>2. TurnOK' /\ CurrentThere'
      BY <2>0, <2>18, <3>1 DEF Skip, TurnOK, CurrentThere, Locations, Calling, roundVars
    <3>3. QED
      BY <2>0, <2>18, <3>1, <3>2, GroupsKept DEF Skip
  <2>19. CASE SkipResult
    <3>0. pc = "skip_result" /\ Current \in Calls /\ executable # <<>>
      BY <2>0, <2>1, <2>19 DEF SkipResult, CurrentThere
    <3>1. /\ EmitterOK'
          /\ pc' \in {"skip", "exit"} /\ result' \in {result, "failed"}
      BY <2>0, <2>19, <3>0, EmissionCases, SpeechTyped, PlainKinds DEF SkipResult, ToolEvents
    <3>2. TurnOK' /\ CurrentThere'
      BY <2>0, <2>19, <3>1 DEF SkipResult, TurnOK, CurrentThere, Locations, Calling
    <3>3. RoundOK' /\ LoopOK'
      BY <2>0, <2>19, <3>0, RangeOfTail DEF SkipResult, RoundOK, LoopOK
    <3>4. QED
      BY <2>0, <2>19, <3>1, <3>2, <3>3, GroupsKept DEF SkipResult
  <2>20. CASE Conclude
    <3>1. EmitterOK'
      BY <2>0, <2>20, SpeechTyped, PlainKinds DEF Conclude, Publish, Says, Emits, Silent
    <3>2. TurnOK' /\ CurrentThere'
      BY <2>0, <2>20
         DEF Conclude, Goto, Leave, UnlessCancelled, TurnOK, CurrentThere, Locations, Calling
    <3>3. QED
      BY <2>0, <2>20, <3>1, <3>2, GroupsKept DEF Conclude
  <2>21. CASE Budget
    <3>1. TurnOK' /\ CurrentThere'
      BY <2>0, <2>21
         DEF Budget, Goto, Leave, UnlessCancelled, TurnOK, CurrentThere, Locations, Calling
    <3>2. Len(executable) \in Nat /\ Range(executable) \subseteq Calls
      BY <2>0, RangeOfTail DEF RoundOK
    <3>3. LoopOK'
      BY <2>0, <2>21, <3>2, Limits DEF Budget, LoopOK
    <3>4. QED
      BY <2>0, <2>21, <3>1, <3>3, GroupsKept DEF Budget
  <2>22. CASE NextCall
    <3>1. /\ EmitterOK'
          /\ pc' \in {"round", "announce", "gate", "exit"}
          /\ result' \in {result, "failed", "cancelled"}
          /\ pc' \in {"announce", "gate"} => executable # <<>>
      <4>1. CASE pc = "call"
        BY <2>0, <2>22, <4>1, SpeechTyped DEF NextCall, Goto, Leave, UnlessCancelled, Silent
      <4>2. CASE pc = "announce"
        BY <2>0, <2>1, <2>22, <4>2, EmissionCases, SpeechTyped, PlainKinds
           DEF NextCall, ToolEvents, CurrentThere
      <4>3. QED
        BY <2>22, <4>1, <4>2 DEF NextCall
    <3>2. TurnOK' /\ CurrentThere'
      BY <2>0, <2>22, <3>1 DEF NextCall, TurnOK, CurrentThere, Locations, Calling, roundVars
    <3>3. QED
      BY <2>0, <2>22, <3>1, <3>2, GroupsKept DEF NextCall
  <2>23. CASE Decide
    <3>0. pc \in {"gate", "deciding"} /\ executable # <<>> /\ Current \in Calls
      BY <2>0, <2>1, <2>23 DEF Decide, CurrentThere, Calling
    <3>1. /\ EmitterOK'
          /\ pc' \in {"execute", "deciding", "listening", "returned", "exit"}
          /\ result' \in {result, "failed", "cancelled"}
      BY <2>0, <2>23, <3>0, EmissionCases, SpeechTyped, PlainKinds
         DEF Decide, ToolEvents, Goto, Leave, UnlessCancelled, Silent
    <3>2. TurnOK' /\ CurrentThere'
      BY <2>0, <2>23, <3>0, <3>1
         DEF Decide, TurnOK, CurrentThere, Locations, Calling, roundVars
    <3>3. QED
      BY <2>0, <2>23, <3>1, <3>2, GroupsKept DEF Decide
  <2>34. CASE Permission
    <3>1. TurnOK' /\ CurrentThere'
      BY <2>0, <2>34
         DEF Permission, Goto, Leave, TurnOK, CurrentThere, Locations, Calling, roundVars
    <3>2. QED
      BY <2>0, <2>34, <3>1, GroupsKept DEF Permission
  <2>35. CASE Returned
    <3>1. TurnOK' /\ CurrentThere'
      BY <2>0, <2>35
         DEF Returned, Goto, Leave, UnlessCancelled, TurnOK, CurrentThere, Locations, Calling,
             roundVars
    <3>2. QED
      BY <2>0, <2>35, <3>1, GroupsKept DEF Returned
  <2>24. CASE Execute
    <3>0. pc = "execute" /\ executable # <<>> /\ Current \in Calls
      BY <2>0, <2>1, <2>24 DEF Execute, CurrentThere, Calling
    <3>1. /\ EmitterOK'
          /\ pc' \in {"running", "exit"} /\ result' \in {result, "failed"}
      BY <2>0, <2>24, <3>0, EmissionCases, SpeechTyped, PlainKinds DEF Execute, ToolEvents
    <3>2. TurnOK' /\ CurrentThere'
      BY <2>0, <2>24, <3>0, <3>1
         DEF Execute, TurnOK, CurrentThere, Locations, Calling, roundVars
    <3>3. LoopOK'
      BY <2>0, <2>24 DEF Execute, LoopOK
    <3>4. QED
      BY <2>0, <2>24, <3>1, <3>2, <3>3, GroupsKept DEF Execute
  <2>25. CASE ToolReturns
    <3>1. TurnOK' /\ CurrentThere'
      BY <2>0, <2>25
         DEF ToolReturns, Goto, TurnOK, CurrentThere, Locations, Calling, roundVars
    <3>2. QED
      BY <2>0, <2>25, <3>1, GroupsKept DEF ToolReturns
  <2>26. CASE ToolResult
    <3>0. pc = "result" /\ Current \in Calls /\ executable # <<>>
      BY <2>0, <2>1, <2>26 DEF ToolResult, CurrentThere, Calling
    <3>1. /\ EmitterOK'
          /\ pc' \in {"call", "exit"} /\ result' \in {result, "failed"}
      BY <2>0, <2>26, <3>0, EmissionCases, SpeechTyped, PlainKinds DEF ToolResult, ToolEvents
    <3>2. TurnOK' /\ CurrentThere'
      BY <2>0, <2>26, <3>1 DEF ToolResult, TurnOK, CurrentThere, Locations, Calling
    <3>3. RoundOK' /\ LoopOK'
      <4>1. Tail(executable) \in Seq(Calls)
        BY <2>0, <3>0, RangeOfTail DEF RoundOK
      <4>2. /\ executable' \in {executable, Tail(executable)}
            /\ answered' \in {answered, answered \union {Current}}
        BY <2>26 DEF ToolResult
      <4>3. /\ UNCHANGED <<offered, chosen, round, retried, seen, used, asked, late>>
        BY <2>26 DEF ToolResult
      <4>4. QED
        BY <2>0, <3>0, <4>1, <4>2, <4>3 DEF RoundOK, LoopOK
    <3>4. QED
      BY <2>0, <2>26, <3>1, <3>2, <3>3, GroupsKept DEF ToolResult
  <2>27. CASE EndWithError
    <3>1. EmitterOK'
      BY <2>0, <2>27, EmissionCases, SpeechTyped, PlainKinds DEF EndWithError, TerminalFor
    <3>2. TurnOK' /\ CurrentThere'
      BY <2>0, <2>27 DEF EndWithError, TurnOK, CurrentThere, Locations, Calling
    <3>3. QED
      BY <2>0, <2>27, <3>1, <3>2, GroupsKept DEF EndWithError
  <2>28. CASE Finish
    <3>1. TurnOK' /\ CurrentThere' /\ StoreOK'
      BY <2>0, <2>28 DEF Finish, TurnOK, StoreOK, CurrentThere, Locations, Calling
    <3>2. QED
      BY <2>0, <2>28, <3>1, GroupsKept DEF Finish
  <2>29. CASE Backstop
    <3>1. EmitterOK'
      BY <2>0, <2>29, EmissionCases, SpeechTyped, PlainKinds DEF Backstop, Silent
    <3>2. TurnOK' /\ CurrentThere'
      BY <2>0, <2>29 DEF Backstop, TurnOK, CurrentThere, Locations, Calling
    <3>3. QED
      BY <2>0, <2>29, <3>1, <3>2, GroupsKept DEF Backstop
  <2>30. CASE Respond
    <3>1. TurnOK' /\ CurrentThere'
      BY <2>0, <2>30 DEF Respond, TurnResult, TurnOK, CurrentThere, Locations, Calling
    <3>2. QED
      BY <2>0, <2>30, <3>1, GroupsKept DEF Respond
  <2>31. CASE Project
    <3>1. queue # <<>> /\ queue \in Seq(Events) /\ Head(queue) \in Events /\ queue' = Tail(queue)
      BY <2>0, <2>31 DEF Project, EmitterOK
    <3>2. EmitterOK'
      BY <2>0, <2>31, <3>1 DEF Project, EmitterOK
    <3>3. ClientOK' /\ signal' \in BOOLEAN
      <4> DEFINE e == Head(queue)
      <4>1. expected' \in {expected, expected + 1}
        BY <2>31 DEF Project
      <4>2. projector' = projector \/ projector' \in TerminalEvents \union {"broken"}
        BY <2>31 DEF Project, Break
      <4>3. signal' \in BOOLEAN
        BY <2>0, <2>31 DEF Project, Break, TurnOK
      <4>4. \/ card' = card
            \/ e.shown # "none" /\ card' = [card EXCEPT ![e.call] = e.shown]
        BY <2>31 DEF Project, Break
      <4>5. e.shown # "none" => e.shown \in {"pending", "running", "done"}
        BY <3>1 DEF Events
      <4>6. card' \in [Calls -> {"hidden", "pending", "running", "done"}]
        BY <2>0, <4>4, <4>5 DEF ClientOK
      <4>7. QED
        BY <2>0, <4>1, <4>2, <4>3, <4>6 DEF ClientOK
    <3>4. TurnOK' /\ CurrentThere'
      BY <2>0, <2>31, <3>3 DEF Project, TurnOK, CurrentThere, roundVars
    <3>5. QED
      BY <2>0, <2>31, <3>2, <3>3, <3>4, GroupsKept DEF Project
  <2>32. CASE Cancel
    <3>1. TurnOK' /\ CurrentThere'
      BY <2>0, <2>32 DEF Cancel, TurnOK, CurrentThere, roundVars
    <3>2. QED
      BY <2>0, <2>32, <3>1, GroupsKept DEF Cancel
  <2>33. CASE UNCHANGED vars
    <3>1. /\ UNCHANGED <<emitterVars, clientVars, streamVars, roundVars, loopVars, serviceVars>>
          /\ UNCHANGED <<pc, signal, result, response>>
      BY <2>33 DEF vars, emitterVars, clientVars, streamVars, roundVars, loopVars, serviceVars
    <3>2. TurnOK' /\ CurrentThere'
      BY <2>0, <3>1 DEF TurnOK, CurrentThere, roundVars
    <3>3. QED
      BY <2>0, <3>1, <3>2, GroupsKept
  <2>36. QED
    BY <2>2, <2>3, <2>4, <2>5, <2>6, <2>7, <2>8, <2>9, <2>10, <2>11, <2>12, <2>13, <2>14,
       <2>15, <2>16, <2>17, <2>18, <2>19, <2>20, <2>21, <2>22, <2>23, <2>24, <2>25, <2>26,
       <2>27, <2>28, <2>29, <2>30, <2>31, <2>32, <2>33, <2>34, <2>35 DEF Next, Proceed, Await
<1>3. QED
  BY <1>1, <1>2

LEMMA FlowInductive ==
  /\ Init => FlowInv
  /\ TypeInv /\ FlowInv /\ [Next]_vars => FlowInv'
<1>1. ASSUME Init
      PROVE  FlowInv
  <2>1. Range(executable) = {}
    BY <1>1 DEF Init, Range
  <2>2. QED
    BY <1>1, <2>1 DEF Init, FlowInv, ResultSet, LeaseKept, HistoryKept, LateOnce, Opening,
                      Rounds, Ending, Executing, Calling
<1>2. ASSUME TypeInv, FlowInv, [Next]_vars
      PROVE  FlowInv'
  <2> USE <1>2 DEF FlowInv, ResultSet, LeaseKept, HistoryKept, LateOnce, Opening, Rounds, Ending,
                   Executing, Calling, emitterVars, clientVars, streamVars, roundVars,
                   loopVars, serviceVars
  <2>1. CASE BeginTurn
    BY <2>1 DEF BeginTurn
  <2>2. CASE Upload
    BY <2>2 DEF Upload
  <2>3. CASE FailBeforeExecution
    BY <2>3 DEF FailBeforeExecution
  <2>4. CASE Precheck
    BY <2>4 DEF Precheck, Goto
  <2>5. CASE Run
    BY <2>5 DEF Run, Goto, Leave, UnlessCancelled
  <2>6. CASE RoundStart
    BY <2>6 DEF RoundStart, Goto, Leave, UnlessCancelled
  <2>7. CASE Request
    BY <2>7 DEF Request, Goto, Leave, UnlessCancelled
  <2>8. CASE StreamItem
    BY <2>8 DEF StreamItem, Goto, Leave, UnlessCancelled
  <2>9. CASE StreamOver
    BY <2>9 DEF StreamOver
  <2>10. CASE ReasoningDelta
    BY <2>10, EmissionCases DEF ReasoningDelta
  <2>11. CASE TextDelta
    BY <2>11, EmissionCases DEF TextDelta
  <2>12. CASE CloseScopes
    BY <2>12 DEF CloseScopes
  <2>13. CASE WrapStream
    BY <2>13, EmissionCases DEF WrapStream, Goto
  <2>14. CASE Judge
    BY <2>14 DEF Judge, Goto, Leave, UnlessCancelled
  <2>15. CASE Sort
    BY <2>15 DEF Sort, Goto, Leave, UnlessCancelled
  <2>16. CASE AskAction
    BY <2>16 DEF AskAction, Goto, Leave, UnlessCancelled
  <2>17. CASE Skip
    BY <2>17, EmissionCases DEF Skip, Goto
  <2>18. CASE SkipResult
    BY <2>18, EmissionCases DEF SkipResult
  <2>19. CASE Conclude
    BY <2>19 DEF Conclude, Goto, Leave, UnlessCancelled
  <2>20. CASE Budget
    BY <2>20 DEF Budget, Goto, Leave, UnlessCancelled
  <2>21. CASE NextCall
    <3>1. executable = <<>> => Range(executable) = {}
      BY DEF Range
    <3>2. QED
      BY <2>21, <3>1, EmissionCases DEF NextCall, Goto, Leave, UnlessCancelled
  <2>22. CASE Decide
    BY <2>22, EmissionCases DEF Decide, Goto, Leave, UnlessCancelled
  <2>33. CASE Permission
    BY <2>33 DEF Permission, Goto, Leave
  <2>34. CASE Returned
    BY <2>34 DEF Returned, Goto, Leave, UnlessCancelled
  <2>23. CASE Execute
    <3>1. late \in Nat /\ pc = "execute" /\ late' \in {late, late + 1}
      BY <2>23 DEF Execute, TypeInv, TypeOK
    <3>2. late = 0
      BY <3>1
    <3>3. late' = 1 => signal /\ pc' = "running"
      BY <2>23, <3>2, EmissionCases DEF Execute
    <3>4. QED
      BY <2>23, <3>1, <3>2, <3>3, EmissionCases DEF Execute
  <2>24. CASE ToolReturns
    BY <2>24 DEF ToolReturns, Goto
  <2>25. CASE ToolResult
    <3>1. pc = "result" /\ executable # <<>> /\ executable \in Seq(Calls)
      BY <2>25 DEF ToolResult, TypeInv, TypeOK, CurrentThere
    <3>2. Range(executable) = {Current} \union Range(Tail(executable))
      BY <3>1, RangeOfTail DEF Current
    <3>3. \/ /\ pc' = "call" /\ executable' = Tail(executable)
             /\ answered' = answered \union {Current}
          \/ pc' = "exit" /\ UNCHANGED <<executable, answered>>
      BY <2>25, EmissionCases DEF ToolResult, SaysOf, Emits
    <3>4. result' # "ok" /\ UNCHANGED <<asked, late, signal, response>> /\ UNCHANGED serviceVars
      BY <2>25, <3>1, EmissionCases DEF ToolResult
    <3> HIDE DEF emitterVars
    <3>5. ResultSet' /\ LeaseKept' /\ LateOnce'
      BY <2>25, <3>1, <3>3, EmissionCases DEF ToolResult
    <3>6. HistoryKept'
      BY <3>1, <3>2, <3>3, <3>4
    <3>7. QED
      BY <3>5, <3>6
  <2>26. CASE EndWithError
    BY <2>26 DEF EndWithError
  <2>27. CASE Finish
    BY <2>27 DEF Finish
  <2>28. CASE Backstop
    BY <2>28 DEF Backstop
  <2>29. CASE Respond
    BY <2>29 DEF Respond
  <2>30. CASE Project
    BY <2>30 DEF Project, Break
  <2>31. CASE Cancel
    BY <2>31 DEF Cancel
  <2>32. CASE UNCHANGED vars
    BY <2>32 DEF vars
  <2>35. QED
    BY <2>1, <2>2, <2>3, <2>4, <2>5, <2>6, <2>7, <2>8, <2>9, <2>10, <2>11, <2>12, <2>13,
       <2>14, <2>15, <2>16, <2>17, <2>18, <2>19, <2>20, <2>21, <2>22, <2>23, <2>24, <2>25,
       <2>26, <2>27, <2>28, <2>29, <2>30, <2>31, <2>32, <2>33, <2>34 DEF Next, Proceed, Await
<1>3. QED
  BY <1>1, <1>2

(* What a step of the turn says moves the journal on; what it may not say  *)
(* finds the journal in another phase or the projector gone.               *)
LEMMA SpeechPhase ==
  ASSUME EmitterOK
  PROVE  /\ Silent => integ' = integ
         /\ \A kind \in EventKinds \ ToolEvents : Says(kind) =>
              /\ projector = "running"
              /\ integ.phase = IF kind = "turn_started" THEN "NotStarted" ELSE "Active"
              /\ integ'.phase = IF kind \in TerminalEvents THEN "Terminal" ELSE "Active"
         /\ Current \in Calls =>
              \A kind \in ToolEvents, shown \in {"none", "pending", "running", "done"} :
                SaysOf(kind, shown) =>
                  projector = "running" /\ integ.phase = "Active" /\ integ'.phase = "Active"
         /\ \A kind \in {"turn_failed", "turn_cancelled"} :
              ~Accepts(kind, NoCall) => projector # "running" \/ integ.phase # "Active"
         /\ ~Accepts("turn_started", NoCall) =>
              projector # "running" \/ integ.phase # "NotStarted"
<1>1. Silent => integ' = integ
  BY DEF Silent, emitterVars
<1>2. ASSUME NEW kind \in EventKinds, NEW c \in Calls \union {NoCall},
             NEW shown \in {"none", "pending", "running", "done"},
             kind \in ToolEvents => c \in Calls, Emits(kind, c, shown)
      PROVE  /\ projector = "running"
             /\ integ.phase = IF kind = "turn_started" THEN "NotStarted" ELSE "Active"
             /\ integ'.phase = IF kind \in TerminalEvents THEN "Terminal" ELSE "Active"
  <2>1. projector = "running" /\ Admits(integ, kind, c) /\ integ' = After(integ, kind, c)
    BY <1>2, EmitsEffect
  <2>2. integ.phase = IF kind = "turn_started" THEN "NotStarted" ELSE "Active"
    BY <2>1 DEF Admits
  <2>3. integ'.phase = IF kind = "turn_started" THEN "Active"
                       ELSE IF kind \in TerminalEvents THEN "Terminal" ELSE integ.phase
    BY <1>2, <2>1, AfterEffect DEF EmitterOK
  <2>4. kind = "turn_started" => kind \notin TerminalEvents
    BY DEF TerminalEvents
  <2>5. QED
    BY <2>1, <2>2, <2>3, <2>4
<1>3. \A kind \in EventKinds \ ToolEvents : Says(kind) =>
        /\ projector = "running"
        /\ integ.phase = IF kind = "turn_started" THEN "NotStarted" ELSE "Active"
        /\ integ'.phase = IF kind \in TerminalEvents THEN "Terminal" ELSE "Active"
  BY <1>2 DEF Says
<1>4. ASSUME Current \in Calls, NEW kind \in ToolEvents,
             NEW shown \in {"none", "pending", "running", "done"}, SaysOf(kind, shown)
      PROVE  projector = "running" /\ integ.phase = "Active" /\ integ'.phase = "Active"
  <2>1. kind \in EventKinds /\ kind # "turn_started" /\ kind \notin TerminalEvents
    BY PlainKinds DEF ToolEvents, TerminalEvents
  <2>2. QED
    BY <1>2, <1>4, <2>1 DEF SaysOf
<1>5. /\ \A kind \in {"turn_failed", "turn_cancelled"} :
           ~Accepts(kind, NoCall) => projector # "running" \/ integ.phase # "Active"
      /\ ~Accepts("turn_started", NoCall) =>
           projector # "running" \/ integ.phase # "NotStarted"
  BY DEF Accepts, Admits
<1>6. QED
  BY <1>1, <1>3, <1>4, <1>5

LEMMA PhaseInductive ==
  /\ Init => PhaseKept
  /\ ControlInv /\ [Next]_vars => PhaseKept'
<1>1. Init => PhaseKept
  BY DEF Init, PhaseKept, NewIntegrity, Opening, Rounds, Ending, Calling
<1>2. ASSUME ControlInv, [Next]_vars
      PROVE  PhaseKept'
  <2> USE <1>2
  <2>0. /\ EmitterOK /\ PhaseKept /\ projector \in {"running", "broken"} \union TerminalEvents
        /\ result \in {"none", "ok", "cancelled", "max_rounds", "failed"}
        /\ pc \in Calling \union {"announce", "skip_result"} \/ executable # <<>> =>
             Current \in Calls
    BY TypeGroups, RangeOfTail
       DEF ControlInv, TypeInv, TypeOK, CurrentThere, Current
  <2> USE DEF PhaseKept, Opening, Rounds, Ending, Calling
  <2>1. CASE BeginTurn
    BY <2>0, <2>1 DEF BeginTurn, emitterVars, clientVars
  <2>2. CASE Upload
    BY <2>0, <2>2 DEF Upload, emitterVars, clientVars
  <2>3. CASE FailBeforeExecution
    BY <2>0, <2>3, EmissionCases, SpeechPhase, PlainKinds
       DEF FailBeforeExecution, ToolEvents, TerminalEvents, clientVars
  <2>4. CASE Precheck
    BY <2>0, <2>4, EmissionCases, SpeechPhase, PlainKinds
       DEF Precheck, Goto, Publish, ToolEvents, TerminalEvents, Says, Emits, Silent,
           clientVars
  <2>5. CASE Run
    BY <2>0, <2>5, EmissionCases, SpeechPhase, PlainKinds
       DEF Run, Publish, Goto, Leave, UnlessCancelled, ToolEvents, TerminalEvents, Says,
           Emits, Silent, clientVars
  <2>6. CASE RoundStart
    BY <2>0, <2>6 DEF RoundStart, Goto, Leave, UnlessCancelled, emitterVars, clientVars
  <2>7. CASE Request
    BY <2>0, <2>7 DEF Request, Goto, Leave, UnlessCancelled, emitterVars, clientVars
  <2>8. CASE StreamItem
    BY <2>0, <2>8 DEF StreamItem, Goto, Leave, UnlessCancelled, emitterVars, clientVars
  <2>9. CASE StreamOver
    BY <2>0, <2>9 DEF StreamOver, emitterVars, clientVars
  <2>10. CASE ReasoningDelta
    BY <2>0, <2>10, EmissionCases, SpeechPhase, PlainKinds
       DEF ReasoningDelta, ToolEvents, TerminalEvents, clientVars
  <2>11. CASE TextDelta
    BY <2>0, <2>11, EmissionCases, SpeechPhase, PlainKinds
       DEF TextDelta, ToolEvents, TerminalEvents, clientVars
  <2>12. CASE CloseScopes
    BY <2>0, <2>12, EmissionCases, SpeechPhase, PlainKinds
       DEF CloseScopes, Publish, ToolEvents, TerminalEvents, Says, Emits, Silent,
           clientVars
  <2>13. CASE WrapStream
    <3>1. YieldsToAction(integ).phase = integ.phase
      BY <2>0 DEF YieldsToAction, EmitterOK, Integrities
    <3>2. QED
      BY <2>0, <2>13, <3>1, EmissionCases, SpeechPhase, PlainKinds
         DEF WrapStream, Goto, ToolEvents, TerminalEvents, Silent, clientVars
  <2>14. CASE Judge
    BY <2>0, <2>14 DEF Judge, Goto, Leave, UnlessCancelled, emitterVars, clientVars
  <2>15. CASE Sort
    BY <2>0, <2>15 DEF Sort, Goto, Leave, UnlessCancelled, emitterVars, clientVars
  <2>16. CASE AskAction
    BY <2>0, <2>16 DEF AskAction, Goto, Leave, UnlessCancelled, emitterVars, clientVars
  <2>17. CASE Skip
    BY <2>0, <2>17, EmissionCases, SpeechPhase, PlainKinds
       DEF Skip, Goto, ToolEvents, TerminalEvents, Silent, clientVars
  <2>18. CASE SkipResult
    BY <2>0, <2>18, EmissionCases, SpeechPhase, PlainKinds
       DEF SkipResult, ToolEvents, TerminalEvents, clientVars
  <2>19. CASE Conclude
    BY <2>0, <2>19, EmissionCases, SpeechPhase, PlainKinds
       DEF Conclude, Publish, Goto, Leave, UnlessCancelled, ToolEvents, TerminalEvents,
           Says, Emits, Silent, clientVars
  <2>20. CASE Budget
    BY <2>0, <2>20 DEF Budget, Goto, Leave, UnlessCancelled, emitterVars, clientVars
  <2>21. CASE NextCall
    BY <2>0, <2>21, EmissionCases, SpeechPhase, PlainKinds
       DEF NextCall, Goto, Leave, UnlessCancelled, ToolEvents, TerminalEvents, Silent,
           clientVars
  <2>33. CASE Permission
    BY <2>0, <2>33 DEF Permission, Goto, Leave, emitterVars, clientVars
  <2>34. CASE Returned
    BY <2>0, <2>34 DEF Returned, Goto, Leave, UnlessCancelled, emitterVars, clientVars
  <2>22. CASE Decide
    BY <2>0, <2>22, EmissionCases, SpeechPhase, PlainKinds
       DEF Decide, Goto, Leave, UnlessCancelled, ToolEvents, TerminalEvents, Silent,
           clientVars
  <2>23. CASE Execute
    BY <2>0, <2>23, EmissionCases, SpeechPhase, PlainKinds
       DEF Execute, ToolEvents, TerminalEvents, clientVars
  <2>24. CASE ToolReturns
    BY <2>0, <2>24 DEF ToolReturns, Goto, emitterVars, clientVars
  <2>25. CASE ToolResult
    BY <2>0, <2>25, EmissionCases, SpeechPhase, PlainKinds
       DEF ToolResult, ToolEvents, TerminalEvents, clientVars
  <2>26. CASE EndWithError
    BY <2>0, <2>26, EmissionCases, SpeechPhase, PlainKinds
       DEF EndWithError, TerminalFor, ToolEvents, TerminalEvents, clientVars
  <2>27. CASE Finish
    BY <2>0, <2>27 DEF Finish, emitterVars, clientVars
  <2>28. CASE Backstop
    BY <2>0, <2>28, EmissionCases, SpeechPhase, PlainKinds
       DEF Backstop, ToolEvents, TerminalEvents, Silent, clientVars
  <2>29. CASE Respond
    BY <2>0, <2>29 DEF Respond, emitterVars, clientVars
  <2>30. CASE Project
    BY <2>0, <2>30 DEF Project, Break
  <2>31. CASE Cancel
    BY <2>0, <2>31 DEF Cancel, emitterVars, clientVars
  <2>32. CASE UNCHANGED vars
    BY <2>0, <2>32 DEF vars
  <2>35. QED
    BY <2>1, <2>2, <2>3, <2>4, <2>5, <2>6, <2>7, <2>8, <2>9, <2>10, <2>11, <2>12, <2>13,
       <2>14, <2>15, <2>16, <2>17, <2>18, <2>19, <2>20, <2>21, <2>22, <2>23, <2>24, <2>25,
       <2>26, <2>27, <2>28, <2>29, <2>30, <2>31, <2>32, <2>33, <2>34 DEF Next, Proceed, Await
<1>3. QED
  BY <1>1, <1>2

LEMMA ControlInvInductive ==
  /\ Init => ControlInv
  /\ ControlInv /\ [Next]_vars => ControlInv'
BY TypeInvInductive, FlowInductive, PhaseInductive DEF ControlInv

(* The steps of the turn, by what the client will hear of them: nothing,   *)
(* something about no card, something about the card of the current call.  *)
SaysNothing ==
  /\ UNCHANGED <<sequence, queue>>
  /\ integ'.phase = integ.phase /\ integ'.tools = integ.tools
  /\ result' = "ok" => result = "ok"
  /\ \/ pc' \notin Calling \union {"skip_result"}
     \/ /\ executable' = executable
        /\ \/ pc' = pc
           \/ pc = "deciding" /\ pc' = "listening"
           \/ pc = "listening" /\ pc' = "unheard"
           \/ pc \in {"gate", "listening", "unheard"} /\ pc' = "execute"
           \/ pc \in {"deciding", "listening", "unheard", "running"} /\ pc' = "returned"
           \/ pc = "returned" /\ pc' = "result"

SaysPlain(kind) ==
  /\ Says(kind)
  /\ kind \in TerminalEvents => kind = TerminalOf(result')
  /\ result' = "ok" => kind = "turn_completed"
  /\ pc' \notin Calling \union {"skip_result"}

SaysCard(kind, shown, from, to) ==
  /\ pc = from /\ pc' = to
  /\ SaysOf(kind, shown) /\ Current \in Calls
  /\ to \in Calling \union {"skip_result"} => executable' = executable
  /\ result' = result

CardSpeech ==
  \/ SaysCard("tool_call_requested", "done", "skip", "skip_result")
  \/ SaysCard("tool_result_received", "done", "skip_result", "skip")
  \/ SaysCard("tool_call_requested", "pending", "announce", "gate")
  \/ SaysCard("permission_requested", "none", "gate", "deciding")
  \/ SaysCard("tool_execution_started", "running", "execute", "running")
  \/ SaysCard("tool_result_received", "done", "result", "call")

LEMMA StepSpeech ==
  ASSUME ControlInv, [Next]_vars, ~Project
  PROVE  /\ UNCHANGED clientVars
         /\ result' # result => integ.phase # "Terminal"
         /\ \/ response' = response
            \/ /\ projector # "running" /\ result' = result
               /\ response' = IF projector = "broken" THEN "error" ELSE TurnResult
         /\ SaysNothing \/ (\E kind \in EventKinds \ ToolEvents : SaysPlain(kind)) \/ CardSpeech
<1> DEFINE Goal ==
         /\ UNCHANGED clientVars
         /\ result' # result => integ.phase # "Terminal"
         /\ \/ response' = response
            \/ /\ projector # "running" /\ result' = result
               /\ response' = IF projector = "broken" THEN "error" ELSE TurnResult
         /\ SaysNothing \/ (\E kind \in EventKinds \ ToolEvents : SaysPlain(kind)) \/ CardSpeech
<1>0. /\ EmitterOK /\ PhaseKept /\ ResultSet
      /\ pc \in Locations /\ pc' \in Locations
      /\ result \in {"none", "ok", "cancelled", "max_rounds", "failed"}
      /\ pc \in Calling \union {"announce", "skip_result"} \/ executable # <<>> =>
           Current \in Calls
  <2>1. TypeInv /\ TypeInv'
    BY TypeInvInductive DEF ControlInv
  <2>2. QED
    BY <2>1, TypeGroups, RangeOfTail
       DEF ControlInv, FlowInv, TypeInv, TypeOK, CurrentThere, Current
<1>1. ASSUME UNCHANGED emitterVars
      PROVE  UNCHANGED <<sequence, queue>> /\ integ' = integ
  BY <1>1 DEF emitterVars
<1> USE DEF PhaseKept, ResultSet, Opening, Rounds, Ending, Calling, TerminalOf, TerminalFor
<1>2. CASE BeginTurn
  BY <1>0, <1>1, <1>2 DEF BeginTurn, SaysNothing
<1>3. CASE Upload
  BY <1>0, <1>1, <1>3 DEF Upload, SaysNothing
<1>4. CASE FailBeforeExecution
  BY <1>0, <1>1, <1>4, EmissionCases, PlainKinds
     DEF FailBeforeExecution, SaysNothing, SaysPlain, CardSpeech, SaysCard,
         TerminalEvents, Silent
<1>5. CASE Precheck
  BY <1>0, <1>1, <1>5, EmissionCases, PlainKinds
     DEF Precheck, Goto, Publish, SaysNothing, SaysPlain, CardSpeech, SaysCard,
         TerminalEvents, Silent, Says, Emits
<1>6. CASE Run
  BY <1>0, <1>1, <1>6, EmissionCases, PlainKinds
     DEF Run, Publish, Goto, Leave, UnlessCancelled, SaysNothing, SaysPlain, CardSpeech,
         SaysCard, TerminalEvents, Silent, Says, Emits
<1>7. CASE RoundStart
  BY <1>0, <1>1, <1>7 DEF RoundStart, Goto, Leave, UnlessCancelled, SaysNothing
<1>8. CASE Request
  BY <1>0, <1>1, <1>8 DEF Request, Goto, Leave, UnlessCancelled, SaysNothing
<1>9. CASE StreamItem
  BY <1>0, <1>1, <1>9 DEF StreamItem, Goto, Leave, UnlessCancelled, SaysNothing
<1>10. CASE StreamOver
  BY <1>0, <1>1, <1>10 DEF StreamOver, SaysNothing
<1>11. CASE ReasoningDelta
  BY <1>0, <1>1, <1>11, EmissionCases, PlainKinds
     DEF ReasoningDelta, SaysNothing, SaysPlain, CardSpeech, SaysCard, TerminalEvents,
         Silent
<1>12. CASE TextDelta
  BY <1>0, <1>1, <1>12, EmissionCases, PlainKinds
     DEF TextDelta, SaysNothing, SaysPlain, CardSpeech, SaysCard, TerminalEvents, Silent
<1>13. CASE CloseScopes
  BY <1>0, <1>1, <1>13, EmissionCases, PlainKinds
     DEF CloseScopes, Publish, SaysNothing, SaysPlain, CardSpeech, SaysCard,
         TerminalEvents, Silent, Says, Emits
<1>14. CASE WrapStream
  <2>1. YieldsToAction(integ).phase = integ.phase /\ YieldsToAction(integ).tools = integ.tools
    BY <1>0 DEF YieldsToAction, EmitterOK, Integrities
  <2>2. QED
    BY <1>0, <1>1, <1>14, <2>1, EmissionCases, PlainKinds
       DEF WrapStream, Goto, SaysNothing, SaysPlain, TerminalEvents, Silent
<1>15. CASE Judge
  BY <1>0, <1>1, <1>15 DEF Judge, Goto, Leave, UnlessCancelled, SaysNothing
<1>16. CASE Sort
  BY <1>0, <1>1, <1>16 DEF Sort, Goto, Leave, UnlessCancelled, SaysNothing
<1>17. CASE AskAction
  BY <1>0, <1>1, <1>17 DEF AskAction, Goto, Leave, UnlessCancelled, SaysNothing
<1>18. CASE Skip
  <2>1. /\ pc \in {"skip"} /\ UNCHANGED clientVars /\ response' = response
        /\ executable' = executable
    BY <1>18 DEF Skip, roundVars
  <2>2. \/ Silent /\ pc' = "round" /\ result' = result
        \/ /\ pc = "skip" /\ Current \in Calls
           /\ \/ SaysOf("tool_call_requested", "done") /\ pc' = "skip_result" /\ result' = result
              \/ Silent /\ pc' = "exit" /\ result' = "failed"
    BY <1>0, <1>18, EmissionCases DEF Skip, Silent, Goto
  <2>3. QED
    BY <1>0, <1>1, <2>1, <2>2 DEF SaysNothing, CardSpeech, SaysCard, Silent
<1>19. CASE SkipResult
  <2>1. /\ pc = "skip_result" /\ UNCHANGED clientVars /\ response' = response
        /\ Current \in Calls
        /\ "skip" \in Calling \union {"skip_result"} => executable' = executable
    BY <1>0, <1>19 DEF SkipResult, roundVars
  <2>2. \/ SaysOf("tool_result_received", "done") /\ pc' = "skip" /\ result' = result
        \/ Silent /\ pc' = "exit" /\ result' = "failed"
    BY <1>19, EmissionCases DEF SkipResult
  <2>3. QED
    BY <1>0, <1>1, <2>1, <2>2 DEF SaysNothing, CardSpeech, SaysCard, Silent
<1>20. CASE Conclude
  BY <1>0, <1>1, <1>20, EmissionCases, PlainKinds
     DEF Conclude, Publish, Goto, Leave, UnlessCancelled, SaysNothing, SaysPlain,
         CardSpeech, SaysCard, TerminalEvents, Silent, Says, Emits
<1>21. CASE Budget
  BY <1>0, <1>1, <1>21 DEF Budget, Goto, Leave, UnlessCancelled, SaysNothing
<1>22. CASE NextCall
  <2>1. /\ pc \in {"call", "announce"} /\ UNCHANGED clientVars /\ response' = response
        /\ executable' = executable
    BY <1>22 DEF NextCall, roundVars
  <2>2. \/ /\ Silent /\ pc = "call" /\ pc' \in {"round", "announce", "exit"}
           /\ result' \in {result, "cancelled"}
        \/ /\ pc = "announce" /\ Current \in Calls
           /\ \/ SaysOf("tool_call_requested", "pending") /\ pc' = "gate" /\ result' = result
              \/ Silent /\ pc' = "exit" /\ result' = "failed"
    BY <1>0, <1>22, EmissionCases DEF NextCall, Silent, Goto, Leave, UnlessCancelled
  <2>3. QED
    BY <1>0, <1>1, <2>1, <2>2 DEF SaysNothing, CardSpeech, SaysCard, Silent
<1>23. CASE Decide
  <2>1. /\ pc \in {"gate", "deciding"} /\ UNCHANGED clientVars /\ response' = response
        /\ executable' = executable
    BY <1>23 DEF Decide, roundVars
  <2>2. \/ /\ Silent /\ result' \in {result, "cancelled"}
           /\ \/ pc = "gate" /\ pc' = "execute"
              \/ pc' = "exit"
              \/ pc = "deciding" /\ pc' \in {"returned", "listening"}
        \/ /\ pc = "gate" /\ Current \in Calls
           /\ \/ SaysOf("permission_requested", "none") /\ pc' = "deciding" /\ result' = result
              \/ Silent /\ pc' = "exit" /\ result' = "failed"
    BY <1>0, <1>23, EmissionCases DEF Decide, Silent, Goto, Leave, UnlessCancelled
  <2>3. QED
    BY <1>0, <1>1, <2>1, <2>2 DEF SaysNothing, CardSpeech, SaysCard, Silent
<1>34. CASE Permission
  BY <1>0, <1>1, <1>34 DEF Permission, Goto, Leave, SaysNothing, roundVars
<1>35. CASE Returned
  BY <1>0, <1>1, <1>35 DEF Returned, Goto, Leave, UnlessCancelled, SaysNothing, roundVars
<1>24. CASE Execute
  <2>1. /\ pc = "execute" /\ UNCHANGED clientVars /\ response' = response
        /\ Current \in Calls
        /\ "running" \in Calling \union {"skip_result"} => executable' = executable
    BY <1>0, <1>24 DEF Execute, roundVars
  <2>2. \/ SaysOf("tool_execution_started", "running") /\ pc' = "running" /\ result' = result
        \/ Silent /\ pc' = "exit" /\ result' = "failed"
    BY <1>24, EmissionCases DEF Execute
  <2>3. QED
    BY <1>0, <1>1, <2>1, <2>2 DEF SaysNothing, CardSpeech, SaysCard, Silent
<1>25. CASE ToolReturns
  BY <1>0, <1>1, <1>25 DEF ToolReturns, Goto, SaysNothing, roundVars
<1>26. CASE ToolResult
  <2>1. /\ pc = "result" /\ UNCHANGED clientVars /\ response' = response
        /\ Current \in Calls
        /\ "call" \in Calling \union {"skip_result"} => executable' = executable
    BY <1>0, <1>26 DEF ToolResult, roundVars
  <2>2. \/ SaysOf("tool_result_received", "done") /\ pc' = "call" /\ result' = result
        \/ Silent /\ pc' = "exit" /\ result' = "failed"
    BY <1>26, EmissionCases DEF ToolResult
  <2>3. QED
    BY <1>0, <1>1, <2>1, <2>2 DEF SaysNothing, CardSpeech, SaysCard, Silent
<1>27. CASE EndWithError
  BY <1>0, <1>1, <1>27, EmissionCases, PlainKinds
     DEF EndWithError, SaysNothing, SaysPlain, CardSpeech, SaysCard, TerminalEvents,
         Silent
<1>28. CASE Finish
  BY <1>0, <1>1, <1>28 DEF Finish, SaysNothing
<1>29. CASE Backstop
  <2>1. Silent
    BY <1>0, <1>29, EmissionCases, SpeechPhase, PlainKinds DEF Backstop, Silent, TerminalEvents
  <2>2. QED
    BY <1>0, <1>1, <1>29, <2>1 DEF Backstop, SaysNothing, Silent
<1>30. CASE Respond
  BY <1>0, <1>1, <1>30 DEF Respond, SaysNothing
<1>31. CASE Cancel
  BY <1>0, <1>1, <1>31 DEF Cancel, SaysNothing, roundVars
<1>32. CASE UNCHANGED vars
  BY <1>0, <1>32 DEF vars, clientVars, SaysNothing
<1>36. QED
  BY <1>2, <1>3, <1>4, <1>5, <1>6, <1>7, <1>8, <1>9, <1>10, <1>11, <1>12, <1>13, <1>14,
     <1>15, <1>16, <1>17, <1>18, <1>19, <1>20, <1>21, <1>22, <1>23, <1>24, <1>25, <1>26,
     <1>27, <1>28, <1>29, <1>30, <1>31, <1>32, <1>34, <1>35 DEF Next, Proceed, Await

(* What the projector takes from the channel and leaves there.             *)
LEMMA ProjectTakes ==
  ASSUME EmitterOK, Project
  PROVE  /\ projector = "running" /\ queue # <<>>
         /\ Head(queue) \in Events /\ Head(queue) = queue[1] /\ 1 \in 1..Len(queue)
         /\ queue' \in Seq(Events) /\ Len(queue') = Len(queue) - 1
         /\ \A i \in 1..Len(queue') : i + 1 \in 1..Len(queue) /\ queue'[i] = queue[i + 1]
         /\ UNCHANGED <<pc, integ, sequence, result, response>>
         /\ UNCHANGED <<streamVars, roundVars, loopVars, serviceVars>>
<1>1. queue # <<>> /\ queue \in Seq(Events) /\ queue' = Tail(queue)
  BY DEF Project, EmitterOK
<1>2. /\ Head(queue) \in Events /\ Head(queue) = queue[1] /\ 1 \in 1..Len(queue)
      /\ queue' \in Seq(Events) /\ Len(queue') = Len(queue) - 1
      /\ \A i \in 1..Len(queue') : i + 1 \in 1..Len(queue) /\ queue'[i] = queue[i + 1]
  BY <1>1
<1>3. QED
  BY <1>1, <1>2 DEF Project

LEMMA JournalInductive ==
  /\ Init => JournalInv
  /\ JournalInv /\ [Next]_vars => JournalInv'
<1>1. ASSUME Init
      PROVE  JournalInv
  <2>1. ControlInv
    BY <1>1, ControlInvInductive
  <2>2. /\ queue = <<>> /\ sequence = 0 /\ expected = 0 /\ projector = "running"
        /\ response = "none" /\ 1..Len(queue) = {} /\ Len(queue) = 0
    BY <1>1 DEF Init
  <2>3. DOMAIN queue = {}
    BY <2>2
  <2>4. SequenceUnbroken /\ ResponseAgrees
    BY <2>2, <2>3 DEF SequenceUnbroken, ResponseAgrees
  <2>5. TerminalLast
    BY <2>2 DEF TerminalLast, Told, TerminalEvents
  <2>6. QED
    BY <2>1, <2>4, <2>5 DEF JournalInv
<1>2. ASSUME JournalInv, [Next]_vars
      PROVE  JournalInv'
  <2> USE <1>2
  <2>0. /\ ControlInv /\ ControlInv'
        /\ EmitterOK /\ EmitterOK' /\ expected \in Nat
        /\ projector \in {"running", "broken"} \union TerminalEvents
        /\ SequenceUnbroken /\ TerminalLast /\ ResponseAgrees
        /\ DOMAIN queue = 1..Len(queue) /\ DOMAIN queue' = 1..Len(queue') /\ Len(queue) \in Nat
    <3>1. ControlInv /\ ControlInv'
      BY ControlInvInductive DEF JournalInv
    <3>2. EmitterOK /\ EmitterOK'
      BY <3>1, TypeGroups DEF ControlInv, TypeInv
    <3>3. QED
      BY <3>1, <3>2 DEF JournalInv, ControlInv, TypeInv, TypeOK, EmitterOK
  <2>1. CASE Project
    <3> DEFINE e == Head(queue)
    <3>1. /\ projector = "running" /\ e = queue[1] /\ 1 \in 1..Len(queue)
          /\ Len(queue') = Len(queue) - 1
          /\ \A i \in 1..Len(queue') : i + 1 \in 1..Len(queue) /\ queue'[i] = queue[i + 1]
          /\ integ' = integ /\ sequence' = sequence /\ result' = result /\ response' = response
      BY <2>0, <2>1, ProjectTakes
    <3>a. /\ sequence = expected + Len(queue)
          /\ \A i \in 1..Len(queue) : queue[i].seq = expected + i - 1
      <4>1. projector = "running" /\ SequenceUnbroken /\ DOMAIN queue = 1..Len(queue)
        BY <2>0, <3>1
      <4>2. QED
        BY <4>1 DEF SequenceUnbroken
    <3>2. e.seq = expected
      <4>1. queue[1].seq = expected + 1 - 1 /\ e = queue[1] /\ expected \in Nat
        BY <2>0, <3>1, <3>a
      <4>2. QED
        BY <4>1
    <3>3. /\ expected' = expected + 1
          /\ \/ projector' = "running" /\ e.kind \notin TerminalEvents
             \/ projector' = "broken"
             \/ projector' = e.kind /\ e.kind \in TerminalEvents
      BY <2>1, <3>1, <3>2 DEF Project, Break
    <3>4. "running" \notin TerminalEvents /\ "broken" \notin TerminalEvents
      BY DEF TerminalEvents
    <3> HIDE DEF e
    <3>5. SequenceUnbroken'
      <4>1. /\ expected' = expected + 1 /\ expected \in Nat /\ sequence' = sequence
            /\ Len(queue') = Len(queue) - 1 /\ Len(queue) \in Nat
            /\ DOMAIN queue' = 1..Len(queue')
        BY <2>0, <3>1, <3>3
      <4>2. sequence' = expected' + Len(queue')
        BY <3>a, <4>1
      <4>3. ASSUME NEW i \in 1..Len(queue')
            PROVE  queue'[i].seq = expected' + i - 1
        <5>1. i + 1 \in 1..Len(queue) /\ queue'[i] = queue[i + 1] /\ i \in Nat
          BY <3>1, <4>1
        <5>2. queue[i + 1].seq = expected + (i + 1) - 1
          BY <3>a, <5>1
        <5>3. QED
          BY <4>1, <5>1, <5>2
      <4>4. QED
        BY <4>1, <4>2, <4>3 DEF SequenceUnbroken
    <3>6. ResponseAgrees'
      BY <2>0, <3>1 DEF ResponseAgrees, ControlInv, FlowInv, LeaseKept
    <3>7. \A kind \in TerminalEvents : Told(kind)' => Told(kind)
      BY <3>1, <3>3, <3>4 DEF Told
    <3>8. TerminalLast'
      <4>1. \A i \in 1..Len(queue') : queue'[i].kind \in TerminalEvents => i = Len(queue')
        <5>1. \A j \in 1..Len(queue) : queue[j].kind \in TerminalEvents => j = Len(queue)
          BY <2>0, <3>1 DEF TerminalLast
        <5>2. ASSUME NEW i \in 1..Len(queue'), queue'[i].kind \in TerminalEvents
              PROVE  i = Len(queue')
          <6>0. i + 1 \in 1..Len(queue) /\ queue'[i] = queue[i + 1]
            BY <3>1
          <6>1. i + 1 \in 1..Len(queue) /\ queue[i + 1].kind \in TerminalEvents
            BY <5>2, <6>0
          <6>2. i + 1 = Len(queue)
            BY <5>1, <6>1
          <6>3. Len(queue') = Len(queue) - 1 /\ Len(queue) \in Nat /\ i \in 1..Len(queue')
            BY <2>0, <3>1
          <6>4. QED
            BY <6>2, <6>3
        <5>3. QED
          BY <5>2
      <4>2. \A kind \in TerminalEvents : Told(kind)' => kind = TerminalOf(result')
        BY <2>0, <3>1, <3>7 DEF TerminalLast
      <4>3. integ'.phase # "Terminal" => \A kind \in TerminalEvents : ~Told(kind)'
        BY <2>0, <3>1, <3>7 DEF TerminalLast
      <4>4. QED
        BY <4>1, <4>2, <4>3 DEF TerminalLast
    <3>9. QED
      BY <2>0, <3>5, <3>6, <3>8 DEF JournalInv
  <2>2. CASE ~Project
    <3>1. /\ projector' = projector /\ expected' = expected
          /\ result' # result => integ.phase # "Terminal"
          /\ \/ response' = response
             \/ /\ projector # "running" /\ result' = result
                /\ response' = IF projector = "broken" THEN "error" ELSE TurnResult
          /\ SaysNothing \/ (\E kind \in EventKinds \ ToolEvents : SaysPlain(kind)) \/ CardSpeech
      BY <2>0, <2>2, StepSpeech DEF clientVars
    <3>2. ResponseAgrees'
      <4>1. CASE response' = response
        BY <2>0, <3>1, <4>1 DEF ResponseAgrees
      <4>2. CASE /\ projector # "running" /\ result' = result
                 /\ response' = IF projector = "broken" THEN "error" ELSE TurnResult
        <5>1. projector # "broken" => projector = TerminalOf(result)
          BY <2>0, <4>2 DEF TerminalLast, Told
        <5>2. QED
          BY <3>1, <4>2, <5>1 DEF ResponseAgrees, TurnResult, TerminalOf, TerminalFor
      <4>3. QED
        BY <3>1, <4>1, <4>2
    <3>3. CASE SaysNothing
      <4>1. queue' = queue /\ sequence' = sequence /\ integ'.phase = integ.phase
        BY <3>3 DEF SaysNothing
      <4>2. \A kind : Told(kind)' <=> Told(kind)
        BY <3>1, <4>1 DEF Told
      <4>3. SequenceUnbroken' /\ TerminalLast'
        BY <2>0, <3>1, <4>1, <4>2 DEF SequenceUnbroken, TerminalLast
      <4>4. QED
        BY <2>0, <3>2, <4>3 DEF JournalInv
    <3>4. ASSUME NEW kind \in EventKinds, NEW c \in Calls \union {NoCall},
                 NEW shown \in {"none", "pending", "running", "done"},
                 kind \in ToolEvents => c \in Calls, Emits(kind, c, shown),
                 kind \in TerminalEvents => kind = TerminalOf(result')
          PROVE  JournalInv'
      <4>1. /\ projector = "running" /\ Admits(integ, kind, c)
            /\ integ' = After(integ, kind, c) /\ sequence' = sequence + 1
            /\ Len(queue') = Len(queue) + 1
            /\ \A i \in 1..Len(queue) : queue'[i] = queue[i]
            /\ queue'[Len(queue) + 1] = EventOf(kind, c, shown)
        BY <2>0, <3>4, EmitsEffect
      <4>2. /\ integ.phase # "Terminal"
            /\ integ'.phase # "Terminal" => kind \notin TerminalEvents
        BY <2>0, <3>4, <4>1, AfterEffect DEF Admits, EmitterOK, TerminalEvents
      <4>3. EventOf(kind, c, shown).kind = kind /\ EventOf(kind, c, shown).seq = sequence
        BY DEF EventOf
      <4>4. \A i \in 1..Len(queue') : i \in 1..Len(queue) \/ i = Len(queue) + 1
        BY <2>0, <4>1
      <4>5. SequenceUnbroken'
        BY <2>0, <3>1, <4>1, <4>3, <4>4 DEF SequenceUnbroken, EmitterOK
      <4>6. \A k \in TerminalEvents : ~Told(k) /\ (Told(k)' => k = kind)
        <5>1. \A k \in TerminalEvents : ~Told(k)
          BY <2>0, <4>2 DEF TerminalLast
        <5>2. QED
          BY <3>1, <4>1, <4>3, <4>4, <5>1 DEF Told
      <4>7. \A i \in 1..Len(queue) : queue[i].kind \notin TerminalEvents
        BY <4>6 DEF Told
      <4>8. TerminalLast'
        BY <3>4, <4>1, <4>2, <4>3, <4>4, <4>6, <4>7 DEF TerminalLast
      <4>9. QED
        BY <2>0, <3>2, <4>5, <4>8 DEF JournalInv
    <3>5. ASSUME NEW kind \in EventKinds \ ToolEvents, SaysPlain(kind)
          PROVE  JournalInv'
      BY <3>4, <3>5 DEF SaysPlain, Says
    <3>6. CASE CardSpeech
      <4>1. \E kind \in ToolEvents, shown \in {"none", "pending", "running", "done"} :
              SaysOf(kind, shown) /\ Current \in Calls
        BY <3>6 DEF CardSpeech, SaysCard, ToolEvents
      <4>2. ToolEvents \subseteq EventKinds /\ ToolEvents \cap TerminalEvents = {}
        BY DEF ToolEvents, TerminalEvents, EventKinds
      <4>3. QED
        BY <3>4, <4>1, <4>2 DEF SaysOf
    <3>7. QED
      BY <3>1, <3>3, <3>5, <3>6
  <2>3. QED
    BY <2>1, <2>2
<1>3. QED
  BY <1>1, <1>2

-----------------------------------------------------------------------------
(* What the client was shown of each call, and will be.                    *)

LEMMA Ranks ==
  /\ Rank("none") = 0 /\ Rank("hidden") = 0
  /\ Rank("pending") = 1 /\ Rank("running") = 2 /\ Rank("done") = 3
BY DEF Rank

(* The channel after one more event.                                       *)
Appended(e) ==
  /\ Len(queue') = Len(queue) + 1
  /\ \A i \in 1..Len(queue) : queue'[i] = queue[i]
  /\ queue'[Len(queue) + 1] = e

LEMMA AppendedIndices ==
  ASSUME EmitterOK, NEW e, Appended(e)
  PROVE  /\ Len(queue) \in Nat /\ Len(queue) + 1 \in 1..Len(queue')
         /\ \A i \in 1..Len(queue) : i \in 1..Len(queue') /\ i < Len(queue) + 1
         /\ \A i \in 1..Len(queue') : i \in 1..Len(queue) \/ i = Len(queue) + 1
BY DEF EmitterOK, Appended

(* An event shows its call and no other.                                   *)
LEMMA AppendedShown ==
  ASSUME EmitterOK, NEW e, Appended(e), card' = card, NEW c, NEW shown
  PROVE  Shown(c, shown)' <=> Shown(c, shown) \/ (e.call = c /\ e.shown = shown)
BY AppendedIndices DEF Appended, Shown

LEMMA AppendedAdvance ==
  ASSUME EmitterOK, ClientOK, CardsAdvance, NEW e \in Events, Appended(e), card' = card,
         e.shown # "none" =>
           /\ e.call \in Calls /\ e.kind \in ToolEvents
           /\ \A shown \in Views : Shown(e.call, shown) => Rank(shown) < Rank(e.shown)
           /\ e.shown = "running" => Shown(e.call, "pending")
  PROVE  CardsAdvance'
<1>0. /\ Len(queue) \in Nat /\ Len(queue) + 1 \in 1..Len(queue')
      /\ \A i \in 1..Len(queue) : i \in 1..Len(queue') /\ i < Len(queue) + 1
      /\ \A i \in 1..Len(queue') : i \in 1..Len(queue) \/ i = Len(queue) + 1
      /\ \A i \in 1..Len(queue) : queue'[i] = queue[i] /\ queue[i] \in Events
      /\ queue'[Len(queue) + 1] = e
  BY AppendedIndices DEF Appended, EmitterOK
<1>1. SUFFICES ASSUME NEW i \in 1..Len(queue'), queue'[i].shown # "none"
               PROVE  /\ queue'[i].call \in Calls /\ queue'[i].kind \in ToolEvents
                      /\ Rank(card[queue'[i].call]) < Rank(queue'[i].shown)
                      /\ \A j \in 1..Len(queue') :
                           j < i /\ queue'[j].call = queue'[i].call =>
                             Rank(queue'[j].shown) < Rank(queue'[i].shown)
                      /\ queue'[i].shown = "running" =>
                           \/ card[queue'[i].call] = "pending"
                           \/ \E j \in 1..Len(queue') :
                                /\ j < i /\ queue'[j].call = queue'[i].call
                                /\ queue'[j].shown = "pending"
  BY DEF CardsAdvance
<1>2. CASE i \in 1..Len(queue)
  <2>1. /\ queue[i].call \in Calls /\ queue[i].kind \in ToolEvents
        /\ Rank(card[queue[i].call]) < Rank(queue[i].shown)
        /\ \A j \in 1..Len(queue) :
             j < i /\ queue[j].call = queue[i].call => Rank(queue[j].shown) < Rank(queue[i].shown)
        /\ queue[i].shown = "running" =>
             \/ card[queue[i].call] = "pending"
             \/ \E j \in 1..Len(queue) :
                  j < i /\ queue[j].call = queue[i].call /\ queue[j].shown = "pending"
    BY <1>0, <1>1, <1>2 DEF CardsAdvance
  <2>2. \A j \in 1..Len(queue') : j < i => j \in 1..Len(queue)
    BY <1>0, <1>2
  <2>3. QED
    BY <1>0, <1>2, <2>1, <2>2
<1>3. CASE i = Len(queue) + 1
  <2>1. /\ queue'[i] = e /\ e.call \in Calls /\ e.kind \in ToolEvents
        /\ \A shown \in Views : Shown(e.call, shown) => Rank(shown) < Rank(e.shown)
        /\ e.shown = "running" => Shown(e.call, "pending")
        /\ e.shown \in Views /\ card[e.call] \in {"hidden"} \union Views
    BY <1>0, <1>1, <1>3 DEF ClientOK, Events, Views
  <2>2. \A shown \in Views \union {"none", "hidden"} : Rank(shown) < Rank(e.shown)
          \/ (shown \in Views /\ ~Shown(e.call, shown))
    BY <2>1, Ranks DEF Views
  <2>3. Rank(card[e.call]) < Rank(e.shown)
    BY <2>1, <2>2 DEF Shown
  <2>4. \A j \in 1..Len(queue') : j < i => j \in 1..Len(queue)
    BY <1>0, <1>3
  <2>5. \A j \in 1..Len(queue) : queue[j].call = e.call => Rank(queue[j].shown) < Rank(e.shown)
    <3>1. TAKE j \in 1..Len(queue)
    <3>2. HAVE queue[j].call = e.call
    <3>3. queue[j].shown \in Views \union {"none"}
      BY <1>0 DEF Events, Views
    <3>4. Shown(e.call, queue[j].shown)
      BY <3>2 DEF Shown
    <3>5. QED
      BY <2>2, <3>3, <3>4
  <2>6. QED
    BY <1>0, <1>3, <2>1, <2>3, <2>4, <2>5 DEF Shown
<1>4. QED
  BY <1>0, <1>2, <1>3

(* An event the projector passes on is what its card shows from then on.   *)
Passed(e) ==
  /\ card' = IF e.shown = "none" THEN card ELSE [card EXCEPT ![e.call] = e.shown]
  /\ Len(queue') = Len(queue) - 1
  /\ \A i \in 1..Len(queue') : i + 1 \in 1..Len(queue) /\ queue'[i] = queue[i + 1]

LEMMA PassedIndices ==
  ASSUME EmitterOK, 1 \in 1..Len(queue), Passed(queue[1])
  PROVE  /\ queue[1] \in Events
         /\ \A i \in 1..Len(queue) :
              i = 1 \/ (i - 1 \in 1..Len(queue') /\ queue'[i - 1] = queue[i])
<1>1. queue[1] \in Events /\ Len(queue) \in Nat
  BY DEF EmitterOK
<1>2. ASSUME NEW i \in 1..Len(queue), i # 1
      PROVE  i - 1 \in 1..Len(queue') /\ queue'[i - 1] = queue[i]
  <2>1. i - 1 \in 1..Len(queue') /\ (i - 1) + 1 = i
    BY <1>1, <1>2 DEF Passed
  <2>2. queue'[i - 1] = queue[(i - 1) + 1]
    BY <2>1 DEF Passed
  <2>3. QED
    BY <2>1, <2>2
<1>3. QED
  BY <1>1, <1>2

LEMMA PassedShown ==
  ASSUME EmitterOK, ClientOK, CardsAdvance, 1 \in 1..Len(queue), Passed(queue[1]),
         NEW c \in Calls
  PROVE  /\ \A shown \in Views : Shown(c, shown)' => Shown(c, shown)
         /\ Shown(c, "done") => Shown(c, "done")'
         /\ Shown(c, "pending") /\ ~Shown(c, "running") /\ ~Shown(c, "done") =>
              Shown(c, "pending")'
<1> DEFINE e == queue[1]
<1>1. /\ e \in Events
      /\ card' = IF e.shown = "none" THEN card ELSE [card EXCEPT ![e.call] = e.shown]
      /\ \A i \in 1..Len(queue') : i + 1 \in 1..Len(queue) /\ queue'[i] = queue[i + 1]
      /\ \A i \in 1..Len(queue) : i = 1 \/ (i - 1 \in 1..Len(queue') /\ queue'[i - 1] = queue[i])
  BY PassedIndices DEF Passed
<1>2. /\ card \in [Calls -> {"hidden"} \union Views]
      /\ e.shown \in {"none"} \union Views
      /\ e.shown # "none" => e.call \in Calls /\ Rank(card[e.call]) < Rank(e.shown)
  BY <1>1 DEF ClientOK, CardsAdvance, Events, Views
<1>3. \/ card'[c] = card[c] /\ (e.call = c => e.shown = "none")
      \/ card'[c] = e.shown /\ e.call = c /\ e.shown \in Views /\ Rank(card[c]) < Rank(e.shown)
  BY <1>1, <1>2
<1>4. ASSUME NEW shown \in Views, Shown(c, shown)'
      PROVE  Shown(c, shown)
  <2>1. CASE card'[c] = shown
    BY <1>3, <2>1 DEF Shown
  <2>2. ASSUME NEW i \in 1..Len(queue'), queue'[i].call = c, queue'[i].shown = shown
        PROVE  Shown(c, shown)
    BY <1>1, <2>2 DEF Shown
  <2>3. QED
    BY <1>4, <2>1, <2>2 DEF Shown
<1>5. ASSUME NEW shown \in Views, Shown(c, shown)
      PROVE  Shown(c, shown)' \/ (card[c] = shown /\ e.call = c /\ e.shown \in Views
                                  /\ Rank(shown) < Rank(e.shown))
  <2>1. CASE card[c] = shown
    BY <1>3, <2>1 DEF Shown
  <2>2. ASSUME NEW i \in 1..Len(queue), queue[i].call = c, queue[i].shown = shown
        PROVE  Shown(c, shown)'
    <3>1. CASE i = 1
      BY <1>3, <2>2, <3>1 DEF Shown, Views
    <3>2. CASE i # 1
      BY <1>1, <2>2, <3>2 DEF Shown
    <3>3. QED
      BY <3>1, <3>2
  <2>3. QED
    BY <1>5, <2>1, <2>2 DEF Shown
<1>6. Shown(c, "done") => Shown(c, "done")'
  BY <1>5, Ranks DEF Views
<1>7. ASSUME e.call = c, e.shown \in Views
      PROVE  Shown(c, e.shown)
  BY <1>7 DEF Shown
<1> HIDE DEF e
<1>8. Shown(c, "pending") /\ ~Shown(c, "running") /\ ~Shown(c, "done") => Shown(c, "pending")'
  BY <1>5, <1>7, Ranks DEF Views
<1>9. QED
  BY <1>4, <1>6, <1>8

LEMMA PassedAdvance ==
  ASSUME EmitterOK, ClientOK, CardsAdvance, 1 \in 1..Len(queue), Passed(queue[1])
  PROVE  CardsAdvance'
<1> DEFINE e == queue[1]
<1>1. /\ e \in Events
      /\ card' = IF e.shown = "none" THEN card ELSE [card EXCEPT ![e.call] = e.shown]
      /\ \A i \in 1..Len(queue') : i + 1 \in 1..Len(queue) /\ queue'[i] = queue[i + 1]
      /\ \A i \in 1..Len(queue) : i = 1 \/ (i - 1 \in 1..Len(queue') /\ queue'[i - 1] = queue[i])
  BY PassedIndices DEF Passed
<1>2. card \in [Calls -> {"hidden"} \union Views] /\ e.shown \in {"none"} \union Views
  BY <1>1 DEF ClientOK, Events, Views
<1>3. e.shown # "none" => e.call \in Calls /\ Rank(card[e.call]) < Rank(e.shown)
  BY DEF CardsAdvance
<1>4. SUFFICES ASSUME NEW i \in 1..Len(queue'), queue'[i].shown # "none"
               PROVE  /\ queue'[i].call \in Calls /\ queue'[i].kind \in ToolEvents
                      /\ Rank(card'[queue'[i].call]) < Rank(queue'[i].shown)
                      /\ \A j \in 1..Len(queue') :
                           j < i /\ queue'[j].call = queue'[i].call =>
                             Rank(queue'[j].shown) < Rank(queue'[i].shown)
                      /\ queue'[i].shown = "running" =>
                           \/ card'[queue'[i].call] = "pending"
                           \/ \E j \in 1..Len(queue') :
                                /\ j < i /\ queue'[j].call = queue'[i].call
                                /\ queue'[j].shown = "pending"
  BY DEF CardsAdvance
<1> DEFINE k == i + 1
           c == queue[k].call
<1>5. k \in 1..Len(queue) /\ queue'[i] = queue[k] /\ queue[k].shown # "none" /\ 1 < k
  BY <1>1, <1>4
<1> HIDE DEF k
<1>6. /\ c \in Calls /\ queue[k].kind \in ToolEvents
      /\ Rank(card[c]) < Rank(queue[k].shown)
      /\ \A j \in 1..Len(queue) :
           j < k /\ queue[j].call = c => Rank(queue[j].shown) < Rank(queue[k].shown)
      /\ queue[k].shown = "running" =>
           \/ card[c] = "pending"
           \/ \E j \in 1..Len(queue) : j < k /\ queue[j].call = c /\ queue[j].shown = "pending"
  BY <1>5 DEF CardsAdvance
<1>7. e.call = c => Rank(e.shown) < Rank(queue[k].shown)
  BY <1>5, <1>6
<1> HIDE DEF c, e
<1>8. \/ card'[c] = card[c] /\ (e.call = c => e.shown = "none")
      \/ card'[c] = e.shown /\ e.call = c /\ e.shown \in Views
  BY <1>1, <1>2, <1>3, <1>6
<1>9. Rank(card'[c]) < Rank(queue[k].shown)
  BY <1>6, <1>7, <1>8
<1>10. \A j \in 1..Len(queue') : j < i => j + 1 \in 1..Len(queue) /\ j + 1 < k /\ queue'[j] = queue[j + 1]
  BY <1>1 DEF k
<1>11. ASSUME queue[k].shown = "running"
       PROVE  \/ card'[c] = "pending"
              \/ \E j \in 1..Len(queue') :
                   j < i /\ queue'[j].call = c /\ queue'[j].shown = "pending"
  <2>1. CASE card[c] = "pending"
    <3>1. card'[c] = card[c] \/ (Rank("pending") < Rank(e.shown) /\ Rank(e.shown) < Rank("running"))
      BY <1>3, <1>7, <1>8, <1>11, <2>1 DEF Views
    <3>2. ~(Rank("pending") < Rank(e.shown) /\ Rank(e.shown) < Rank("running"))
      BY <1>2, Ranks DEF Views
    <3>3. QED
      BY <2>1, <3>1, <3>2
  <2>2. ASSUME NEW j \in 1..Len(queue), j < k, queue[j].call = c, queue[j].shown = "pending"
        PROVE  \/ card'[c] = "pending"
               \/ \E m \in 1..Len(queue') :
                    m < i /\ queue'[m].call = c /\ queue'[m].shown = "pending"
    <3>1. CASE j = 1
      BY <1>8, <2>2, <3>1 DEF e
    <3>2. CASE j # 1
      <4>1. j - 1 \in 1..Len(queue') /\ queue'[j - 1] = queue[j] /\ j - 1 < i
        BY <1>1, <2>2, <3>2 DEF k
      <4>2. QED
        BY <2>2, <4>1
    <3>3. QED
      BY <3>1, <3>2
  <2>3. QED
    BY <1>6, <1>11, <2>1, <2>2
<1>12. QED
  <2>1. queue'[i].call = c
    BY <1>5 DEF c
  <2>2. \A j \in 1..Len(queue') :
          j < i /\ queue'[j].call = c => Rank(queue'[j].shown) < Rank(queue[k].shown)
    BY <1>6, <1>10
  <2>3. QED
    BY <1>5, <1>6, <1>9, <1>11, <2>1, <2>2

(* What an emission does to the phases of the tool calls.                  *)
LEMMA ToolsAfter ==
  ASSUME NEW t \in Integrities, NEW kind \in EventKinds, NEW c,
         kind \in ToolEvents => c \in Calls
  PROVE  /\ kind \in ToolEvents =>
              /\ After(t, kind, c).tools = [t.tools EXCEPT ![c] = ToolPhaseAfter(t, kind, c)]
              /\ ToolPhaseAfter(t, kind, c) \in
                   {"requested", "permission", "executing", "result", "denied"}
         /\ kind \notin ToolEvents => \A d \in Calls :
              After(t, kind, c).tools[d] \in {"unknown", "result", "denied"} =>
                t.tools[d] = After(t, kind, c).tools[d]
         /\ kind = "turn_completed" /\ OpenTools(t) = {} => After(t, kind, c).tools = t.tools
         /\ kind \notin ToolEvents \union TerminalEvents => After(t, kind, c).tools = t.tools
<1>1. t.tools \in [Calls -> ToolPhases]
  BY DEF Integrities
<1>2. CASE kind \in ToolEvents
  <2>1. ToolPhaseAfter(t, kind, c) \in {"requested", "permission", "executing", "result", "denied"}
    BY <1>2 DEF ToolPhaseAfter, ToolEvents
  <2>2. After(t, kind, c) = [t EXCEPT !.tools[c] = ToolPhaseAfter(t, kind, c),
                                      !.worked = @ \/ kind = "tool_call_requested"]
    BY <1>2 DEF After, ToolEvents, TerminalEvents
  <2> HIDE DEF ToolPhaseAfter
  <2>3. After(t, kind, c).tools = [t.tools EXCEPT ![c] = ToolPhaseAfter(t, kind, c)]
    BY <2>2 DEF Integrities
  <2>4. QED
    BY <1>2, <2>1, <2>3 DEF ToolEvents, TerminalEvents
<1>3. CASE kind \in TerminalEvents
  <2> DEFINE reason == IF kind = "turn_cancelled" THEN "cancelled" ELSE "failed"
  <2>1. After(t, kind, c) = [t EXCEPT !.phase = "Terminal", !.assistant = FALSE,
                                      !.thinking = FALSE, !.tools = Abort(t, reason)]
    BY <1>3 DEF After, ToolEvents, TerminalEvents
  <2>2. reason \in {"cancelled", "failed"}
    OBVIOUS
  <2> HIDE DEF reason
  <2>3. After(t, kind, c).tools = Abort(t, reason)
    BY <2>1 DEF Integrities
  <2>4. \A d \in Calls : Abort(t, reason)[d] =
          IF t.tools[d] \in OpenPhases THEN reason ELSE t.tools[d]
    BY DEF Abort
  <2>5. \A d \in Calls : Abort(t, reason)[d] \in {"unknown", "result", "denied"} =>
          t.tools[d] = Abort(t, reason)[d]
    BY <2>2, <2>4
  <2>6. OpenTools(t) = {} => Abort(t, reason) = t.tools
    <3>1. ASSUME OpenTools(t) = {}
          PROVE  \A d \in Calls : Abort(t, reason)[d] = t.tools[d]
      BY <2>4, <3>1 DEF OpenTools
    <3>2. Abort(t, reason) = [d \in Calls |-> Abort(t, reason)[d]]
      BY DEF Abort
    <3>3. QED
      BY <1>1, <3>1, <3>2
  <2>7. kind \notin ToolEvents
    BY <1>3 DEF ToolEvents, TerminalEvents
  <2>8. QED
    BY <1>3, <2>3, <2>5, <2>6, <2>7
<1>4. CASE kind \notin ToolEvents \union TerminalEvents
  <2>1. After(t, kind, c).tools = t.tools
    BY <1>4, AfterEffect
  <2>2. QED
    BY <1>4, <2>1 DEF TerminalEvents
<1>5. QED
  BY <1>2, <1>3, <1>4

LEMMA ProjectKeepsCards ==
  ASSUME CardInv, Project
  PROVE  /\ projector' = "running" => CardsLive'
         /\ CompletedSettled'
<1> DEFINE e == Head(queue)
<1>1. /\ EmitterOK /\ ClientOK /\ SequenceUnbroken /\ TerminalLast
      /\ CardsAdvance /\ CardsFollowTools /\ CurrentShown
      /\ projector = "running"
  BY TypeGroups, ProjectTakes DEF CardInv, CardsLive, JournalInv, ControlInv, TypeInv, Project
<1>2. /\ e \in Events /\ e = queue[1] /\ 1 \in 1..Len(queue) /\ Len(queue) \in Nat
      /\ Len(queue') = Len(queue) - 1
      /\ \A i \in 1..Len(queue') : i + 1 \in 1..Len(queue) /\ queue'[i] = queue[i + 1]
      /\ UNCHANGED <<pc, integ, result>> /\ UNCHANGED roundVars
  BY <1>1, ProjectTakes DEF EmitterOK
<1>3. Current' = Current
  BY <1>2 DEF roundVars, Current
<1>4. e.seq = expected
  <2>1. DOMAIN queue = 1..Len(queue)
    BY <1>1 DEF EmitterOK
  <2>2. queue[1].seq = expected + 1 - 1
    BY <1>1, <1>2, <2>1 DEF SequenceUnbroken
  <2>3. QED
    BY <1>1, <1>2, <2>2 DEF ClientOK
<1>5. \/ projector' = "broken" /\ card' = card
      \/ projector' = e.kind /\ e.kind \in TerminalEvents /\ card' = card
      \/ /\ projector' = "running" /\ e.kind \notin TerminalEvents
         /\ card' = IF e.shown = "none" THEN card ELSE [card EXCEPT ![e.call] = e.shown]
  BY <1>1, <1>4 DEF Project, Break
<1> HIDE DEF e
<1>6. /\ integ'.phase # "Terminal" => \A c \in Calls : integ'.tools[c] \notin {"cancelled", "failed"}
      /\ result' = "ok" => \A c \in Calls : integ'.tools[c] \in {"unknown", "result", "denied"}
  BY <1>2 DEF CardInv, CompletedSettled
<1>7. ASSUME projector' = "running"
      PROVE  CardsLive'
  <2>1. Passed(queue[1])
    BY <1>2, <1>5, <1>7 DEF Passed, TerminalEvents
  <2>2. CardsAdvance'
    BY <1>1, <1>2, <2>1, PassedAdvance
  <2>3. \A c \in Calls :
          /\ \A shown \in Views : Shown(c, shown)' => Shown(c, shown)
          /\ Shown(c, "done") => Shown(c, "done")'
          /\ Shown(c, "pending") /\ ~Shown(c, "running") /\ ~Shown(c, "done") =>
               Shown(c, "pending")'
    BY <1>1, <1>2, <2>1, PassedShown
  <2>4. CardsFollowTools'
    BY <1>1, <1>2, <2>3 DEF CardsFollowTools
  <2>5. pc \in Calling \union {"skip_result"} => Current \in Calls
    BY RangeOfTail DEF CardInv, JournalInv, ControlInv, TypeInv, TypeOK, CurrentThere, Current
  <2>6. CurrentShown'
    <3>1. ASSUME pc' = "skip_result"
          PROVE  integ'.tools[Current'] = "requested"
      BY <1>1, <1>2, <1>3, <3>1 DEF CurrentShown
    <3>2. ASSUME pc' \in Calling
          PROVE  ~Shown(Current, "done")'
      BY <1>1, <1>2, <1>3, <2>3, <2>5, <3>2 DEF CurrentShown, Views
    <3>3. ASSUME pc' \in {"gate", "deciding", "listening", "unheard", "execute"}
          PROVE  /\ integ'.tools[Current'] \in {"requested", "permission"}
                 /\ Shown(Current, "pending")' /\ ~Shown(Current, "running")'
      BY <1>1, <1>2, <1>3, <2>3, <2>5, <3>3 DEF CurrentShown, Views, Calling
    <3>4. QED
      BY <3>1, <3>2, <3>3 DEF CurrentShown
  <2>7. QED
    BY <2>2, <2>4, <2>6 DEF CardsLive
<1>8. projector' = "turn_completed" => \A c \in Calls : card'[c] \in {"hidden", "done"}
  <2>1. SUFFICES ASSUME projector' = "turn_completed", NEW c \in Calls
                 PROVE  card'[c] \in {"hidden", "done"}
    OBVIOUS
  <2>2. e.kind = "turn_completed" /\ e.kind \in TerminalEvents /\ card' = card
    BY <1>5, <2>1
  <2>3. Told("turn_completed")
    BY <1>2, <2>2 DEF Told
  <2>4. result = "ok"
    BY <1>1, <2>2, <2>3 DEF TerminalLast, TerminalOf, TerminalFor
  <2>5. integ.tools[c] \in {"unknown", "result", "denied"}
    BY <2>4 DEF CardInv, CompletedSettled
  <2>6. \A i \in 1..Len(queue) : i = 1
    BY <1>1, <1>2, <2>2 DEF TerminalLast
  <2>7. e.shown = "none"
    <3>1. e.kind \notin ToolEvents
      BY <2>2 DEF ToolEvents
    <3>2. QED
      BY <1>1, <1>2, <3>1 DEF CardsAdvance
  <2>8. \A shown \in Views : Shown(c, shown) <=> card[c] = shown
    BY <1>2, <2>6, <2>7 DEF Shown, Views
  <2>9. card[c] \in {"hidden"} \union Views
    BY <1>1 DEF ClientOK, Views
  <2>10. QED
    BY <1>1, <2>2, <2>5, <2>8, <2>9 DEF CardsFollowTools, Views
<1>9. QED
  BY <1>6, <1>7, <1>8 DEF CompletedSettled

(* The same of the turn: when it says nothing, when it says something of   *)
(* no card, and when it says something of the current call.                *)
LEMMA SilenceKeepsCards ==
  ASSUME CardInv, SaysNothing, UNCHANGED clientVars
  PROVE  /\ projector' = "running" => CardsLive'
         /\ CompletedSettled'
<1>1. /\ projector' = projector /\ card' = card /\ queue' = queue
      /\ integ'.tools = integ.tools /\ integ'.phase = integ.phase
  BY DEF SaysNothing, clientVars
<1>2. \A c \in Calls : \A shown \in Views : Shown(c, shown)' <=> Shown(c, shown)
  BY <1>1 DEF Shown
<1>3. ASSUME projector = "running"
      PROVE  CardsLive'
  <2>1. CardsAdvance /\ CardsFollowTools /\ CurrentShown
    BY <1>3 DEF CardInv, CardsLive
  <2>2. CardsAdvance'
    BY <1>1, <2>1 DEF CardsAdvance
  <2>3. CardsFollowTools'
    BY <1>1, <1>2, <2>1 DEF CardsFollowTools, Views
  <2>4. CurrentShown'
    <3>1. CASE pc' \notin Calling \union {"skip_result"}
      BY <3>1 DEF CurrentShown, Calling
    <3>2. CASE /\ executable' = executable
               /\ \/ pc' = pc
                  \/ pc = "deciding" /\ pc' = "listening"
                  \/ pc = "listening" /\ pc' = "unheard"
                  \/ pc \in {"gate", "listening", "unheard"} /\ pc' = "execute"
                  \/ pc \in {"deciding", "listening", "unheard", "running"} /\ pc' = "returned"
                  \/ pc = "returned" /\ pc' = "result"
      <4>1. Current' = Current
        BY <3>2 DEF Current
      <4>2. /\ Shown(Current, "pending")' <=> Shown(Current, "pending")
            /\ Shown(Current, "running")' <=> Shown(Current, "running")
            /\ Shown(Current, "done")' <=> Shown(Current, "done")
        BY <1>1, <4>1 DEF Shown
      <4>3. QED
        BY <1>1, <2>1, <3>2, <4>1, <4>2 DEF CurrentShown, Calling
    <3>3. QED
      BY <3>1, <3>2 DEF SaysNothing
  <2>5. QED
    BY <2>2, <2>3, <2>4 DEF CardsLive
<1>4. CompletedSettled'
  BY <1>1 DEF CardInv, CompletedSettled, SaysNothing
<1>5. QED
  BY <1>1, <1>3, <1>4

LEMMA PlainSpeechKeepsCards ==
  ASSUME CardInv, NEW kind \in EventKinds \ ToolEvents, SaysPlain(kind), UNCHANGED clientVars
  PROVE  /\ projector' = "running" => CardsLive'
         /\ CompletedSettled'
<1> DEFINE e == EventOf(kind, NoCall, "none")
<1>1. EmitterOK /\ ClientOK
  BY TypeGroups DEF CardInv, JournalInv, ControlInv, TypeInv
<1>2. /\ projector = "running" /\ Admits(integ, kind, NoCall)
      /\ integ' = After(integ, kind, NoCall) /\ Appended(e)
  BY <1>1, EmitsEffect DEF SaysPlain, Says, Appended
<1>3. projector' = projector /\ card' = card
  BY DEF clientVars
<1>4. e \in Events /\ e.shown = "none"
  BY <1>1 DEF EventOf, Events, EmitterOK
<1> HIDE DEF e
<1>5. \A c : \A shown \in Views : Shown(c, shown)' <=> Shown(c, shown)
  BY <1>1, <1>2, <1>3, <1>4, AppendedShown DEF Views
<1>6. /\ integ \in Integrities
      /\ \A d \in Calls : integ'.tools[d] \in {"unknown", "result", "denied"} =>
           integ.tools[d] = integ'.tools[d]
      /\ kind = "turn_completed" /\ OpenTools(integ) = {} => integ'.tools = integ.tools
      /\ kind \notin TerminalEvents => integ'.tools = integ.tools
      /\ integ'.phase # "Terminal" => kind \notin TerminalEvents
      /\ integ.phase # "Terminal"
  <2>1. integ \in Integrities /\ kind \in EventKinds /\ kind \notin ToolEvents
    BY <1>1 DEF EmitterOK
  <2>2. integ.phase # "Terminal"
    BY <1>2 DEF Admits
  <2>3. integ'.phase # "Terminal" => kind \notin TerminalEvents
    BY <1>2, <2>1, AfterEffect DEF TerminalEvents
  <2>4. /\ \A d \in Calls : integ'.tools[d] \in {"unknown", "result", "denied"} =>
             integ.tools[d] = integ'.tools[d]
        /\ kind = "turn_completed" /\ OpenTools(integ) = {} => integ'.tools = integ.tools
        /\ kind \notin TerminalEvents => integ'.tools = integ.tools
    <3>1. ASSUME NEW c
          PROVE  /\ \A d \in Calls :
                      After(integ, kind, c).tools[d] \in {"unknown", "result", "denied"} =>
                        integ.tools[d] = After(integ, kind, c).tools[d]
                 /\ kind = "turn_completed" /\ OpenTools(integ) = {} =>
                      After(integ, kind, c).tools = integ.tools
                 /\ kind \notin TerminalEvents => After(integ, kind, c).tools = integ.tools
      BY <2>1, ToolsAfter
    <3>2. QED
      BY <1>2, <3>1
  <2>5. QED
    BY <2>1, <2>2, <2>3, <2>4
<1>7. CardsLive'
  <2>1. CardsAdvance /\ CardsFollowTools
    BY <1>2 DEF CardInv, CardsLive
  <2>2. CardsAdvance'
    BY <1>1, <1>2, <1>3, <1>4, <2>1, AppendedAdvance
  <2>3. CardsFollowTools'
    BY <1>5, <1>6, <2>1 DEF CardsFollowTools, Views
  <2>4. CurrentShown'
    BY DEF SaysPlain, CurrentShown, Calling
  <2>5. QED
    BY <2>2, <2>3, <2>4 DEF CardsLive
<1>8. \A c \in Calls : integ.tools[c] \notin {"cancelled", "failed"} /\ integ.tools[c] \in ToolPhases
  BY <1>6 DEF CardInv, CompletedSettled, Integrities
<1>9. ASSUME result' = "ok", NEW c \in Calls
      PROVE  integ'.tools[c] \in {"unknown", "result", "denied"}
  <2>1. kind = "turn_completed" /\ OpenTools(integ) = {}
    BY <1>2, <1>9 DEF SaysPlain, Admits
  <2>2. integ'.tools = integ.tools /\ integ.tools[c] \notin OpenPhases
    BY <1>6, <1>9, <2>1 DEF OpenTools
  <2>3. QED
    BY <1>8, <1>9, <2>2 DEF ToolPhases, DonePhases
<1>10. QED
  BY <1>2, <1>3, <1>6, <1>7, <1>8, <1>9 DEF CardInv, CompletedSettled

LEMMA CardSpeechKeepsCards ==
  ASSUME CardInv, CardSpeech, UNCHANGED clientVars
  PROVE  /\ projector' = "running" => CardsLive'
         /\ CompletedSettled'
<1>1. /\ EmitterOK /\ ClientOK /\ Current \in Calls /\ result' = result
      /\ pc \in {"skip", "skip_result", "announce", "gate", "execute", "result"}
      /\ \E kind \in ToolEvents, shown \in {"none", "pending", "running", "done"} :
           SaysOf(kind, shown)
  BY TypeGroups
     DEF CardInv, JournalInv, ControlInv, TypeInv, CardSpeech, SaysCard, ToolEvents
<1>2. projector' = projector /\ card' = card
  BY DEF clientVars
<1>3. ASSUME NEW kind \in ToolEvents, NEW shown \in {"none", "pending", "running", "done"},
             SaysOf(kind, shown)
      PROVE  /\ projector = "running" /\ Admits(integ, kind, Current)
             /\ Appended(EventOf(kind, Current, shown))
             /\ EventOf(kind, Current, shown) \in Events
             /\ integ'.tools = [integ.tools EXCEPT ![Current] = ToolPhaseAfter(integ, kind, Current)]
             /\ ToolPhaseAfter(integ, kind, Current) \in
                  {"requested", "permission", "executing", "result", "denied"}
             /\ integ'.phase = integ.phase /\ integ.phase = "Active"
  <2>1. kind \in EventKinds /\ kind \notin TerminalEvents /\ kind # "turn_started"
    BY <1>3 DEF EventKinds, ToolEvents, TerminalEvents
  <2>2. /\ projector = "running" /\ Admits(integ, kind, Current)
        /\ integ' = After(integ, kind, Current)
        /\ Appended(EventOf(kind, Current, shown))
    BY <1>1, <1>3, <2>1, EmitsEffect DEF SaysOf, Appended
  <2>3. EventOf(kind, Current, shown) \in Events
    BY <1>1, <2>1 DEF EventOf, Events, EmitterOK
  <2>4. QED
    BY <1>1, <1>3, <2>1, <2>2, <2>3, ToolsAfter, AfterEffect DEF EmitterOK, Admits
<1>4. /\ projector = "running" /\ CardsAdvance /\ CardsFollowTools /\ CurrentShown
      /\ integ.tools \in [Calls -> ToolPhases]
  BY <1>1, <1>3 DEF CardInv, CardsLive, EmitterOK, Integrities
<1>5. CompletedSettled'
  <2>1. result # "ok"
    BY <1>1 DEF CardInv, JournalInv, ControlInv, FlowInv, ResultSet, Ending
  <2>2. \A c \in Calls : integ.tools[c] \notin {"cancelled", "failed"}
    BY <1>1, <1>3 DEF CardInv, CompletedSettled
  <2>3. \A c \in Calls : integ'.tools[c] \notin {"cancelled", "failed"}
    BY <1>1, <1>3, <1>4, <2>2
  <2>4. QED
    BY <1>1, <1>2, <1>4, <2>1, <2>3 DEF CompletedSettled
(* What is left is the six places that speak of a call.                    *)
<1>6. ASSUME NEW kind \in ToolEvents, NEW shown \in {"none", "pending", "running", "done"},
             SaysOf(kind, shown),
             shown # "none" =>
               /\ \A view \in Views : Shown(Current, view) => Rank(view) < Rank(shown)
               /\ shown = "running" => Shown(Current, "pending"),
             kind = "tool_result_received" => shown = "done"
      PROVE  /\ CardsAdvance' /\ CardsFollowTools'
             /\ integ'.tools[Current] = ToolPhaseAfter(integ, kind, Current)
             /\ \A c \in Calls : \A view \in Views :
                  Shown(c, view)' <=> Shown(c, view) \/ (c = Current /\ view = shown)
  <2> DEFINE e == EventOf(kind, Current, shown)
  <2>1. e.kind = kind /\ e.call = Current /\ e.shown = shown
    BY DEF EventOf
  <2>2. e \in Events /\ Appended(e)
    BY <1>3, <1>6
  <2> HIDE DEF e
  <2>3. CardsAdvance'
    BY <1>1, <1>2, <1>4, <1>6, <2>1, <2>2, AppendedAdvance
  <2>4. \A c \in Calls : \A view \in Views :
          Shown(c, view)' <=> Shown(c, view) \/ (c = Current /\ view = shown)
    BY <1>1, <1>2, <2>1, <2>2, AppendedShown
  <2>5. /\ integ'.tools[Current] = ToolPhaseAfter(integ, kind, Current)
        /\ ToolPhaseAfter(integ, kind, Current) # "unknown"
        /\ \A c \in Calls : c # Current => integ'.tools[c] = integ.tools[c]
    BY <1>1, <1>3, <1>4, <1>6
  <2>6. integ'.tools[Current] \in {"result", "denied"} => kind = "tool_result_received"
    BY <2>5 DEF ToolPhaseAfter, ToolEvents
  <2>7. CardsFollowTools'
    <3>1. SUFFICES ASSUME NEW c \in Calls
                   PROVE  /\ integ'.tools[c] = "unknown" =>
                               \A view \in Views : ~Shown(c, view)'
                          /\ integ'.tools[c] \in {"result", "denied"} => Shown(c, "done")'
      BY DEF CardsFollowTools
    <3>2. CASE c = Current
      BY <1>6, <2>4, <2>5, <2>6, <3>2 DEF Views
    <3>3. CASE c # Current
      BY <1>4, <2>4, <2>5, <3>3 DEF CardsFollowTools, Views
    <3>4. QED
      BY <3>2, <3>3
  <2>8. QED
    BY <1>1, <2>3, <2>4, <2>5, <2>7
<1>7. integ.tools[Current] = "unknown" => \A view \in Views : ~Shown(Current, view)
  BY <1>1, <1>4 DEF CardsFollowTools
<1>8. \A to : to \in Calling \union {"skip_result"} /\ executable' = executable => Current' = Current
  BY DEF Current
<1> USE Ranks DEF Views
<1>9. CASE SaysCard("tool_call_requested", "done", "skip", "skip_result")
  <2>1. Admits(integ, "tool_call_requested", Current)
    BY <1>3, <1>9 DEF SaysCard, ToolEvents
  <2>2. integ.tools[Current] = "unknown"
    BY <2>1 DEF Admits
  <2>3. /\ CardsAdvance' /\ CardsFollowTools'
        /\ integ'.tools[Current] = ToolPhaseAfter(integ, "tool_call_requested", Current)
    BY <1>6, <1>7, <1>9, <2>2 DEF SaysCard, ToolEvents
  <2>4. QED
    BY <1>5, <1>8, <1>9, <2>3
       DEF SaysCard, CardsLive, CurrentShown, Calling, ToolPhaseAfter
<1>10. CASE SaysCard("tool_result_received", "done", "skip_result", "skip")
  <2>1. Admits(integ, "tool_result_received", Current)
    BY <1>3, <1>10 DEF SaysCard, ToolEvents
  <2>2. integ.tools[Current] = "requested"
    BY <1>4, <1>10 DEF SaysCard, CurrentShown
  <2>3. QED
    BY <2>1, <2>2 DEF Admits
<1>11. CASE SaysCard("tool_call_requested", "pending", "announce", "gate")
  <2>1. Admits(integ, "tool_call_requested", Current)
    BY <1>3, <1>11 DEF SaysCard, ToolEvents
  <2>2. integ.tools[Current] = "unknown"
    BY <2>1 DEF Admits
  <2>3. /\ CardsAdvance' /\ CardsFollowTools'
        /\ integ'.tools[Current] = ToolPhaseAfter(integ, "tool_call_requested", Current)
        /\ \A c \in Calls : \A view \in Views :
             Shown(c, view)' <=> Shown(c, view) \/ (c = Current /\ view = "pending")
    BY <1>6, <1>7, <1>11, <2>2 DEF SaysCard, ToolEvents
  <2>4. QED
    BY <1>1, <1>5, <1>7, <1>8, <1>11, <2>2, <2>3
       DEF SaysCard, CardsLive, CurrentShown, Calling, ToolPhaseAfter
<1>12. CASE SaysCard("permission_requested", "none", "gate", "deciding")
  <2>1. /\ CardsAdvance' /\ CardsFollowTools'
        /\ integ'.tools[Current] = ToolPhaseAfter(integ, "permission_requested", Current)
        /\ \A c \in Calls : \A view \in Views : Shown(c, view)' <=> Shown(c, view)
    BY <1>6, <1>12 DEF SaysCard, ToolEvents
  <2>2. QED
    BY <1>1, <1>4, <1>5, <1>8, <1>12, <2>1
       DEF SaysCard, CardsLive, CurrentShown, Calling, ToolPhaseAfter
<1>13. CASE SaysCard("tool_execution_started", "running", "execute", "running")
  <2>1. Shown(Current, "pending") /\ ~Shown(Current, "running") /\ ~Shown(Current, "done")
    BY <1>4, <1>13 DEF SaysCard, CurrentShown, Calling
  <2>2. /\ CardsAdvance' /\ CardsFollowTools'
        /\ \A c \in Calls : \A view \in Views :
             Shown(c, view)' <=> Shown(c, view) \/ (c = Current /\ view = "running")
    BY <1>6, <1>13, <2>1 DEF SaysCard, ToolEvents
  <2>3. QED
    BY <1>1, <1>5, <1>8, <1>13, <2>1, <2>2 DEF SaysCard, CardsLive, CurrentShown, Calling
<1>14. CASE SaysCard("tool_result_received", "done", "result", "call")
  <2>1. ~Shown(Current, "done")
    BY <1>4, <1>14 DEF SaysCard, CurrentShown, Calling
  <2>2. CardsAdvance' /\ CardsFollowTools'
    BY <1>6, <1>14, <2>1 DEF SaysCard, ToolEvents
  <2>3. QED
    BY <1>5, <1>14, <2>2 DEF SaysCard, CardsLive, CurrentShown, Calling
<1>15. QED
  BY <1>9, <1>10, <1>11, <1>12, <1>13, <1>14 DEF CardSpeech

LEMMA CardInvInductive ==
  /\ Init => CardInv
  /\ CardInv /\ [Next]_vars => CardInv'
<1>1. ASSUME Init
      PROVE  CardInv
  <2>1. JournalInv
    BY <1>1, JournalInductive
  <2>2. /\ queue = <<>> /\ card = [c \in Calls |-> "hidden"] /\ integ = NewIntegrity
        /\ pc = "begin" /\ result = "none" /\ projector = "running"
    BY <1>1 DEF Init
  <2>3. 1..Len(queue) = {}
    BY <2>2
  <2>4. /\ \A c \in Calls : card[c] = "hidden"
        /\ \A c \in Calls : integ.tools[c] = "unknown"
    BY <2>2 DEF NewIntegrity
  <2>5. CardsAdvance
    BY <2>3 DEF CardsAdvance
  <2>6. CardsFollowTools
    BY <2>3, <2>4 DEF CardsFollowTools, Shown, Views
  <2>7. CurrentShown
    BY <2>2 DEF CurrentShown, Calling
  <2>8. CompletedSettled
    BY <2>2, <2>4 DEF CompletedSettled
  <2>9. QED
    BY <2>1, <2>5, <2>6, <2>7, <2>8 DEF CardInv, CardsLive
<1>2. ASSUME CardInv, [Next]_vars
      PROVE  CardInv'
  <2>1. ControlInv /\ JournalInv'
    BY <1>2, JournalInductive DEF CardInv, JournalInv
  <2>2. CASE Project
    BY <1>2, <2>1, <2>2, ProjectKeepsCards DEF CardInv
  <2>3. CASE ~Project
    <3>1. /\ UNCHANGED clientVars
          /\ SaysNothing \/ (\E kind \in EventKinds \ ToolEvents : SaysPlain(kind)) \/ CardSpeech
      BY <1>2, <2>1, <2>3, StepSpeech
    <3>2. /\ projector' = "running" => CardsLive'
          /\ CompletedSettled'
      BY <1>2, <3>1, SilenceKeepsCards, PlainSpeechKeepsCards, CardSpeechKeepsCards
    <3>3. QED
      BY <2>1, <3>2 DEF CardInv
  <2>4. QED
    BY <2>2, <2>3
<1>3. QED
  BY <1>1, <1>2

-----------------------------------------------------------------------------
(* The theorems.                                                           *)

(* In every reachable state CardInv holds, for any calls and any limits of *)
(* AgentLoopConfig: the basis of the theorems below.                       *)
THEOREM Invariance == Spec => []CardInv
<1>1. Init => CardInv
  BY CardInvInductive
<1>2. CardInv /\ [Next]_vars => CardInv'
  BY CardInvInductive
<1>3. QED
  BY <1>1, <1>2, PTL DEF Spec

(* Every variable of the turn, its emitter, its channel and its projector  *)
(* keeps its type; in particular the counters of AgentLoop::run stay       *)
(* within max_rounds and max_tool_calls_per_turn.                          *)
THEOREM TypeCorrect == Spec => []TypeOK
<1>1. CardInv => TypeOK
  BY DEF CardInv, JournalInv, ControlInv, TypeInv
<1>2. QED
  BY <1>1, Invariance, PTL

(* The projector's SequenceTracker never meets a gap, however far it is    *)
(* behind: rejected and silent events consume no sequence number.          *)
THEOREM NoGap == Spec => []SequenceUnbroken
<1>1. CardInv => SequenceUnbroken
  BY DEF CardInv, JournalInv
<1>2. QED
  BY <1>1, Invariance, PTL

(* Every path of run_turn hands the session back by exactly one end_turn   *)
(* before the client is answered, and by none when begin_turn failed.      *)
THEOREM SessionHandedBack == Spec => []LeaseSettled
<1>1. CardInv => LeaseSettled
  BY DEF CardInv, JournalInv, ControlInv, FlowInv, LeaseKept, LeaseSettled
<1>2. QED
  BY <1>1, Invariance, PTL

(* The stop reason of the response agrees with the terminal event on which *)
(* the client's projection ended.                                          *)
THEOREM StopReasonAgrees == Spec => []ResponseAgrees
<1>1. CardInv => ResponseAgrees
  BY DEF CardInv, JournalInv
<1>2. QED
  BY <1>1, Invariance, PTL

(* The model is never asked to continue, and a turn never completes, on a  *)
(* history that holds a tool call without its result.                      *)
THEOREM CallsAreAnswered == Spec => []HistoryPaired
<1>1. CardInv => HistoryPaired
  BY DEF CardInv, JournalInv, ControlInv, FlowInv, HistoryKept, HistoryPaired, Opening,
         Rounds, Executing, Calling
<1>2. QED
  BY <1>1, Invariance, PTL

(* A cancelled turn begins at most one more tool execution, whatever calls *)
(* its rounds still hold.                                                  *)
THEOREM AtMostOneLate == Spec => []OneExecutionAfterCancel
<1>1. CardInv => OneExecutionAfterCancel
  BY DEF CardInv, JournalInv, ControlInv, FlowInv, LateOnce, OneExecutionAfterCancel
<1>2. QED
  BY <1>1, Invariance, PTL

(* Only the step that answers changes the response, and it ends the turn.  *)
LEMMA AnsweredOnce ==
  ASSUME CardInv, Next, response' # response
  PROVE  response = "none"
<1>1. pc = "join"
  BY DEF Next, Proceed, Await, BeginTurn, Upload, FailBeforeExecution, Precheck, Run,
         RoundStart, Request, StreamItem, StreamOver, ReasoningDelta, TextDelta,
         CloseScopes, WrapStream, Judge, Sort, AskAction, Skip, SkipResult, Conclude,
         Budget, NextCall, Decide, Permission, Execute, ToolReturns, Returned, ToolResult,
         EndWithError, Finish, Backstop, Respond, Project, Cancel
<1>2. QED
  BY <1>1 DEF CardInv, JournalInv, ControlInv, FlowInv, LeaseKept

(* Init of the turn is Init of the contract; a step of the projector shows *)
(* one card or none, the answer is the contract's, and no other step of    *)
(* the turn is seen by the client.                                         *)
LEMMA ContractStep ==
  ASSUME CardInv, CardInv', [Next]_vars
  PROVE  [Contract!Next]_<<card, response>>
<1>1. /\ EmitterOK /\ ClientOK /\ ControlInv /\ LeaseKept /\ ResponseAgrees' /\ CompletedSettled
      /\ response' \in {"none", "end_turn", "cancelled", "max_turn_requests", "error"}
  BY TypeGroups DEF CardInv, JournalInv, ControlInv, FlowInv, TypeInv, TypeOK
<1>2. CASE Project
  <2> DEFINE e == Head(queue)
  <2>1. /\ projector = "running" /\ response' = response /\ e = queue[1]
        /\ 1 \in 1..Len(queue) /\ e \in Events
    BY <1>1, <1>2, ProjectTakes
  <2>2. \/ card' = card
        \/ card' = [card EXCEPT ![e.call] = e.shown] /\ e.shown # "none"
    BY <1>2 DEF Project, Break
  <2> HIDE DEF e
  <2>3. response = "none"
    BY <1>1, <2>1 DEF LeaseKept
  <2>4. ASSUME card' = [card EXCEPT ![e.call] = e.shown], e.shown # "none"
        PROVE  Contract!Next
    <3>1. CardsAdvance
      BY <2>1 DEF CardInv, CardsLive
    <3>2. /\ e.call \in Calls /\ Rank(card[e.call]) < Rank(e.shown)
          /\ e.shown = "running" =>
               \/ card[e.call] = "pending"
               \/ \E j \in 1..Len(queue) : j < 1
      BY <2>1, <2>4, <3>1 DEF CardsAdvance
    <3>3. e.shown = "running" => card[e.call] = "pending"
      BY <3>2
    <3>4. /\ card[e.call] \in {"hidden", "pending", "running", "done"}
          /\ e.shown \in {"pending", "running", "done"}
      BY <1>1, <2>1, <2>4, <3>2 DEF ClientOK, Events
    <3>5. e.shown \in Contract!Successors(card[e.call])
      BY <3>2, <3>3, <3>4, Ranks DEF Contract!Successors
    <3>6. Contract!Show(e.call)
      BY <2>1, <2>3, <2>4, <3>5 DEF Contract!Show
    <3>7. QED
      BY <3>2, <3>6 DEF Contract!Next
  <2>5. QED
    BY <2>1, <2>2, <2>4
<1>3. CASE ~Project
  <2>1. /\ card' = card /\ projector' = projector
        /\ \/ response' = response
           \/ projector # "running" /\ response' # "none"
    BY <1>1, <1>3, StepSpeech DEF clientVars, TurnResult
  <2>2. ASSUME response' # response
        PROVE  Contract!Answer(response') /\ response' \in Contract!Answers
    <3>1. response' # "none"
      BY <2>1, <2>2
    <3>2. response = "none"
      BY <2>2, AnsweredOnce DEF vars
    <3>3. response' = "end_turn" => \A c \in Calls : card[c] \in {"hidden", "done"}
      BY <1>1, <2>1 DEF ResponseAgrees, CompletedSettled
    <3>4. QED
      BY <1>1, <2>1, <3>1, <3>2, <3>3 DEF Contract!Answer, Contract!Answers
  <2>3. QED
    BY <2>1, <2>2 DEF Contract!Next
<1>4. QED
  BY <1>2, <1>3

(* The turn implements the contract a client relies on: cards only         *)
(* advance, the prompt is answered once, nothing moves after the answer,   *)
(* and an answer of end_turn leaves no card unfinished.                    *)
THEOREM Refinement == Spec => KeepsContract
<1>1. Init => Contract!Init
  BY DEF Init, Contract!Init
<1>2. CardInv /\ CardInv' /\ [Next]_vars => [Contract!Next]_<<card, response>>
  BY ContractStep
<1>3. QED
  BY <1>1, <1>2, Invariance, PTL DEF Spec, KeepsContract, Contract!Spec
=============================================================================
