----------------------------- MODULE TurnPipeline -----------------------------
(***************************************************************************)
(* One session/prompt, from the prompt handler to the response: run_turn,  *)
(* TurnService, AgentLoop, the turn's event emitter, and the projection    *)
(* task that turns its events into ACP notifications.                      *)
(*                                                                         *)
(* Two tasks run concurrently, the turn and its projector; the flag that   *)
(* cancels the turn rises at any moment.  The model, the tools, the store  *)
(* and the client answer anything their interface allows.  A step of the   *)
(* turn reads the flag at most once or emits at most one event.            *)
(***************************************************************************)
EXTENDS Integers, Sequences, Functions, TurnIntegrity

CONSTANTS
  Actions,           (* the calls an action handler supports (FollowUp) *)
  MaxRounds,         (* AgentLoopConfig::max_rounds *)
  MaxCallsPerRound,  (* max_tool_calls_per_round *)
  MaxCallsPerTurn,   (* max_tool_calls_per_turn *)
  MaxItems,          (* bound: events of one model stream *)
  MaxLag,            (* bound: events the projector may be behind *)
  NoCall             (* the call of an event that is about none *)

ASSUME PipelineAssumption ==
  /\ Actions \subseteq Calls
  /\ NoCall \notin Calls
  /\ {MaxRounds, MaxCallsPerRound, MaxCallsPerTurn} \subseteq Nat \ {0}
  /\ {MaxItems, MaxLag} \subseteq Nat \ {0}

VARIABLES
  pc,         (* where the turn is *)
  signal,     (* its cancellation flag *)
  integ,      (* TurnIntegrity of its emitter *)
  sequence,   (* next_sequence of its emitter *)
  queue,      (* the per-turn channel to the projector *)
  projector,  (* running, the terminal event it saw, or broken *)
  expected,   (* SequenceTracker *)
  card,       (* tool call -> what the client shows *)
  round,      (* model rounds begun *)
  retried,    (* overflow_retry *)
  items,      (* event_count of the stream *)
  delta,      (* the text delta being projected *)
  text,       (* the text of the round *)
  offered,    (* calls of the round not yet sorted *)
  executable, (* calls of the round to execute or to report *)
  chosen,     (* a terminal action has been selected *)
  seen,       (* tool ids of the turn *)
  used,       (* total_tool_calls *)
  asked,      (* calls recorded in the history *)
  answered,   (* calls whose result the history records *)
  late,       (* tool executions begun with the flag up *)
  result,     (* what AgentLoop::run returned *)
  limited,    (* the service was given limits above zero: the three constants *)
  leased,     (* begin_turn gave the session to this turn *)
  finishes,   (* calls of end_turn *)
  saved,      (* whether finalization succeeded *)
  response    (* what the client is answered *)

emitterVars == <<integ, sequence, queue>>
streamVars  == <<items, delta, text>>
roundVars   == <<offered, executable, chosen>>
loopVars    == <<round, retried, seen, used, asked, answered, late>>
serviceVars == <<limited, leased, finishes, saved>>
clientVars  == <<projector, expected, card>>
vars == <<pc, signal, integ, sequence, queue, projector, expected, card, round,
          retried, items, delta, text, offered, executable, chosen, seen, used,
          asked, answered, late, result, limited, leased, finishes, saved, response>>

Locations ==
  {"begin", "abort_start", "abort_end", "upload", "precheck", "precancel",
   "precancelled", "run", "start", "round", "request", "stream", "reasoning",
   "text", "close", "wrap", "judge", "sort", "asking", "skip", "skip_result",
   "conclude", "complete", "budget", "call", "announce", "gate", "deciding",
   "listening", "unheard", "execute", "running", "returned", "result", "exit",
   "settle", "finish", "refused", "backstop", "join", "done"}

Texts == {"empty", "blank", "words"}

Events == [kind : EventKinds, call : Calls \union {NoCall}, seq : Nat,
           shown : {"none", "pending", "running", "done"}]

TypeOK ==
  /\ pc \in Locations
  /\ signal \in BOOLEAN
  /\ integ \in Integrities
  /\ sequence \in Nat
  /\ queue \in Seq(Events)
  /\ projector \in {"running", "broken"} \union TerminalEvents
  /\ expected \in Nat
  /\ card \in [Calls -> {"hidden", "pending", "running", "done"}]
  /\ round \in 0..MaxRounds
  /\ retried \in BOOLEAN
  /\ items \in 0..MaxItems
  /\ delta \in Texts
  /\ text \in Texts
  /\ offered \in Seq(Calls)
  /\ executable \in Seq(Calls)
  /\ chosen \in BOOLEAN
  /\ seen \subseteq Calls
  /\ used \in 0..MaxCallsPerTurn
  /\ asked \subseteq Calls
  /\ answered \subseteq Calls
  /\ late \in Nat
  /\ result \in {"none", "ok", "cancelled", "max_rounds", "failed"}
  /\ limited \in BOOLEAN
  /\ leased \in BOOLEAN
  /\ finishes \in Nat
  /\ saved \in BOOLEAN
  /\ response \in {"none", "end_turn", "cancelled", "max_turn_requests", "error"}

Init ==
  /\ pc = "begin"
  /\ signal = FALSE
  /\ integ = NewIntegrity
  /\ sequence = 0
  /\ queue = <<>>
  /\ projector = "running"
  /\ expected = 0
  /\ card = [c \in Calls |-> "hidden"]
  /\ round = 0
  /\ retried = FALSE
  /\ items = 0
  /\ delta = "empty"
  /\ text = "empty"
  /\ offered = <<>>
  /\ executable = <<>>
  /\ chosen = FALSE
  /\ seen = {}
  /\ used = 0
  /\ asked = {}
  /\ answered = {}
  /\ late = 0
  /\ result = "none"
  /\ limited \in BOOLEAN
  /\ leased = FALSE
  /\ finishes = 0
  /\ saved = TRUE
  /\ response = "none"

-----------------------------------------------------------------------------
(* The emitter *)

Current == Head(executable)

(* An emission succeeds when the transition is legal and the projector     *)
(* still holds the receiving end of the channel.                           *)
Accepts(kind, c) == projector = "running" /\ Admits(integ, kind, c)

PublishCard(kind, c, shown) ==
  /\ Len(queue) < MaxLag
  /\ integ' = After(integ, kind, c)
  /\ queue' = Append(queue,
                [kind |-> kind, call |-> c, seq |-> sequence, shown |-> shown])
  /\ sequence' = sequence + 1

Publish(kind) == PublishCard(kind, NoCall, "none")

(* `let _ = sink.kind()`.                                                  *)
Try(kind) ==
  IF Accepts(kind, NoCall) THEN Publish(kind) ELSE UNCHANGED emitterVars

(* A rejected emission inside the loop: turn_failed, and the turn is over. *)
Goto(l)  == pc' = l /\ UNCHANGED result
Leave(r) == pc' = "exit" /\ result' = r

EmitThen(kind, l) ==
  IF Accepts(kind, NoCall)
  THEN Publish(kind) /\ Goto(l)
  ELSE UNCHANGED emitterVars /\ Leave("failed")

EmitCardThen(kind, shown, l) ==
  IF Accepts(kind, Current)
  THEN PublishCard(kind, Current, shown) /\ Goto(l)
  ELSE UNCHANGED emitterVars /\ Leave("failed")

(* Mutant: the flag is not consulted.                                      *)
GotoUnchecked(l) == Goto(l)

(* ensure_not_cancelled, then on to l.                                     *)
UnlessCancelled(l) == IF signal THEN Leave("cancelled") ELSE Goto(l)

-----------------------------------------------------------------------------
(* run_turn and TurnService::run_started, before the loop *)

(* validate_id and begin_turn: the session is this turn's, or the turn     *)
(* fails before execution.                                                 *)
BeginTurn ==
  /\ pc = "begin"
  /\ \/ leased' = TRUE /\ pc' = "upload"
     \/ leased' = FALSE /\ pc' = "abort_start"
  /\ UNCHANGED <<signal, result, response, limited, finishes, saved>>
  /\ UNCHANGED <<emitterVars, clientVars, streamVars, roundVars, loopVars>>

(* upload_images: nothing to upload, all uploaded, or one failed.          *)
Upload ==
  /\ pc = "upload"
  /\ pc' \in {"precheck", "abort_start"}
  /\ UNCHANGED <<signal, result, response>>
  /\ UNCHANGED <<emitterVars, clientVars, streamVars, roundVars, loopVars,
                 serviceVars>>

(* fail_before_execution: turn_started, turn_failed, whatever comes of it; *)
(* and the same two events once a turn whose limits are refused has been   *)
(* finalized.                                                              *)
FailBeforeExecution ==
  /\ \/ /\ pc = "abort_start"
        /\ Try("turn_started")
        /\ pc' = "abort_end"
        /\ UNCHANGED result
     \/ /\ pc = "abort_end"
        /\ Try("turn_failed")
        /\ pc' = IF leased /\ finishes = 0 THEN "finish" ELSE "backstop"
        /\ result' = "failed"
  /\ UNCHANGED <<signal, response>>
  /\ UNCHANGED <<clientVars, streamVars, roundVars, loopVars, serviceVars>>

(* AgentLoop::new refuses limits of zero.  A turn cancelled before the     *)
(* loop starts and ends in one go; a rejected event makes it an error.     *)
Precheck ==
  /\ \/ /\ pc = "precheck"
        /\ pc' = IF ~limited THEN "refused"
                 ELSE IF signal THEN "precancel" ELSE "run"
        /\ UNCHANGED <<emitterVars, result>>
     \/ /\ pc = "precancel"
        /\ IF Accepts("turn_started", NoCall)
           THEN Publish("turn_started") /\ Goto("precancelled")
           ELSE UNCHANGED emitterVars /\ pc' = "finish" /\ result' = "failed"
     \/ /\ pc = "precancelled"
        /\ pc' = "finish"
        /\ Try("turn_cancelled")
        /\ result' = IF Accepts("turn_cancelled", NoCall)
                     THEN "cancelled" ELSE "failed"
  /\ UNCHANGED <<signal, response>>
  /\ UNCHANGED <<clientVars, streamVars, roundVars, loopVars, serviceVars>>

-----------------------------------------------------------------------------
(* AgentLoop::run *)

(* A session without a name or a model is refused without an event.  The   *)
(* check before turn_started tries turn_cancelled although the journal is  *)
(* not open yet.                                                           *)
Run ==
  /\ \/ pc = "run" /\ UnlessCancelled("start") /\ UNCHANGED emitterVars
     \/ pc = "run" /\ pc' = "settle" /\ result' = "failed" /\ UNCHANGED emitterVars
     \/ /\ pc = "start"
        /\ IF Accepts("turn_started", NoCall)
           THEN Publish("turn_started") /\ Goto("round")
           ELSE UNCHANGED emitterVars /\ pc' = "settle" /\ result' = "failed"
  /\ UNCHANGED <<signal, response>>
  /\ UNCHANGED <<clientVars, streamVars, roundVars, loopVars, serviceVars>>

RoundStart ==
  /\ pc = "round"
  /\ \/ round = MaxRounds /\ Leave("max_rounds") /\ UNCHANGED round
     \/ /\ round < MaxRounds
        /\ UnlessCancelled("request")
        /\ round' = round + 1
  /\ items' = 0
  /\ text' = "empty"
  /\ offered' = <<>>
  /\ executable' = <<>>
  /\ chosen' = FALSE
  /\ UNCHANGED <<signal, response, delta, retried, seen, used, asked, answered, late>>
  /\ UNCHANGED <<emitterVars, clientVars, serviceVars>>

(* stream_with_cancellation.  One context error in a row is answered by an *)
(* emergency compaction and costs the round.                               *)
Request ==
  /\ pc = "request"
  /\ \/ Goto("stream") /\ retried' = FALSE
     \/ signal /\ Leave("cancelled") /\ UNCHANGED retried
     \/ ~signal /\ ~retried /\ Goto("round") /\ retried' = TRUE
     \/ ~signal /\ Leave("failed") /\ UNCHANGED retried
  /\ UNCHANGED <<signal, response, round, seen, used, asked, answered, late>>
  /\ UNCHANGED <<emitterVars, clientVars, streamVars, roundVars, serviceVars>>

-----------------------------------------------------------------------------
(* consume_model_stream *)

(* An event of the stream: reasoning (refused once text has begun), a text *)
(* delta, a call under an id new to the turn, or usage.                    *)
StreamItem ==
  /\ pc = "stream"
  /\ items < MaxItems
  /\ items' = items + 1
  /\ \/ /\ IF text = "empty" THEN Goto("reasoning") ELSE Leave("failed")
        /\ UNCHANGED <<delta, offered>>
     \/ /\ delta' \in Texts
        /\ Goto("text")
        /\ UNCHANGED offered
     \/ /\ \E c \in Calls \ (seen \union Range(offered)) :
             offered' = Append(offered, c)
        /\ Goto("stream")
        /\ UNCHANGED delta
     \/ Goto("stream") /\ UNCHANGED <<delta, offered>>
  /\ UNCHANGED <<signal, response, text, executable, chosen>>
  /\ UNCHANGED <<emitterVars, clientVars, loopVars, serviceVars>>

(* The stream fails, or the flag is seen, or it ends.                      *)
StreamOver ==
  /\ pc = "stream"
  /\ \/ pc' = "close" /\ result' = "failed"
     \/ signal /\ pc' = "close" /\ result' = "cancelled"
     \/ pc' = "wrap" /\ UNCHANGED result
  /\ UNCHANGED <<signal, response>>
  /\ UNCHANGED <<emitterVars, clientVars, streamVars, roundVars, loopVars,
                 serviceVars>>

(* Emit what the event needs, one event at a time; a rejection closes the  *)
(* open scopes.                                                            *)
EmitOrClose(kind, l) ==
  IF Accepts(kind, NoCall)
  THEN Publish(kind) /\ Goto(l)
  ELSE UNCHANGED emitterVars /\ pc' = "close" /\ result' = "failed"

ReasoningDelta ==
  /\ pc = "reasoning"
  /\ \/ ~integ.assistant /\ EmitOrClose("assistant_started", "reasoning")
     \/ /\ integ.assistant /\ ~integ.thinking
        /\ EmitOrClose("thinking_started", "reasoning")
     \/ integ.thinking /\ EmitOrClose("thinking_delta", "stream")
  /\ UNCHANGED <<signal, response>>
  /\ UNCHANGED <<clientVars, streamVars, roundVars, loopVars, serviceVars>>

Longer(a, b) == IF "words" \in {a, b} THEN "words"
                ELSE IF "blank" \in {a, b} THEN "blank" ELSE "empty"

TextDelta ==
  /\ pc = "text"
  /\ \/ ~integ.assistant /\ EmitOrClose("assistant_started", "text") /\ UNCHANGED text
     \/ integ.thinking /\ EmitOrClose("thinking_completed", "text") /\ UNCHANGED text
     \/ /\ integ.assistant /\ ~integ.thinking
        /\ EmitOrClose("assistant_delta", "stream")
        /\ text' = Longer(text, delta)
  /\ UNCHANGED <<signal, response, items, delta>>
  /\ UNCHANGED <<clientVars, roundVars, loopVars, serviceVars>>

(* close_active_scopes_best_effort, then the error's own terminal event.   *)
CloseScopes ==
  /\ pc = "close"
  /\ IF integ.thinking /\ Accepts("thinking_completed", NoCall)
     THEN Publish("thinking_completed") /\ pc' = "close"
     ELSE Try("assistant_completed") /\ pc' = "exit"
  /\ UNCHANGED <<signal, response, result>>
  /\ UNCHANGED <<clientVars, streamVars, roundVars, loopVars, serviceVars>>

(* Mutant: the silent yield consumes a sequence number.                    *)
WrapStreamNumbered ==
  /\ pc = "wrap"
  /\ \/ integ.thinking /\ EmitThen("thinking_completed", "wrap")
     \/ /\ ~integ.thinking /\ integ.assistant /\ offered = <<>>
        /\ EmitThen("assistant_completed", "judge")
     \/ /\ ~integ.thinking /\ integ.assistant /\ offered # <<>>
        /\ integ' = YieldsToAction(integ)
        /\ sequence' = sequence + 1
        /\ Goto("judge")
        /\ UNCHANGED queue
     \/ ~integ.assistant /\ Goto("judge") /\ UNCHANGED emitterVars
  /\ UNCHANGED <<signal, response>>
  /\ UNCHANGED <<clientVars, streamVars, roundVars, loopVars, serviceVars>>

(* At the end of the stream its scopes close; before tool calls the        *)
(* assistant scope closes without an event.                                *)
WrapStream ==
  /\ pc = "wrap"
  /\ \/ integ.thinking /\ EmitThen("thinking_completed", "wrap")
     \/ /\ ~integ.thinking /\ integ.assistant /\ offered = <<>>
        /\ EmitThen("assistant_completed", "judge")
     \/ /\ ~integ.thinking /\ integ.assistant /\ offered # <<>>
        /\ integ' = YieldsToAction(integ)
        /\ Goto("judge")
        /\ UNCHANGED <<sequence, queue>>
     \/ ~integ.assistant /\ Goto("judge") /\ UNCHANGED emitterVars
  /\ UNCHANGED <<signal, response>>
  /\ UNCHANGED <<clientVars, streamVars, roundVars, loopVars, serviceVars>>

-----------------------------------------------------------------------------
(* After the stream: limits, identities, actions *)

(* EmptyStream, ToolCallLimit, then canonicalize_tool_calls, which may     *)
(* refuse an id and then emits nothing.                                    *)
Judge ==
  /\ pc = "judge"
  /\ IF items = 0 \/ Len(offered) > MaxCallsPerRound
     THEN Leave("failed") /\ UNCHANGED seen
     ELSE \/ offered # <<>> /\ pc' = "settle" /\ result' = "failed" /\ UNCHANGED seen
          \/ Goto("sort") /\ seen' = seen \union Range(offered)
  /\ UNCHANGED <<signal, response, round, retried, used, asked, answered, late>>
  /\ UNCHANGED <<emitterVars, clientVars, streamVars, roundVars, serviceVars>>

(* Supported calls go to the action handler, until one of them is          *)
(* terminal; the others are kept.                                          *)
Sort ==
  /\ pc = "sort"
  /\ \/ /\ offered = <<>>
        /\ Goto(IF chosen THEN "skip"
                ELSE IF executable = <<>> THEN "conclude" ELSE "budget")
        /\ UNCHANGED <<offered, executable>>
     \/ /\ offered # <<>>
        /\ ~chosen /\ Head(offered) \in Actions
        /\ UnlessCancelled("asking")
        /\ UNCHANGED <<offered, executable>>
     \/ /\ offered # <<>>
        /\ chosen \/ Head(offered) \notin Actions
        /\ executable' = Append(executable, Head(offered))
        /\ offered' = Tail(offered)
        /\ Goto("sort")
  /\ UNCHANGED <<signal, response, chosen>>
  /\ UNCHANGED <<emitterVars, clientVars, streamVars, loopVars, serviceVars>>

(* The FollowUp dialog: selected, declined, cancelled, or failed.          *)
AskAction ==
  /\ pc = "asking"
  /\ \/ /\ \E selected \in BOOLEAN : chosen' = selected
        /\ offered' = Tail(offered)
        /\ Goto("sort")
     \/ /\ \E r \in {"cancelled", "failed"} : Leave(r)
        /\ UNCHANGED <<chosen, offered>>
  /\ UNCHANGED <<signal, response, executable>>
  /\ UNCHANGED <<emitterVars, clientVars, streamVars, loopVars, serviceVars>>

(* A terminal action was selected: each outstanding call is announced, its *)
(* result reported, both recorded; then the next round.                    *)
Skip ==
  /\ pc = "skip"
  /\ IF executable = <<>>
     THEN Goto("round") /\ UNCHANGED emitterVars
     ELSE EmitCardThen("tool_call_requested", "done", "skip_result")
  /\ UNCHANGED <<signal, response>>
  /\ UNCHANGED <<clientVars, streamVars, roundVars, loopVars, serviceVars>>

SkipResult ==
  /\ pc = "skip_result"
  /\ EmitCardThen("tool_result_received", "done", "skip")
  /\ IF Accepts("tool_result_received", Current)
     THEN /\ asked' = asked \union {Current}
          /\ answered' = answered \union {Current}
          /\ executable' = Tail(executable)
     ELSE UNCHANGED <<asked, answered, executable>>
  /\ UNCHANGED <<signal, response, offered, chosen, round, retried, seen, used, late>>
  /\ UNCHANGED <<clientVars, streamVars, serviceVars>>

-----------------------------------------------------------------------------
(* The last round *)

(* No call to execute: text ends the turn, no text is NoProgress.          *)
Conclude ==
  /\ \/ /\ pc = "conclude"
        /\ IF text # "words" THEN Leave("failed") ELSE UnlessCancelled("complete")
        /\ UNCHANGED emitterVars
     \/ /\ pc = "complete"
        /\ IF Accepts("turn_completed", NoCall)
           THEN Publish("turn_completed") /\ pc' = "finish" /\ result' = "ok"
           ELSE UNCHANGED emitterVars /\ Leave("failed")
  /\ UNCHANGED <<signal, response>>
  /\ UNCHANGED <<clientVars, streamVars, roundVars, loopVars, serviceVars>>

-----------------------------------------------------------------------------
(* The tool calls of a round, in order *)

(* ToolCallBudgetExhausted, or the calls of the round enter the history.   *)
Budget ==
  /\ pc = "budget"
  /\ IF used + Len(executable) > MaxCallsPerTurn
     THEN Leave("failed") /\ UNCHANGED <<used, asked>>
     ELSE /\ used' = used + Len(executable)
          /\ UnlessCancelled("call")
          /\ asked' = IF signal THEN asked ELSE asked \union Range(executable)
  /\ UNCHANGED <<signal, response, round, retried, seen, answered, late>>
  /\ UNCHANGED <<emitterVars, clientVars, streamVars, roundVars, serviceVars>>

NextCall ==
  /\ \/ /\ pc = "call"
        /\ IF executable = <<>> THEN Goto("round") ELSE UnlessCancelled("announce")
        /\ UNCHANGED emitterVars
     \/ /\ pc = "announce"
        /\ EmitCardThen("tool_call_requested", "pending", "gate")
  /\ UNCHANGED <<signal, response>>
  /\ UNCHANGED <<clientVars, streamVars, roundVars, loopVars, serviceVars>>

(* needs_permission; then request_permission, which refuses what it is     *)
(* told to refuse or cannot ask, and otherwise looks at the flag once.     *)
Decide ==
  /\ \/ pc = "gate" /\ Goto("execute") /\ UNCHANGED emitterVars
     \/ pc = "gate" /\ EmitCardThen("permission_requested", "none", "deciding")
     \/ /\ pc = "deciding"
        /\ \/ Goto("returned")
           \/ UnlessCancelled("listening")
        /\ UNCHANGED emitterVars
  /\ UNCHANGED <<signal, response>>
  /\ UNCHANGED <<clientVars, streamVars, roundVars, loopVars, serviceVars>>

(* The user answers, or the flag is heard.  The watcher wakes those who    *)
(* listen already: a flag raised between the look and the listener is not  *)
(* heard any more, and only the user ends the dialog.                      *)
Permission ==
  /\ \/ /\ pc \in {"listening", "unheard"}
        /\ \/ Goto("execute")
           \/ Goto("returned")
           \/ Leave("cancelled")
     \/ pc = "listening" /\ signal /\ Goto("unheard")
  /\ UNCHANGED emitterVars
  /\ UNCHANGED <<signal, response>>
  /\ UNCHANGED <<clientVars, streamVars, roundVars, loopVars, serviceVars>>

Execute ==
  /\ pc = "execute"
  /\ EmitCardThen("tool_execution_started", "running", "running")
  /\ late' = IF signal /\ Accepts("tool_execution_started", Current)
             THEN late + 1 ELSE late
  /\ UNCHANGED <<signal, response, round, retried, seen, used, asked, answered>>
  /\ UNCHANGED <<clientVars, streamVars, roundVars, serviceVars>>

(* The tool returns, having watched the flag or not.                       *)
ToolReturns ==
  /\ pc = "running"
  /\ Goto("returned")
  /\ UNCHANGED <<signal, response>>
  /\ UNCHANGED <<emitterVars, clientVars, streamVars, roundVars, loopVars,
                 serviceVars>>

(* A call that returned or was denied passes the check before its result   *)
(* is reported.                                                            *)
Returned ==
  /\ pc = "returned"
  /\ UnlessCancelled("result")
  /\ UNCHANGED <<signal, response>>
  /\ UNCHANGED <<emitterVars, clientVars, streamVars, roundVars, loopVars,
                 serviceVars>>

(* Mutant: the result is reported but not recorded in the history.         *)
ToolResultUnrecorded ==
  /\ pc = "result"
  /\ EmitCardThen("tool_result_received", "done", "call")
  /\ executable' = IF Accepts("tool_result_received", Current)
                   THEN Tail(executable) ELSE executable
  /\ UNCHANGED <<signal, response, offered, chosen, loopVars>>
  /\ UNCHANGED <<clientVars, streamVars, serviceVars>>

ToolResult ==
  /\ pc = "result"
  /\ EmitCardThen("tool_result_received", "done", "call")
  /\ IF Accepts("tool_result_received", Current)
     THEN /\ answered' = answered \union {Current}
          /\ executable' = Tail(executable)
     ELSE UNCHANGED <<answered, executable>>
  /\ UNCHANGED <<signal, response, offered, chosen, round, retried, seen, used,
                 asked, late>>
  /\ UNCHANGED <<clientVars, streamVars, serviceVars>>

-----------------------------------------------------------------------------
(* Ending the turn *)

TerminalFor(r) == IF r = "cancelled" THEN "turn_cancelled" ELSE "turn_failed"

(* The error's terminal event, tried where the loop returns and tried      *)
(* again by TurnService when the journal is not closed.                    *)
EndWithError ==
  /\ pc \in {"exit", "settle"}
  /\ Try(TerminalFor(result))
  /\ pc' = IF pc = "exit" THEN "settle" ELSE "finish"
  /\ UNCHANGED <<signal, response, result>>
  /\ UNCHANGED <<clientVars, streamVars, roundVars, loopVars, serviceVars>>

(* Mutant: a failed turn is not finalized.                                 *)
FinishUnlessFailed ==
  /\ pc = "finish"
  /\ pc' = "backstop"
  /\ finishes' = IF result = "failed" THEN finishes ELSE finishes + 1
  /\ saved' \in BOOLEAN
  /\ UNCHANGED <<signal, response, result, limited, leased>>
  /\ UNCHANGED <<emitterVars, clientVars, streamVars, roundVars, loopVars>>

(* end_turn, and after a success the read-back of the committed session;   *)
(* where the limits are refused it comes before the turn's events.         *)
Finish ==
  /\ \/ pc = "finish" /\ pc' = "backstop"
     \/ pc = "refused" /\ pc' = "abort_start"
  /\ finishes' = finishes + 1
  /\ saved' \in BOOLEAN
  /\ UNCHANGED <<signal, response, result, limited, leased>>
  /\ UNCHANGED <<emitterVars, clientVars, streamVars, roundVars, loopVars>>

(* Mutant: a round limit is reported like a completed turn.                *)
TurnResultMerged ==
  IF result \in {"ok", "max_rounds"} /\ saved THEN "end_turn"
  ELSE IF result = "cancelled" /\ saved THEN "cancelled"
  ELSE "error"

(* The mapping of run_turn: the cancelled and the round-limited turn are   *)
(* answered with a stop reason, and only when they could be finalized.     *)
TurnResult ==
  IF result = "ok" /\ saved THEN "end_turn"
  ELSE IF result = "cancelled" /\ saved THEN "cancelled"
  ELSE IF result = "max_rounds" /\ saved THEN "max_turn_requests"
  ELSE "error"

(* handle_prompt closes the journal of a turn that failed.                 *)
Backstop ==
  /\ pc = "backstop"
  /\ IF TurnResult = "error" THEN Try("turn_failed") ELSE UNCHANGED emitterVars
  /\ pc' = "join"
  /\ UNCHANGED <<signal, response, result>>
  /\ UNCHANGED <<clientVars, streamVars, roundVars, loopVars, serviceVars>>

(* Mutant: the answer does not wait for the projector.                     *)
RespondEarly ==
  /\ pc = "join"
  /\ response' = IF projector = "broken" THEN "error" ELSE TurnResult
  /\ pc' = "done"
  /\ UNCHANGED <<signal, result>>
  /\ UNCHANGED <<emitterVars, clientVars, streamVars, roundVars, loopVars,
                 serviceVars>>

(* The answer waits for the projector, whose failure overrides the result. *)
Respond ==
  /\ pc = "join"
  /\ projector # "running"
  /\ response' = IF projector = "broken" THEN "error" ELSE TurnResult
  /\ pc' = "done"
  /\ UNCHANGED <<signal, result>>
  /\ UNCHANGED <<emitterVars, clientVars, streamVars, roundVars, loopVars,
                 serviceVars>>

-----------------------------------------------------------------------------
(* The projector, and whoever cancels *)

(* Events the client hears of; the others are ignored by the projection.   *)
Notifies(e) == e.kind \in {"assistant_delta", "thinking_delta"} \/ e.shown # "none"

Break == projector' = "broken" /\ signal' = TRUE /\ UNCHANGED card

(* One event: a gap ends the projection and cancels the turn, a terminal   *)
(* event ends it, a notification is sent or fails.                         *)
Project ==
  /\ projector = "running"
  /\ queue # <<>>
  /\ queue' = Tail(queue)
  /\ LET e == Head(queue) IN
     /\ expected' = IF e.seq = expected THEN expected + 1 ELSE expected
     /\ IF e.seq # expected THEN Break
        ELSE IF e.kind \in TerminalEvents
        THEN projector' = e.kind /\ UNCHANGED <<signal, card>>
        ELSE \/ /\ card' = IF e.shown = "none" THEN card
                           ELSE [card EXCEPT ![e.call] = e.shown]
                /\ UNCHANGED <<projector, signal>>
             \/ Notifies(e) /\ Break
  /\ UNCHANGED <<pc, integ, sequence, result, response>>
  /\ UNCHANGED <<streamVars, roundVars, loopVars, serviceVars>>

(* session/cancel, another session operation, or shutdown.                 *)
Cancel ==
  /\ pc # "done"
  /\ ~signal
  /\ signal' = TRUE
  /\ UNCHANGED <<pc, result, response>>
  /\ UNCHANGED <<emitterVars, clientVars, streamVars, roundVars, loopVars,
                 serviceVars>>

-----------------------------------------------------------------------------
(* Steps that wait for the model, the client or a tool.                    *)
Await == Request \/ StreamItem \/ StreamOver \/ AskAction \/ Permission \/ ToolReturns

(* Steps that wait for nobody but the projector.                           *)
Proceed ==
  \/ BeginTurn \/ FailBeforeExecution \/ Precheck
  \/ Run \/ RoundStart
  \/ ReasoningDelta \/ TextDelta \/ CloseScopes \/ WrapStream
  \/ Judge \/ Sort \/ Skip \/ SkipResult \/ Conclude
  \/ Budget \/ NextCall \/ Decide \/ Execute \/ Returned \/ ToolResult
  \/ EndWithError \/ Finish \/ Backstop \/ Respond

Next == Proceed \/ Upload \/ Await \/ Project \/ Cancel

(* Where the flag is not looked at: an upload, a tool's own code           *)
(* (agent_loop.rs:426, interactive.rs:172), and a dialog whose wake-up was *)
(* lost (contracts.rs:47-50).                                              *)
Unraced == pc \in {"upload", "running", "unheard"}

(* Everything else a turn waits for is raced against the flag; local files *)
(* are read and written, and notifications queued, without waiting for     *)
(* anyone.  Nothing obliges a model or a user to answer a turn that is not *)
(* cancelled, nor what is not raced to end.                                *)
Fairness ==
  /\ WF_vars(Proceed)
  /\ WF_vars(signal /\ ~Unraced /\ Await)
  /\ WF_vars(Project)

Spec == Init /\ [][Next]_vars
FairSpec == Spec /\ Fairness

-----------------------------------------------------------------------------
(* Properties *)

(* The projector never meets a gap: numbers are consumed by the events     *)
(* that reach the channel and by no other, rejected and silent ones        *)
(* included.                                                               *)
SequenceUnbroken ==
  projector = "running" =>
    /\ sequence = expected + Len(queue)
    /\ \A i \in DOMAIN queue : queue[i].seq = expected + i - 1

(* Whatever path a turn takes, the session begin_turn gave it is handed    *)
(* back by exactly one end_turn, before the client is answered.            *)
LeaseSettled ==
  /\ finishes <= 1
  /\ response # "none" => finishes = (IF leased THEN 1 ELSE 0)

(* The stop reason agrees with the terminal event the client's projection  *)
(* ended on.                                                               *)
ResponseAgrees ==
  /\ response = "end_turn"          => projector = "turn_completed"
  /\ response = "cancelled"         => projector = "turn_cancelled"
  /\ response = "max_turn_requests" => projector = "turn_failed"

(* The model is never asked to continue, and a turn never completes, with  *)
(* a tool call in the history that has no result.                          *)
HistoryPaired ==
  /\ answered \subseteq asked
  /\ pc = "request" \/ result = "ok" => asked = answered

(* Once cancelled, a turn begins at most one more tool execution: the one  *)
(* it had already decided on.                                              *)
OneExecutionAfterCancel == late <= 1

(* The journal was never opened, so its terminal event is rejected, and    *)
(* the answer waits for a projection that nothing will end: the flag rose  *)
(* between the two checks that precede turn_started (turn_service.rs:97,   *)
(* agent_loop.rs:175), or the session was refused before it (174).         *)
Stranded == pc = "join" /\ integ.phase = "NotStarted" /\ projector = "running"

(* A cancelled turn is answered, unless it is stranded or for ever in one  *)
(* of the three places where the flag is not looked at.                    *)
CancelledTurnAnswered ==
  (signal ~> (response # "none" \/ Stranded)) \/ <>[]Unraced

(* The turn implements the contract a client relies on.                    *)
Contract == INSTANCE PromptContract WITH answer <- response

KeepsContract == Contract!Spec

(* agent_loop.rs:279-281: a terminal action records the outstanding calls  *)
(* in the history "instead of silently dropping them".                     *)
SkippedCallsRecorded ==
  chosen /\ pc = "settle" /\ projector = "running" =>
    Range(executable) \subseteq answered
===============================================================================
