----------------------------- MODULE GeminiStream -----------------------------
(* Client::stream and run_turn: one streamed request to Gemini.            *)
(*                                                                         *)
(* The upstream answers an HTTP attempt with lines; a line holds at most   *)
(* one structured call followed by a snapshot of the whole text so far or  *)
(* by metadata.  run_turn turns snapshots into deltas, drops calls it has  *)
(* sent, and decides after a failed attempt whether to make another.  The  *)
(* items go into a bounded channel whose receiver may be dropped at any    *)
(* time.  Texts are sequences of tokens; "card" is a link clean_text       *)
(* removes, "ref(" and ")ref" the ends of a reference block it removes.    *)
EXTENDS CallIds, Integers, FiniteSets, Sequences

CONSTANTS
  Answers,       (* each the set of texts one upstream may send *)
  OwnIds,        (* ids the upstream gives to structured calls *)
  Attempts,      (* retry_attempts.max(1) *)
  MaxLines,      (* bound: lines of one HTTP answer *)
  MaxEvents,     (* bound: events of one line *)
  Cap            (* capacity of a channel *)

ASSUME StreamAssumption ==
  /\ \A texts \in Answers : texts \subseteq Seq(STRING)
  /\ \A id \in OwnIds : id[2] \in Nat /\ id = Own(id[2])
  /\ {Attempts, MaxLines, MaxEvents, Cap} \subseteq Nat \ {0}

VARIABLES
  answer,     (* the texts this upstream may send *)
  phase,      (* where the spawned stream task stands *)
  attempt,    (* the attempt under way *)
  lines,      (* lines read in this attempt *)
  line,       (* events of the last line not yet handled *)
  tail,       (* the line is the unterminated last one *)
  emitted,    (* run_turn: the text sent so far *)
  tools,      (* run_turn: emitted_tools *)
  diverged,   (* run_turn: the last snapshot did not extend `emitted` *)
  decoder,    (* GeminiFrameDecoder: emitted_tool_ids, next_call_id *)
  failure,    (* the error the task is about to send *)
  channel,    (* items not yet received *)
  dropped,    (* the receiver is gone *)
  shown,      (* history: the last snapshot of this attempt *)
  delivered,  (* history: the text of all items put into the channel *)
  cuts        (* history: the ends of those items in that text *)

run == <<attempt, emitted, tools, diverged, decoder>>
pipe == <<answer, channel, dropped, delivered, cuts>>
vars == <<phase, lines, line, tail, failure, shown, run, pipe>>

(* The tokens of t at the positions in "kept". *)
Keeping(t, kept) ==
  LET upTo[n \in 0..Len(t)] ==
        IF n = 0 THEN <<>>
        ELSE IF n \in kept THEN Append(upTo[n - 1], t[n]) ELSE upTo[n - 1]
  IN  upTo[Len(t)]

(* frames::clean_text removes a card, and a reference block that is whole. *)
InBlock(t, k) ==
  \E i, j \in DOMAIN t :
    /\ i <= k /\ k <= j
    /\ t[i] = "ref(" /\ t[j] = ")ref" /\ \A m \in i..j - 1 : t[m] # ")ref"

Clean(t) == Keeping(t, {k \in DOMAIN t : t[k] # "card" /\ ~InBlock(t, k)})

Extends(t, prefix) == Len(prefix) <= Len(t) /\ SubSeq(t, 1, Len(prefix)) = prefix
Rest(t, prefix) == SubSeq(t, Len(prefix) + 1, Len(t))

(* What one line decodes to: decode_inner collects the calls, then the     *)
(* metadata (of an object) or the longest candidate (of an array).         *)
CallEvents == {<<[kind |-> "call", id |-> i]>> : i \in OwnIds \cup {NoId}}
Contents ==
  {<<>>} \cup {<<[kind |-> "text", toks |-> t]>> : t \in answer \ {<<>>}}
         \cup {<<[kind |-> "metadata", of |-> m]>> : m \in {"usage", "block", "refused"}}
Lines == {l \in {c \o t : c \in CallEvents \cup {<<>>}, t \in Contents} :
            Len(l) <= MaxEvents}

Init ==
  /\ answer \in Answers
  /\ phase = "request" /\ attempt = 1 /\ lines = 0 /\ line = <<>> /\ tail = FALSE
  /\ emitted = <<>> /\ tools = {} /\ diverged = FALSE
  /\ decoder = [ids |-> {}, next |-> 0]
  /\ failure = "none"
  /\ channel = <<>> /\ dropped = FALSE
  /\ shown = <<>> /\ delivered = <<>> /\ cuts = {}

-------------------------------------------------------------------------------
(* run_turn *)

Room == Len(channel) < Cap

Put(item) ==
  /\ ~dropped /\ Room
  /\ channel' = Append(channel, item)
  /\ delivered' = delivered \o (IF item.kind = "text" THEN item.toks ELSE <<>>)
  /\ cuts' = IF item.kind = "text" THEN cuts \cup {Len(delivered')} ELSE cuts
  /\ UNCHANGED <<answer, dropped>>

(* The Err branch: a refusal (authentication expired, BardError) is final;  *)
(* anything else is tried again while nothing has left, or after a          *)
(* divergence.                                                              *)
MayRetry(error) ==
  /\ error # "refused"
  /\ attempt < Attempts
  /\ tools = {}
  /\ emitted = <<>> \/ error = "divergence"

(* Every attempt starts from an empty text. *)
FailForgetting(error) ==
  /\ IF MayRetry(error)
     THEN /\ phase' = "backoff"
          /\ decoder' = [ids |-> {}, next |-> 0]
          /\ diverged' = FALSE /\ emitted' = <<>>
          /\ UNCHANGED failure
     ELSE /\ phase' = "failing" /\ failure' = error
          /\ UNCHANGED <<decoder, diverged, emitted>>
  /\ line' = <<>> /\ tail' = FALSE
  /\ UNCHANGED <<attempt, lines, tools, shown, pipe>>

Fail(error) ==
  /\ IF MayRetry(error)
     THEN /\ phase' = "backoff"
          /\ decoder' = [ids |-> {}, next |-> 0]
          /\ diverged' = FALSE
          /\ UNCHANGED failure
     ELSE /\ phase' = "failing" /\ failure' = error
          /\ UNCHANGED <<decoder, diverged>>
  /\ line' = <<>> /\ tail' = FALSE
  /\ UNCHANGED <<attempt, lines, emitted, tools, shown, pipe>>

(* The sleep between two attempts is over. *)
NextAttempt ==
  /\ phase = "backoff" /\ ~dropped
  /\ phase' = "request" /\ attempt' = attempt + 1 /\ lines' = 0 /\ shown' = <<>>
  /\ UNCHANGED <<line, tail, emitted, tools, diverged, decoder, failure, pipe>>

(* attempt_http: build_request, send, status.  "network" stands for every *)
(* failure of the transport: no answer, an HTTP error status, a broken    *)
(* body, a line over the decoder's limit.                                 *)
Connect ==
  /\ phase = "request" /\ ~dropped
  /\ phase' = "reading"
  /\ UNCHANGED <<lines, line, tail, failure, shown, run, pipe>>

ConnectFails ==
  /\ phase = "request" /\ ~dropped
  /\ Fail("network")

(* GeminiFrameDecoder: a line is decoded once its newline has come, what is *)
(* left of the buffer at the end.                                           *)
Decode ==
  /\ lines < MaxLines
  /\ line' \in Lines
  /\ lines' = lines + 1

(* Reading the body: a line, a broken connection, the end.  What the decoder *)
(* still holds at the end is decoded as a last line.                         *)
ReadLine ==
  /\ phase = "reading" /\ ~dropped
  /\ line = <<>>
  /\ Decode
  /\ UNCHANGED <<phase, tail, failure, shown, run, pipe>>

ReadFails ==
  /\ phase = "reading" /\ ~dropped /\ line = <<>>
  /\ Fail("network")

EndOfBody ==
  /\ phase = "reading" /\ ~dropped /\ line = <<>>
  /\ phase' = "last"
  /\ \/ UNCHANGED <<line, lines, tail>>
     \/ Decode /\ line' # <<>> /\ tail' = TRUE
  /\ UNCHANGED <<failure, shown, run, pipe>>

(* One event of a line; the send waits for room. *)
Handled ==
  /\ line' = Tail(line)
  /\ UNCHANGED <<phase, lines, tail, failure, attempt>>

(* collect_tool_calls: a call without an id gets the next one, every time. *)
EmitCall ==
  /\ line # <<>> /\ Head(line).kind = "call" /\ ~dropped
  /\ LET id == IF Head(line).id = NoId THEN Allocated(decoder.next) ELSE Head(line).id
     IN  /\ decoder' = [ids |-> decoder.ids \cup {id},
                        next |-> decoder.next + (IF Head(line).id = NoId THEN 1 ELSE 0)]
         /\ IF id \in decoder.ids \cup tools
            THEN UNCHANGED <<tools, pipe>>
            ELSE tools' = tools \cup {id} /\ Put([kind |-> "call", id |-> id])
  /\ Handled
  /\ UNCHANGED <<emitted, diverged, shown>>

(* emit_frame: a snapshot that repeats, extends or contradicts the text. *)
EmitText ==
  /\ line # <<>> /\ Head(line).kind = "text" /\ ~dropped
  /\ LET candidate == Head(line).toks
         delta == Clean(Rest(candidate, emitted))
     IN  /\ shown' = candidate
         /\ diverged' = ~Extends(candidate, emitted)
         /\ emitted' = IF Extends(candidate, emitted) THEN candidate ELSE emitted
         /\ IF Extends(candidate, emitted) /\ delta # <<>>
            THEN Put([kind |-> "text", toks |-> delta])
            ELSE UNCHANGED pipe
  /\ Handled
  /\ UNCHANGED <<tools, decoder>>

(* Metadata, except what feed_decoded_text acts upon; the last line does *)
(* not pass through it.                                                  *)
EmitMetadata ==
  /\ line # <<>> /\ Head(line).kind = "metadata" /\ ~dropped
  /\ tail \/ Head(line).of = "usage"
  /\ Put([kind |-> "metadata", of |-> Head(line).of])
  /\ Handled
  /\ UNCHANGED <<emitted, tools, diverged, decoder, shown>>

(* The stream ends with an error the task puts itself; run_turn returns Ok. *)
GiveUp(error) ==
  /\ Put([kind |-> "error", of |-> error])
  /\ phase' = "done" /\ line' = <<>>
  /\ UNCHANGED <<lines, tail, failure, shown, run>>

Blocked ==
  /\ line # <<>> /\ Head(line).kind = "metadata" /\ ~dropped
  /\ ~tail /\ Head(line).of = "block"
  /\ GiveUp("blocked")

Refused ==
  /\ line # <<>> /\ Head(line).kind = "metadata" /\ ~dropped
  /\ ~tail /\ Head(line).of = "refused"
  /\ Fail("refused")

(* validate_frame_event: an event over its limit fails the attempt. *)
Oversized ==
  /\ line # <<>> /\ ~dropped
  /\ tail \/ Head(line) \notin {[kind |-> "metadata", of |-> m] : m \in {"block", "refused"}}
  /\ Fail("network")

(* The end of attempt_http, once the last line is handled. *)
Unusable == emitted = <<>> /\ tools = {} /\ lines > 0

EndDiverged ==
  /\ phase = "last" /\ line = <<>> /\ ~dropped
  /\ diverged
  /\ Fail("divergence")

EndUnusable ==
  /\ phase = "last" /\ line = <<>> /\ ~dropped
  /\ ~diverged /\ Unusable
  /\ GiveUp("unusable")

(* The end of the body is a success, whatever its last snapshot was. *)
EndCleanAlways ==
  /\ phase = "last" /\ line = <<>> /\ ~dropped
  /\ phase' = "done"
  /\ UNCHANGED <<lines, line, tail, failure, shown, run, pipe>>

EndClean ==
  /\ phase = "last" /\ line = <<>> /\ ~dropped
  /\ ~diverged /\ ~Unusable
  /\ phase' = "done"
  /\ UNCHANGED <<lines, line, tail, failure, shown, run, pipe>>

(* Client::stream: a failed run_turn sends its error; a closed channel ends *)
(* the task wherever it stands.                                             *)
SendFailure ==
  /\ phase = "failing" /\ ~dropped
  /\ Put([kind |-> "error", of |-> failure])
  /\ phase' = "done"
  /\ UNCHANGED <<lines, line, tail, failure, shown, run>>

Abandon ==
  /\ dropped /\ phase # "done"
  /\ phase' = "done" /\ line' = <<>>
  /\ UNCHANGED <<lines, tail, failure, shown, run, pipe>>

Produce ==
  \/ Connect \/ ConnectFails \/ NextAttempt
  \/ ReadLine \/ ReadFails \/ EndOfBody
  \/ EmitCall \/ EmitText \/ EmitMetadata
  \/ Blocked \/ Refused \/ Oversized
  \/ EndDiverged \/ EndUnusable \/ EndClean
  \/ SendFailure \/ Abandon

-------------------------------------------------------------------------------
(* The receiving side *)

Take ==
  /\ channel # <<>>
  /\ channel' = Tail(channel)
  /\ UNCHANGED <<phase, lines, line, tail, failure, shown, run, answer, dropped, delivered, cuts>>

Drop ==
  /\ ~dropped
  /\ dropped' = TRUE /\ channel' = <<>>
  /\ UNCHANGED <<phase, lines, line, tail, failure, shown, run, answer, delivered, cuts>>

Next == Produce \/ Take \/ Drop
Spec == Init /\ [][Next]_vars
===============================================================================
