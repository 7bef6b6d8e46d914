------------------------------ MODULE ModelStream -----------------------------
(* GeminiProvider::stream: the request of GeminiStream, the task that feeds *)
(* its items to the SemanticStream parser and sends the model events on,    *)
(* and the listener (the runtime), which may hang up at any time.           *)
EXTENDS GeminiStream, SemanticStream

VARIABLES
  sem,       (* the GeminiSemanticStream of the relaying task; sem.out: events not yet sent *)
  relay,     (* where that task stands *)
  sent,      (* events the second channel has taken *)
  gone       (* the listener has dropped its receiver *)

relaying == <<sem, relay, sent, gone>>
all == <<vars, relaying>>

StreamInit ==
  /\ Init
  /\ sem \in {NewStream(supported) : supported \in BOOLEAN}
  /\ relay = "reading" /\ sent = <<>>
  /\ gone = FALSE

(* upstream.recv() *)
Idle == relay = "reading" /\ sem.out = <<>>

Feed ==
  /\ Idle /\ channel # <<>> /\ Head(channel).kind # "error"
  /\ Take
  /\ sem' = FeedItem(sem, Head(channel))
  /\ UNCHANGED <<relay, sent, gone>>

(* An error ends the stream without flushing the parser. *)
FeedError ==
  /\ Idle /\ channel # <<>> /\ Head(channel).kind = "error"
  /\ Take
  /\ sem' = [sem EXCEPT !.out = <<Head(channel)>>]
  /\ relay' = "closing"
  /\ UNCHANGED <<sent, gone>>

(* The upstream is over: what the parser holds back is flushed. *)
Flush ==
  /\ Idle /\ channel = <<>> /\ phase = "done"
  /\ sem' = FinishStream(sem) /\ relay' = "closing"
  /\ UNCHANGED <<vars, sent, gone>>

(* A send waits until the listener has made room. *)
Send ==
  /\ sem.out # <<>> /\ ~gone
  /\ sent' = Append(sent, Head(sem.out))
  /\ sem' = [sem EXCEPT !.out = Tail(@)]
  /\ UNCHANGED <<vars, relay, gone>>

(* The task returns: at its end, or when a send finds the listener gone.   *)
(* Its end of the first channel goes with it.                              *)
Return ==
  /\ relay # "done"
  /\ IF sem.out = <<>> THEN relay = "closing" ELSE gone
  /\ relay' = "done" /\ sem' = [sem EXCEPT !.out = <<>>]
  /\ IF dropped THEN UNCHANGED vars ELSE Drop
  /\ UNCHANGED <<sent, gone>>

HangUp ==
  /\ ~gone /\ relay # "done"
  /\ gone' = TRUE
  /\ UNCHANGED <<vars, sem, relay, sent>>

Request == Produce /\ UNCHANGED relaying
Relay == Feed \/ FeedError \/ Flush \/ Send \/ Return

(* Both tasks are over.  TLC checks that nothing stops before this: no     *)
(* action can be taken for ever, so a request that is not stuck ends.      *)
Finished == phase = "done" /\ relay = "done" /\ UNCHANGED all

StreamNext == Request \/ Relay \/ HangUp \/ Finished
StreamSpec == StreamInit /\ [][StreamNext]_all

-------------------------------------------------------------------------------
(* Properties *)

(* Everything but the pieces clean_text may remove. *)
Artifacts == {"card", "ref(", "py", ")ref"}
Prose(t) == Keeping(t, {k \in DOMAIN t : t[k] \notin Artifacts})

(* The text that left the request is the text of one snapshot: retries and *)
(* diverging snapshots neither repeat nor mix text.  Code: run_turn keeps  *)
(* `emitted` over attempts, emit_frame sends the difference.               *)
OneText == Prose(delivered) = Prose(emitted)

(* A request that ends without an error has sent the whole of the last     *)
(* snapshot of its last attempt, unless that attempt sent no text.  Code:  *)
(* attempt_http returns Ok only when not diverged.                         *)
Handed == sent \o sem.out
Errors == {i \in DOMAIN (Handed \o channel) : (Handed \o channel)[i].kind = "error"}
CleanEndComplete ==
  phase = "done" /\ ~dropped /\ ~gone /\ Errors = {} => shown \in {<<>>, emitted}

(* Words, thoughts and calls of a sequence of events; newlines aside. *)
Spoken(evs, k) ==
  SelectSeq(FlattenSeq([n \in DOMAIN evs |-> IF evs[n].kind = k THEN evs[n].toks ELSE <<>>]),
            LAMBDA tok : tok # Newline)
Asked(evs) == SelectSeq(evs, LAMBDA e : e.kind = "call")

SameOutput(evs, others) ==
  /\ Spoken(evs, "text") = Spoken(others, "text")
  /\ Spoken(evs, "reasoning") = Spoken(others, "reasoning")
  /\ Asked(evs) = Asked(others)

AtOnce == FinishStream(FeedText(NewStream(sem.reasoning.supported), delivered)).out

Occurs(m, k) == k \in DOMAIN delivered /\ Find(From(delivered, k), m) = 1
Inside(m, i) == \E k \in 1..i : i < k + Len(m) - 1 /\ Occurs(m, k)
CallsAt == {k \in DOMAIN delivered : \E m \in CallMarkers : Occurs(m, k)}

(* The cuts the detectors are built for: inside the opening of a call, if   *)
(* it is the only one and no echoed result follows; inside the marker that  *)
(* opens the thought a text begins with, or closes it, in a text without    *)
(* calls.                                                                   *)
Guarded(i) ==
  \/ /\ \E m \in CallMarkers : Inside(m, i)
     /\ Cardinality(CallsAt) = 1
     /\ FindAny(From(delivered, i + 1), ResultMarkers) = 0
  \/ /\ CallsAt = {}
     /\ Opening(delivered, ThinkOpen) > 0
     /\ i < Opening(delivered, ThinkOpen) \/ Inside(ThinkClose, i)

(* However the network cuts a text at such places, the listener is sent the *)
(* words, thoughts and calls of the text in one piece.  Code: the holding   *)
(* back of partial markers (protocol.rs:179-210, reasoning.rs:63, 99).      *)
SplitInvariant ==
  sem.completed /\ ~gone /\ tools = {} /\ (\A i \in cuts \ {Len(delivered)} : Guarded(i))
  => SameOutput(Handed, AtOnce)

===============================================================================
