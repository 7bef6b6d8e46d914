------------------------------ MODULE McpClient ------------------------------
(***************************************************************************)
(* One stdio MCP server of a catalogue: McpCatalog::call_async,            *)
(* McpServerClient::request, StdioTransport::request, and the              *)
(* ToolCancellation that races each call.                                  *)
(*                                                                         *)
(* Calls of several turns share the server's mutex, its two pipes and its  *)
(* request ids.  A call that is cancelled or timed out is dropped wherever *)
(* it waits, which may be in the middle of a line: neither write_all nor   *)
(* read_line gives back what it has already moved.  A step is the code     *)
(* between two awaits, or between two accesses to what threads share.      *)
(***************************************************************************)
EXTENDS Integers, Sequences

CONSTANTS
  Calls,     (* tool calls that the registry routes to this server *)
  NoLine,
  Forms,     (* the kinds of answer the server gives *)
  MaxNoise   (* bound: lines of the server that answer no request *)

ASSUME ClientAssumption ==
  /\ Forms \subseteq {"result", "error", "malformed", "broken"}
  /\ MaxNoise \in Nat

VARIABLES
  pc,      (* call -> progress *)
  queue,   (* the server's mutex: its holder, then the waiters in order *)
  next_id, (* McpServerClient::next_id *)
  id,      (* call -> the id of its request, 0 before it has one *)
  last,    (* call -> the line its reading ended on, or NoLine *)
  signal,  (* call -> the cancellation flag of its turn *)
  watcher, (* call -> whether the task of from_receiver still watches it *)
  ear,     (* call -> progress of ToolCancellation::cancelled *)
  stdin,   (* request lines on their way to the server *)
  cutIn,   (* stdin ends in a piece of a request *)
  stdout,  (* lines of the server not read yet *)
  cutOut,  (* the first of them has lost its beginning *)
  alive,   (* the server runs *)
  noise,   (* lines counted by MaxNoise *)
  spoilt,  (* history: calls whose request was joined to such a piece *)
  cutters  (* history: calls dropped in the middle of a line *)

callVars   == <<pc, queue, next_id, id, last>>
cancelVars == <<signal, watcher, ear>>
pipes      == <<stdin, cutIn, stdout, cutOut>>
history    == <<spoilt, cutters>>
vars == <<pc, queue, next_id, id, last, signal, watcher, ear, stdin, cutIn,
          stdout, cutOut, alive, noise, spoilt, cutters>>

InFlight == {"request", "write", "read"}

(* ok and remote: the server's result or error; garbled: Protocol,         *)
(* MessageTooLarge, or Transport over a line that is not UTF-8; closed and *)
(* timeout: Transport; invalid: refused before anything was written;       *)
(* aborted: cancelled.                                                     *)
Ended == {"ok", "remote", "garbled", "closed", "timeout", "invalid", "aborted"}

(* What a line is to parse_json_rpc_response and what comes after it.      *)
(* Answers: a result, an error, one that fails behind its id (malformed:   *)
(* neither of the two or both, no valid error, no tool result), and one    *)
(* that fails before its id is compared (broken: too long, not UTF-8, no   *)
(* JSON object, cut short by the server's end, another version, no id).    *)
(* Others: a line without an id, and a request of the server's own.  A     *)
(* request the server cannot read has id 0, like a line that bears no id   *)
(* of ours.                                                                *)
Requests == [call : Calls, id : Nat]
Lines    == [kind : {"result", "error", "malformed", "broken"}, call : Calls, id : Nat]
            \union [kind : {"notice", "ask"}, id : Nat]

TypeOK ==
  /\ pc \in [Calls -> {"idle", "queued"} \union InFlight \union Ended]
  /\ queue \in Seq(Calls)
  /\ next_id \in Nat \ {0}
  /\ id \in [Calls -> Nat]
  /\ last \in [Calls -> Lines \union {NoLine}]
  /\ signal \in [Calls -> BOOLEAN]
  /\ watcher \in [Calls -> {"watching", "gone"}]
  /\ ear \in [Calls -> {"none", "checked", "listening", "heard", "deaf"}]
  /\ stdin \subseteq Requests
  /\ cutIn \in BOOLEAN
  /\ stdout \in Seq(Lines)
  /\ cutOut \in BOOLEAN
  /\ alive \in BOOLEAN
  /\ noise \in 0..MaxNoise
  /\ spoilt \subseteq Calls
  /\ cutters \subseteq Calls

Init ==
  /\ pc = [c \in Calls |-> "idle"]
  /\ queue = <<>>
  /\ next_id = 1
  /\ id = [c \in Calls |-> 0]
  /\ last = [c \in Calls |-> NoLine]
  /\ signal = [c \in Calls |-> FALSE]
  /\ watcher = [c \in Calls |-> "watching"]
  /\ ear = [c \in Calls |-> "none"]
  /\ stdin = {}
  /\ cutIn = FALSE
  /\ stdout = <<>>
  /\ cutOut = FALSE
  /\ alive = TRUE
  /\ noise = 0
  /\ spoilt = {}
  /\ cutters = {}

-----------------------------------------------------------------------------
Goto(c, l) == pc' = [pc EXCEPT ![c] = l]

(* The call returns, its cancelled() is dropped, its guard releases the    *)
(* mutex.                                                                  *)
End(c, outcome) ==
  /\ Goto(c, outcome)
  /\ queue' = Tail(queue)
  /\ ear' = [ear EXCEPT ![c] = "none"]

(* The select polls its two branches in turn: the call does not move while *)
(* its task is inside cancelled().                                         *)
Moves(c, l) == pc[c] = l /\ ear[c] # "checked"

(* ToolRegistry::call_async refuses a call that is cancelled already; then *)
(* McpCatalog::call_async waits for the mutex, deaf to cancellation.       *)
Call(c) ==
  /\ pc[c] = "idle"
  /\ \/ signal[c] /\ Goto(c, "aborted") /\ UNCHANGED queue
     \/ ~signal[c] /\ Goto(c, "queued") /\ queue' = Append(queue, c)
  /\ UNCHANGED <<next_id, id, last, cancelVars, pipes, alive, noise, history>>

Lock(c) ==
  /\ pc[c] = "queued"
  /\ Head(queue) = c
  /\ Goto(c, "request")
  /\ UNCHANGED <<queue, next_id, id, last, cancelVars, pipes, alive, noise, history>>

(* Mutant: the id is not consumed.                                         *)
RequestSameId(c) ==
  /\ Moves(c, "request")
  /\ Goto(c, "write")
  /\ id' = [id EXCEPT ![c] = next_id]
  /\ UNCHANGED <<queue, next_id, last, cancelVars, pipes, alive, noise, history>>

(* Arguments that are no object are refused, an oversized request too,     *)
(* the latter after its id has been taken.                                 *)
Request(c) ==
  /\ Moves(c, "request")
  /\ \/ /\ Goto(c, "write")
        /\ id' = [id EXCEPT ![c] = next_id]
        /\ next_id' = next_id + 1
        /\ UNCHANGED <<queue, ear>>
     \/ End(c, "invalid") /\ next_id' \in {next_id, next_id + 1} /\ UNCHANGED id
  /\ UNCHANGED <<last, signal, watcher, pipes, alive, noise, history>>

(* The line is written and flushed; after a piece of an older request it   *)
(* makes a line the server cannot read.                                    *)
Write(c) ==
  /\ Moves(c, "write")
  /\ \/ /\ alive
        /\ stdin' = stdin \union {[call |-> c, id |-> IF cutIn THEN 0 ELSE id[c]]}
        /\ spoilt' = IF cutIn THEN spoilt \union {c} ELSE spoilt
        /\ cutIn' = FALSE
        /\ Goto(c, "read")
        /\ UNCHANGED <<queue, ear>>
     \/ ~alive /\ End(c, "closed") /\ UNCHANGED <<stdin, cutIn, spoilt>>
  /\ UNCHANGED <<next_id, id, last, signal, watcher, stdout, cutOut, alive, noise, cutters>>

-----------------------------------------------------------------------------
(* The reading loop of StdioTransport::request *)

(* Mutant: the buffer of a read is not kept for the next one.              *)
TakesBuffer(c) ==
  /\ Moves(c, "read")
  /\ stdout # <<>>
  /\ stdout' = <<>>
  /\ cutOut' = FALSE
  /\ UNCHANGED <<next_id, id, signal, watcher, stdin, cutIn, alive, noise, history>>

(* read_line moves one line out of the BufReader, which outlives the call. *)
Takes(c) ==
  /\ Moves(c, "read")
  /\ stdout # <<>>
  /\ stdout' = Tail(stdout)
  /\ cutOut' = FALSE
  /\ UNCHANGED <<next_id, id, signal, watcher, stdin, cutIn, alive, noise, history>>

Finish(c, outcome) ==
  /\ End(c, outcome)
  /\ last' = [last EXCEPT ![c] = Head(stdout)]

Continue == UNCHANGED <<pc, queue, ear, last>>

(* Mutant: a line with another id is an error.                             *)
ReadStrict(c) ==
  /\ Takes(c)
  /\ LET line == Head(stdout) IN
     \/ cutOut /\ (Finish(c, "garbled") \/ Continue)
     \/ /\ ~cutOut
        /\ line.kind \in {"malformed", "broken", "notice", "ask"} \/ line.id # id[c]
        /\ Finish(c, "garbled")
     \/ ~cutOut /\ line.id = id[c] /\ line.kind = "result" /\ Finish(c, "ok")
     \/ ~cutOut /\ line.id = id[c] /\ line.kind = "error" /\ Finish(c, "remote")

(* The rest of a cut line is no JSON, or nothing but its newline, which is *)
(* skipped.  A line that fails before its id is compared is an error       *)
(* whoever it is for; any other is skipped unless it bears the id of the   *)
(* request, and then it must be a result or an error.                      *)
Read(c) ==
  /\ Takes(c)
  /\ LET line == Head(stdout)
         mine == line.id = id[c]
     IN
     \/ cutOut /\ (Finish(c, "garbled") \/ Continue)
     \/ ~cutOut /\ line.kind \in {"broken", "notice"} /\ Finish(c, "garbled")
     \/ ~cutOut /\ line.kind \notin {"broken", "notice"} /\ ~mine /\ Continue
     \/ ~cutOut /\ mine /\ line.kind = "result" /\ Finish(c, "ok")
     \/ ~cutOut /\ mine /\ line.kind = "error" /\ Finish(c, "remote")
     \/ ~cutOut /\ mine /\ line.kind \in {"malformed", "ask"} /\ Finish(c, "garbled")

ReadEnd(c) ==
  /\ Moves(c, "read")
  /\ stdout = <<>> /\ ~alive
  /\ End(c, "closed")
  /\ UNCHANGED <<next_id, id, last, signal, watcher, pipes, alive, noise, history>>

-----------------------------------------------------------------------------
(* A call that is dropped *)

(* A write leaves a piece of its line, or none; a read takes a piece of    *)
(* the next line with it, or none.                                         *)
Drop(c) ==
  \/ UNCHANGED <<cutIn, stdout, cutOut, cutters>>
  \/ /\ pc[c] = "write" /\ alive
     /\ cutIn' = TRUE
     /\ cutters' = cutters \union {c}
     /\ UNCHANGED <<stdout, cutOut>>
  \/ /\ pc[c] = "read" /\ stdout # <<>>
     /\ cutOut' = TRUE
     /\ cutters' = cutters \union {c}
     /\ UNCHANGED <<cutIn, stdout>>

(* Mutant: only the reading has a deadline.                                *)
TimeoutReading(c) ==
  /\ Moves(c, "read")
  /\ End(c, "timeout")
  /\ Drop(c)
  /\ UNCHANGED <<next_id, id, last, signal, watcher, stdin, alive, noise, spoilt>>

(* REQUEST_TIMEOUT and IO_TIMEOUT, which are equal.                        *)
Timeout(c) ==
  /\ \E l \in {"write", "read"} : Moves(c, l)
  /\ End(c, "timeout")
  /\ Drop(c)
  /\ UNCHANGED <<next_id, id, last, signal, watcher, stdin, alive, noise, spoilt>>

(* Mutant: only the reading is raced against the cancellation.             *)
AbortReading(c) ==
  /\ ear[c] = "heard"
  /\ pc[c] = "read"
  /\ End(c, "aborted")
  /\ Drop(c)
  /\ UNCHANGED <<next_id, id, last, signal, watcher, stdin, alive, noise, spoilt>>

Abort(c) ==
  /\ ear[c] = "heard"
  /\ pc[c] \in InFlight
  /\ End(c, "aborted")
  /\ Drop(c)
  /\ UNCHANGED <<next_id, id, last, signal, watcher, stdin, alive, noise, spoilt>>

-----------------------------------------------------------------------------
(* ToolCancellation *)

Cancel(c) ==
  /\ ~signal[c]
  /\ pc[c] \notin Ended
  /\ signal' = [signal EXCEPT ![c] = TRUE]
  /\ UNCHANGED <<callVars, watcher, ear, pipes, alive, noise, history>>

(* The task of from_receiver wakes those who listen, once.  (What it does  *)
(* after the call has ended nobody sees.)                                  *)
Watch(c) ==
  /\ signal[c] /\ pc[c] \notin Ended
  /\ watcher[c] = "watching"
  /\ watcher' = [watcher EXCEPT ![c] = "gone"]
  /\ ear' = [ear EXCEPT ![c] = IF @ = "listening" THEN "heard" ELSE @]
  /\ UNCHANGED <<callVars, signal, pipes, alive, noise, history>>

(* cancelled() looks at the flag ...                                       *)
Check(c) ==
  /\ pc[c] \in InFlight
  /\ ear[c] = "none"
  /\ ear' = [ear EXCEPT ![c] = IF signal[c] THEN "heard" ELSE "checked"]
  /\ UNCHANGED <<callVars, signal, watcher, pipes, alive, noise, history>>

(* ... and then begins to listen: if the watcher has called meanwhile,     *)
(* nobody will call again.                                                 *)
Listen(c) ==
  /\ ear[c] = "checked"
  /\ ear' = [ear EXCEPT ![c] = IF watcher[c] = "gone" THEN "deaf" ELSE "listening"]
  /\ UNCHANGED <<callVars, signal, watcher, pipes, alive, noise, history>>

-----------------------------------------------------------------------------
(* The server, followed while a call is left to notice it *)

Noticed == \E c \in Calls : pc[c] \notin Ended

(* It answers the requests it can read, in any order.  One it cannot read  *)
(* it ignores, or reports under a null id.                                 *)
Answer ==
  /\ alive /\ Noticed
  /\ \E r \in stdin, kind \in Forms :
       /\ stdin' = stdin \ {r}
       /\ r.id = 0 => kind \in {"error", "broken"}
       /\ \/ stdout' = Append(stdout, [kind |-> kind, call |-> r.call, id |-> r.id])
          \/ r.id = 0 /\ UNCHANGED stdout
  /\ UNCHANGED <<callVars, cancelVars, cutIn, cutOut, alive, noise, history>>

(* Notifications carry no id; its own requests have ids of its choice, of  *)
(* which those of the current and the next request can matter.             *)
Say ==
  /\ alive /\ Noticed
  /\ noise < MaxNoise
  /\ noise' = noise + 1
  /\ \/ stdout' = Append(stdout, [kind |-> "notice", id |-> 0])
     \/ \E n \in {next_id - 1, next_id} : stdout' = Append(stdout, [kind |-> "ask", id |-> n])
  /\ UNCHANGED <<callVars, cancelVars, stdin, cutIn, cutOut, alive, history>>

Exit ==
  /\ alive /\ Noticed
  /\ alive' = FALSE
  /\ UNCHANGED <<callVars, cancelVars, pipes, noise, history>>

-----------------------------------------------------------------------------
CallStep(c) ==
  \/ Call(c) \/ Lock(c) \/ Request(c) \/ Write(c) \/ Read(c) \/ ReadEnd(c)
  \/ Timeout(c) \/ Abort(c)

CancelStep(c) == Cancel(c) \/ Watch(c) \/ Check(c) \/ Listen(c)

Next == (\E c \in Calls : CallStep(c) \/ CancelStep(c)) \/ Answer \/ Say \/ Exit

(* Tasks run, and time passes.  A write waits for the server to take it;   *)
(* the server owes nothing.  Deadlines are not counted on for a call that  *)
(* has been cancelled, which is supposed to do without them.               *)
Fairness ==
  \A c \in Calls :
    /\ WF_vars(Lock(c) \/ Request(c) \/ Read(c) \/ ReadEnd(c))
    /\ WF_vars(Check(c) \/ Listen(c))
    /\ WF_vars(Watch(c))
    /\ WF_vars(Abort(c))
    /\ WF_vars(~signal[c] /\ Timeout(c))

Spec == Init /\ [][Next]_vars
FairSpec == Spec /\ Fairness

-----------------------------------------------------------------------------
(* Properties *)

(* A call that succeeds returns the answer to its own request, whatever    *)
(* answers of abandoned calls arrive in its time.                          *)
OwnAnswer == \A c \in Calls : pc[c] = "ok" => last[c].call = c

(* A call fails over a line only if that line is its own answer and        *)
(* malformed, fails before any id is compared, is a request of the         *)
(* server's that happens to bear the call's id, or lost its beginning to   *)
(* another call dropped in the middle of it: late answers as such are      *)
(* harmless.                                                               *)
GarbledExplained ==
  \A c \in Calls : pc[c] = "garbled" =>
    \/ last[c].kind \in {"broken", "notice"}
    \/ last[c].kind = "malformed" /\ last[c].call = c
    \/ last[c].kind = "ask" /\ last[c].id = id[c]
    \/ cutters \ {c} # {}

(* The answer a call waits for is still to come: no other call's end has   *)
(* lost it, unless the call's request was spoilt on the way.               *)
AwaitedAnswerKept ==
  \A c \in Calls \ spoilt : pc[c] = "read" /\ alive =>
    \/ \E r \in stdin : r.call = c
    \/ \E i \in DOMAIN stdout :
         /\ stdout[i].kind \notin {"notice", "ask"}
         /\ stdout[i].call = c
         /\ cutOut => i > 1

Deaf(c) == ear[c] = "deaf"

(* A cancelled call ends without its deadline, unless the watcher called   *)
(* between its look at the flag and its listening (contracts.rs:47-50).    *)
CancelledCallAborts ==
  \A c \in Calls : signal[c] /\ pc[c] \in InFlight ~> pc[c] \in Ended \/ Deaf(c)

(* Every call gets the server and ends, however the calls before it fared. *)
QueueMoves ==
  \A c \in Calls : pc[c] = "queued" ~> pc[c] \in Ended \/ \E d \in Calls : Deaf(d)
=============================================================================
