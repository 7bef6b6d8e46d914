-------------------------- MODULE SessionLifecycle --------------------------
(***************************************************************************)
(* The connection of one client with one agent process: the handlers of    *)
(* the ACP requests, the turns they start, wait for and cancel, the tools  *)
(* bound to each session, the permissions a turn asks the client for, and  *)
(* the shutdown of the process.                                            *)
(*                                                                         *)
(* The protocol library delivers one incoming message at a time and awaits *)
(* its handler before it looks at the next, replies to the agent's own     *)
(* requests included.  Turns run beside the handlers, in tasks of their    *)
(* own.  The store is seen from outside: SessionStore is its inside.       *)
(***************************************************************************)
EXTENDS Integers, Sequences

CONSTANTS Sessions,       \* session ids
          Prompted,       \* bound: the sessions the client sends requests for
          Modes,          \* of "default", "accept", "bypass"
          Servers,        \* lists of MCP servers a client configures: "" is the empty
                          \* one, "broken" one without a server that answers
          MaxInbox        \* bound: messages of the client not yet delivered

ASSUME LifecycleAssumption == Prompted \subseteq Sessions

VARIABLES process,        \* "up", "closing", "closed" (graceful exit), "killed"
          status,         \* of each id: "fresh", "stored", "deleted"; ids are not used twice
          mode, rules,    \* of each session, as committed
          chosen,         \* the "always" answer of the user last recorded for it
          binding,        \* tools bound to each session
          turn,           \* the turn of each session, in or out of the active map
          inbox,          \* messages of the client, in order
          handler,        \* the handler being awaited
          awaited         \* turns the shutdown waits for

vars == <<process, status, mode, rules, chosen, binding, turn, inbox, handler, awaited>>

store == <<status, mode, rules, chosen>>

(***************************************************************************)
(* Values.  One tool stands for every tool that executes: its calls need a *)
(* permission, carry a low or a high risk, and may put a question to the   *)
(* user (AskUserQuestion).                                                 *)
(***************************************************************************)
Fallback == "fallback"    \* no binding: the process-wide registry
Builtin == "builtin"      \* bound without MCP servers
Risks == {"low", "high"}  \* of a call, by its arguments
Choices == {"once", "always", "refuse", "refuse_always", "dismiss"}
RuleOf(choice) == IF choice = "always" THEN "allow" ELSE "reject"

NoTurn == [at |-> "none", cancelled |-> FALSE, mode |-> "default", rules |-> "none",
           memory |-> "none", tools |-> Fallback]

Idle == [op |-> "idle", session |-> "", at |-> "", with |-> ""]
Message(op, s, with) == [op |-> op, session |-> s, with |-> with]

Waiting == {"load", "delete", "close", "fork"}   \* they cancel_and_wait first

Active(s) == turn[s].at # "none"
Stored(s) == status[s] = "stored"
Fresh == {s \in Sessions : status[s] = "fresh"}

Init ==
  /\ process = "up"
  /\ status = [s \in Sessions |-> "fresh"]
  /\ mode = [s \in Sessions |-> "default"]
  /\ rules = [s \in Sessions |-> "none"]
  /\ chosen = rules
  /\ binding = [s \in Sessions |-> Fallback]
  /\ turn = [s \in Sessions |-> NoTurn]
  /\ inbox = <<>>
  /\ handler = Idle
  /\ awaited = {}

(***************************************************************************)
(* The client.                                                             *)
(***************************************************************************)
Requests ==
  [op : {"new"}, session : {""}, with : Servers]
    \cup [op : {"load"}, session : Prompted, with : Servers]
    \cup [op : (Waiting \ {"load"}) \cup {"prompt", "cancel"}, session : Prompted, with : {""}]
    \cup [op : {"mode"}, session : Prompted, with : Modes]

Send(m) ==
  /\ process = "up"
  /\ Len(inbox) < MaxInbox
  /\ inbox' = Append(inbox, m)
  /\ UNCHANGED <<process, store, binding, turn, handler, awaited>>

\* Requests about a session name one the client was told of.
Ask(m) ==
  /\ m.op # "new" => m.session \notin Fresh
  /\ Send(m)

\* The user's answer to a permission request or to a question; at most one.
Reply(s, choice) ==
  /\ turn[s].at \in {"permission", "question"}
  /\ \A i \in DOMAIN inbox : inbox[i].op # "reply" \/ inbox[i].session # s
  /\ Send(Message("reply", s, choice))

(***************************************************************************)
(* Delivery: handlers that are done in one step.                           *)
(***************************************************************************)
\* Messages are delivered until the process has exited.
DeliverAnytime ==
  /\ process \in {"up", "closing"}
  /\ handler = Idle
  /\ inbox # <<>>
  /\ inbox' = Tail(inbox)
  /\ UNCHANGED <<process, awaited>>

Deliver ==
  /\ process = "up"
  /\ handler = Idle
  /\ inbox # <<>>
  /\ inbox' = Tail(inbox)
  /\ UNCHANGED <<process, awaited>>

\* TurnManager::start: refused while the session has a turn in the active map.
DeliverPrompt ==
  /\ Deliver
  /\ Head(inbox).op = "prompt"
  /\ LET s == Head(inbox).session IN
       turn' = IF Active(s) THEN turn ELSE [turn EXCEPT ![s] = [NoTurn EXCEPT !.at = "begin"]]
  /\ UNCHANGED <<store, binding, handler>>

Cancelled(t) == [t EXCEPT !.cancelled = t.at # "none"]

DeliverCancel ==
  /\ Deliver
  /\ Head(inbox).op = "cancel"
  /\ turn' = [turn EXCEPT ![Head(inbox).session] = Cancelled(@)]
  /\ UNCHANGED <<store, binding, handler>>

SetMode(s, m) == mode' = IF Stored(s) THEN [mode EXCEPT ![s] = m] ELSE mode

\* set_mode does not touch a running turn, which has its own copy.
DeliverMode ==
  /\ Deliver
  /\ Head(inbox).op = "mode"
  /\ SetMode(Head(inbox).session, Head(inbox).with)
  /\ UNCHANGED <<status, rules, chosen, binding, turn, handler>>

\* What a turn whose loop is over still needs: the rules of its copy.
Settling(t) == [NoTurn EXCEPT !.at = "settling", !.cancelled = t.cancelled, !.rules = t.rules]

\* remember(): in the turn's memory, and in the store unless that fails.
Remembered(s, rule, persisted) ==
  /\ turn' = [turn EXCEPT ![s].memory = rule,
                          ![s].at = IF rule = "allow" THEN "executing" ELSE "running"]
  /\ IF persisted /\ Stored(s)
     THEN rules' = [rules EXCEPT ![s] = rule] /\ chosen' = [chosen EXCEPT ![s] = rule]
     ELSE UNCHANGED <<rules, chosen>>

\* A reply reaches the turn that waits for it; one nobody waits for is dropped.
DeliverReply(persisted) ==
  /\ Deliver
  /\ Head(inbox).op = "reply"
  /\ LET s == Head(inbox).session
         choice == Head(inbox).with
         to(at) == turn' = [turn EXCEPT ![s].at = at] /\ UNCHANGED <<rules, chosen>>
     IN  CASE turn[s].at = "question" -> to("running")
           [] turn[s].at = "permission" /\ choice = "once" -> to("executing")
           [] turn[s].at = "permission" /\ choice = "refuse" -> to("running")
           [] turn[s].at = "permission" /\ choice = "dismiss" ->
                turn' = [turn EXCEPT ![s] = Settling(@)] /\ UNCHANGED <<rules, chosen>>
           [] turn[s].at = "permission" /\ choice \in {"always", "refuse_always"} ->
                Remembered(s, RuleOf(choice), persisted)
           [] OTHER -> UNCHANGED <<turn, rules, chosen>>
  /\ UNCHANGED <<status, mode, binding, handler>>

(***************************************************************************)
(* Handlers of several steps.                                              *)
(***************************************************************************)
Handling(m, s, at) == handler' = [op |-> m.op, session |-> s, at |-> at, with |-> m.with]

In(ops, at) == process = "up" /\ handler.op \in ops /\ handler.at = at

GoTo(at) == handler' = [handler EXCEPT !.at = at]

DeliverNew ==
  /\ Deliver
  /\ Head(inbox).op = "new"
  /\ Handling(Head(inbox), "", "create")
  /\ UNCHANGED <<store, binding, turn>>

\* cancel_and_wait: nothing to wait for when the session has no turn.
DeliverWaiting ==
  /\ Deliver
  /\ Head(inbox).op \in Waiting
  /\ LET s == Head(inbox).session IN
       /\ turn' = [turn EXCEPT ![s] = Cancelled(@)]
       /\ Handling(Head(inbox), s, IF Active(s) THEN "wait" ELSE "settled")
  /\ UNCHANGED <<store, binding>>

TurnGone ==
  /\ In(Waiting, "wait")
  /\ ~Active(handler.session)
  /\ GoTo("settled")
  /\ UNCHANGED <<process, store, binding, turn, inbox, awaited>>

\* CANCEL_WAIT is over and the handler goes on.
DeadlineIgnored ==
  /\ In(Waiting, "wait")
  /\ Active(handler.session)
  /\ GoTo("settled")
  /\ UNCHANGED <<process, store, binding, turn, inbox, awaited>>

\* The wait has no deadline while the turn waits for the user.
DeadlineSuspended ==
  /\ In(Waiting, "wait")
  /\ Active(handler.session)
  /\ turn[handler.session].at # "question"
  /\ handler' = Idle
  /\ UNCHANGED <<process, store, binding, turn, inbox, awaited>>

\* CANCEL_WAIT is over: the request is answered with an error.
Deadline ==
  /\ In(Waiting, "wait")
  /\ Active(handler.session)
  /\ handler' = Idle
  /\ UNCHANGED <<process, store, binding, turn, inbox, awaited>>

\* sessions.load / resume read the session the response will describe; they fail
\* when there is none or its directory is another one.
ReadSession ==
  /\ In({"load"}, "settled")
  /\ \/ Stored(handler.session) /\ GoTo("configure")
     \/ handler' = Idle
  /\ UNCHANGED <<process, store, binding, turn, inbox, awaited>>

\* A new session has no rule, if it is a fork too.
Opened(s, itsMode) ==
  /\ s \in Fresh
  /\ status' = [status EXCEPT ![s] = "stored"]
  /\ mode' = [mode EXCEPT ![s] = itsMode]
  /\ rules' = [rules EXCEPT ![s] = "none"]
  /\ chosen' = [chosen EXCEPT ![s] = "none"]

Create(s) ==
  /\ In({"new"}, "create")
  /\ Opened(s, "default")
  /\ handler' = [handler EXCEPT !.session = s, !.at = "configure"]
  /\ UNCHANGED <<process, binding, turn, inbox, awaited>>

CreateFails ==
  /\ In({"new"}, "create")
  /\ handler' = Idle
  /\ UNCHANGED <<process, store, binding, turn, inbox, awaited>>

Bind(s, tools) == binding' = [binding EXCEPT ![s] = tools]

\* configure_session: with servers, their tools beside the builtin ones.
Configure ==
  /\ In({"new", "load"}, "configure")
  /\ handler.with # "broken"
  /\ Bind(handler.session, IF handler.with = "" THEN Builtin ELSE handler.with)
  /\ handler' = Idle
  /\ UNCHANGED <<process, store, turn, inbox, awaited>>

\* No server of the list can be used: load unbinds the session, new removes it.
ConfigureFails ==
  /\ In({"new", "load"}, "configure")
  /\ handler.with # ""
  /\ Bind(handler.session, Fallback)
  /\ status' = IF handler.op = "new" THEN [status EXCEPT ![handler.session] = "deleted"] ELSE status
  /\ handler' = Idle
  /\ UNCHANGED <<process, mode, rules, chosen, turn, inbox, awaited>>

\* The tools stay bound to a session that goes.
RemoveBound ==
  /\ In({"delete", "close"}, "settled")
  /\ LET s == handler.session IN
       status' = IF Stored(s) /\ handler.op = "delete" THEN [status EXCEPT ![s] = "deleted"]
                 ELSE status
  /\ handler' = Idle
  /\ UNCHANGED <<process, mode, rules, chosen, binding, turn, inbox, awaited>>

\* SessionManager::delete, and close, which keeps the session's file: the tools
\* are unbound once the store has said there was such a session.
Removed(s, op) ==
  IF Stored(s)
  THEN /\ Bind(s, Fallback)
       /\ status' = IF op = "delete" THEN [status EXCEPT ![s] = "deleted"] ELSE status
  ELSE UNCHANGED <<status, binding>>

Remove ==
  /\ In({"delete", "close"}, "settled")
  /\ Removed(handler.session, handler.op)
  /\ handler' = Idle
  /\ UNCHANGED <<process, mode, rules, chosen, turn, inbox, awaited>>

RemoveFails ==
  /\ In({"delete"}, "settled")
  /\ Stored(handler.session)
  /\ handler' = Idle
  /\ UNCHANGED <<process, store, binding, turn, inbox, awaited>>

\* Store::fork: a copy of the source under a new id, if it can be written.
Forked(source) ==
  /\ Stored(source)
  /\ \E s \in Fresh : Opened(s, mode[source])

Fork ==
  /\ In({"fork"}, "settled")
  /\ Forked(handler.session) \/ UNCHANGED store
  /\ handler' = Idle
  /\ UNCHANGED <<process, binding, turn, inbox, awaited>>

(***************************************************************************)
(* A turn.                                                                 *)
(***************************************************************************)
Running == process \in {"up", "closing"}

Turn(s, from, to) ==
  /\ Running
  /\ turn[s].at = from
  /\ turn' = [turn EXCEPT ![s] = to]
  /\ UNCHANGED <<process, binding, inbox, handler, awaited>>

Moved(s, at) == [turn[s] EXCEPT !.at = at]

\* begin_turn hands the turn its copy of the session, if there is one.
BeginTurn(s) ==
  /\ Turn(s, "begin",
          IF Stored(s) THEN [Moved(s, "begun") EXCEPT !.mode = mode[s], !.rules = rules[s]]
          ELSE Moved(s, "answered"))
  /\ UNCHANGED store

\* AgentLoop::run takes the tools of the session, once.
TakeTools(s) ==
  /\ Turn(s, "begun", IF turn[s].cancelled THEN Settling(turn[s])
                      ELSE [Moved(s, "running") EXCEPT !.tools = binding[s]])
  /\ UNCHANGED store

\* The rule of the turn's copy goes before what was remembered since it began.
Rule(t) == IF t.rules # "none" THEN t.rules ELSE t.memory

NeedsPermission(t, risk) ==
  /\ Rule(t) # "allow"
  /\ \/ t.mode = "default"
     \/ t.mode = "accept" /\ risk = "high"

\* ToolExecutor::request_permission sends the request and waits for its answer.
Asking(t) == [t EXCEPT !.at = "permission"]

\* A call of the tool: run, refused by a rule, or put to the user.
CallTool(s, risk) ==
  /\ ~turn[s].cancelled
  /\ Turn(s, "running",
          IF ~NeedsPermission(turn[s], risk) THEN Moved(s, "executing")
          ELSE IF Rule(turn[s]) = "reject" THEN turn[s]
          ELSE Asking(turn[s]))
  /\ UNCHANGED store

\* The call returns its result, good or bad; an error when tools are disabled.
ToolReturns(s) ==
  /\ Turn(s, "executing", Moved(s, "running"))
  /\ UNCHANGED store

\* AskUserQuestion sends the client a request and waits for it, cancelled or not.
AskUser(s) ==
  /\ Turn(s, "executing", Moved(s, "question"))
  /\ UNCHANGED store

\* Seen by the loop and by the permission request, not by a question.
SeesCancel(s) ==
  /\ turn[s].cancelled
  /\ \/ Turn(s, "running", Settling(turn[s]))
     \/ Turn(s, "permission", Settling(turn[s]))
  /\ UNCHANGED store

\* The connection is gone: requests to the client may fail.
RequestFails(s) ==
  /\ process = "closing"
  /\ \/ Turn(s, "question", Moved(s, "running"))
     \/ Turn(s, "permission", Moved(s, "running"))
  /\ UNCHANGED store

EndLoop(s) ==
  /\ Turn(s, "running", Settling(turn[s]))
  /\ UNCHANGED store

\* The rules of the turn's copy overwrite those recorded while it ran.
CommittedOwn(s) == turn[s].rules

\* end_turn writes the turn's copy, with the settings of the live session.
CommittedRules(s) == rules[s]

Commit(s) ==
  /\ Turn(s, "settling", Moved(s, "answered"))
  /\ rules' = IF Stored(s) THEN [rules EXCEPT ![s] = CommittedRules(s)] ELSE rules
  /\ UNCHANGED <<status, mode, chosen>>

\* The response is sent; only then does the guard leave the active map.
Leave(s) ==
  /\ Turn(s, "answered", NoTurn)
  /\ UNCHANGED store

(***************************************************************************)
(* The process.                                                            *)
(***************************************************************************)
\* A signal drops the connection with the handler it awaits, takes the active
\* turns and cancels them.
Signal ==
  /\ process = "up"
  /\ process' = "closing"
  /\ awaited' = {s \in Sessions : Active(s)}
  /\ turn' = [s \in Sessions |-> Cancelled(turn[s])]
  /\ handler' = Idle
  /\ UNCHANGED <<store, binding, inbox>>

\* What the process had in memory is gone with it.
Ended ==
  /\ inbox' = <<>>
  /\ handler' = Idle
  /\ binding' = [s \in Sessions |-> Fallback]
  /\ awaited' = {}
  /\ UNCHANGED store

\* The turns awaited have left; "turn" shows whether others are still there.
AllLeft ==
  /\ process = "closing"
  /\ \A s \in awaited : ~Active(s)
  /\ process' = "closed"
  /\ Ended
  /\ UNCHANGED turn

NoTurns == turn' = [s \in Sessions |-> NoTurn]

\* The shared deadline of the waits, or SHUTDOWN_TIMEOUT over all of it
ShutdownTimeout ==
  /\ process = "closing"
  /\ \E s \in awaited : Active(s)
  /\ process' = "killed"
  /\ Ended
  /\ NoTurns

\* End of input or a crash: the process ends at once, turns and all.
Dies ==
  /\ Running
  /\ process' = "killed"
  /\ Ended
  /\ NoTurns

Restart ==
  /\ process \in {"closed", "killed"}
  /\ process' = "up"
  /\ NoTurns
  /\ UNCHANGED <<store, binding, inbox, handler, awaited>>

Handler ==
  \/ DeliverPrompt \/ DeliverCancel \/ DeliverMode \/ DeliverNew \/ DeliverWaiting
  \/ \E persisted \in BOOLEAN : DeliverReply(persisted)
  \/ TurnGone \/ Deadline \/ ReadSession
  \/ (\E s \in Sessions : Create(s)) \/ CreateFails
  \/ Configure \/ ConfigureFails \/ Remove \/ RemoveFails \/ Fork

TurnStep(s) ==
  \/ BeginTurn(s) \/ TakeTools(s) \/ (\E risk \in Risks : CallTool(s, risk))
  \/ ToolReturns(s) \/ AskUser(s)
  \/ SeesCancel(s) \/ RequestFails(s) \/ EndLoop(s) \/ Commit(s) \/ Leave(s)

Next ==
  \/ \E m \in Requests : Ask(m)
  \/ \E s \in Sessions, choice \in Choices : Reply(s, choice)
  \/ Handler
  \/ \E s \in Sessions : TurnStep(s)
  \/ Signal \/ AllLeft \/ ShutdownTimeout \/ Dies \/ Restart

Spec == Init /\ [][Next]_vars

\* The runtime polls every ready future, and its timers fire: a handler that can
\* take a step does.  Nothing is assumed of the user, the model or the turns.
FairSpec == Spec /\ WF_vars(Handler)

(***************************************************************************)
(* Properties.                                                             *)
(***************************************************************************)
\* load, resume, fork, close and delete look at a session, bind its tools or
\* remove it only while no turn of it is in flight: what they read is committed,
\* and they give up rather than run beside a turn that outlasts CANCEL_WAIT.
SettledFirst ==
  handler.at \in {"settled", "configure"} => ~Active(handler.session)

\* No tools stay bound to a session that is gone, and those a turn works with are
\* the ones bound to its session all the time it runs.
BindingsSound ==
  \A s \in Sessions :
    /\ binding[s] # Fallback => Stored(s)
    /\ turn[s].at \in {"running", "permission", "executing", "question"} =>
         turn[s].tools = binding[s]

\* An "always" answer holds from the moment it is recorded: in the rest of the
\* turn, in later turns and after a restart, the user is not asked again,
\* and in a mode that asks for such a call what was refused for good is not executed.
RulesHonoured ==
  [][\A s \in Sessions, risk \in Risks : CallTool(s, risk) =>
       /\ turn'[s].at = "permission" => chosen[s] = "none" /\ turn[s].memory = "none"
       /\ \/ turn[s].mode = "default"
          \/ turn[s].mode = "accept" /\ risk = "high"
          => (chosen[s] = "reject" => turn'[s].at = "running")]_vars

\* acp prompt/turn/permission.rs: a remembered "always reject" must route through
\* request_permission, which rejects; whatever the mode, the call is not executed.
RejectRouted ==
  [][\A s \in Sessions, risk \in Risks :
       CallTool(s, risk) /\ chosen[s] = "reject" => turn'[s].at = "running"]_vars

\* Handlers wait for turns, turns wait for the user, and the user's reply waits for
\* the handler: the connection still gets to its next message.
DispatchMoves == handler # Idle ~> handler = Idle

\* A graceful exit leaves no turn behind, those started after the signal included.
ShutdownComplete == process = "closed" => \A s \in Sessions : ~Active(s)
=============================================================================
