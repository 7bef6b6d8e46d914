----------------------- MODULE SessionLifecycleProofs -----------------------
(***************************************************************************)
(* Proofs about SessionLifecycle for any sessions, modes and servers.      *)
(*                                                                         *)
(* LifeInv says what the handlers, the turns and the bindings know of each *)
(* other: a handler past its wait has no turn of its session beside it and *)
(* only prompts start turns, which need the same dispatch loop; a turn     *)
(* works with the tools bound because those who bind are past their wait.  *)
(* RuleInv adds what is remembered of the user's answers, in four places.  *)
(***************************************************************************)
EXTENDS SessionLifecycle, TLAPS

RuleSet == {"none", "allow", "reject"}
ToolSets == Servers \union {Fallback, Builtin}
ModeSet == Modes \union {"default"}
Phases == {"none", "begin", "begun", "running", "permission", "executing", "question",
           "settling", "answered"}
Turns == [at : Phases, cancelled : BOOLEAN, mode : ModeSet, rules : RuleSet,
          memory : RuleSet, tools : ToolSets]
Ops == {"new", "prompt", "cancel", "mode", "reply"} \union Waiting
Withs == Servers \union Modes \union Choices \union {""}
Messages ==
  {m \in [op : Ops, session : Sessions \union {""}, with : Withs] :
     /\ m.op # "new" => m.session \in Sessions
     /\ m.op = "mode" => m.with \in Modes
     /\ m.op \in {"new", "load"} => m.with \in Servers}
Handlings ==
  {h \in [op : {"idle", "new"} \union Waiting, session : Sessions \union {""},
          at : {"", "create", "wait", "settled", "configure"}, with : Withs] :
     /\ h.at \in {"wait", "settled", "configure"} => h.session \in Sessions
     /\ h.op \in {"new", "load"} => h.with \in Servers}

TypeOK ==
  /\ process \in {"up", "closing", "closed", "killed"}
  /\ status \in [Sessions -> {"fresh", "stored", "deleted"}]
  /\ mode \in [Sessions -> ModeSet]
  /\ rules \in [Sessions -> RuleSet]
  /\ chosen \in [Sessions -> RuleSet]
  /\ binding \in [Sessions -> ToolSets]
  /\ turn \in [Sessions -> Turns]
  /\ inbox \in Seq(Messages)
  /\ handler \in Handlings
  /\ awaited \subseteq Sessions

(* Nothing is known of an id before its session is created: no request     *)
(* names it and no turn of it runs.                                        *)
FreshUnknown ==
  /\ \A i \in 1..Len(inbox) : inbox[i].op # "new" => inbox[i].session \notin Fresh
  /\ \A s \in Sessions : Active(s) => s \notin Fresh

(* The handler that binds tools found or made the session it binds them to.*)
ConfiguresStored == handler.at = "configure" => Stored(handler.session)

(* After a signal no turn starts: those in flight are those waited for.    *)
ClosingAwaits ==
  process = "closing" => \A s \in Sessions : Active(s) => s \in awaited

LifeInv ==
  /\ TypeOK
  /\ FreshUnknown
  /\ ConfiguresStored
  /\ ClosingAwaits
  /\ SettledFirst
  /\ BindingsSound
  /\ ShutdownComplete

Working == {"running", "permission", "executing", "question"}

(* The store has the last answer recorded; a turn that still calls tools   *)
(* knows it, from its copy or from its memory; and a turn asks only when   *)
(* it knows of none.                                                       *)
AnswersKnown ==
  \A s \in Sessions :
    /\ rules[s] = chosen[s]
    /\ turn[s].at = "begin" => turn[s].rules = "none" /\ turn[s].memory = "none"
    /\ turn[s].at \in {"begun"} \union Working /\ chosen[s] # "none" =>
         Rule(turn[s]) = chosen[s]
    /\ turn[s].at = "permission" => Rule(turn[s]) = "none"

RuleInv == LifeInv /\ AnswersKnown
-----------------------------------------------------------------------------
LEMMA RequestsTyped == Requests \subseteq Messages
BY LifecycleAssumption DEF Requests, Messages, Ops, Withs, Waiting

(* What delivery takes from the inbox and leaves there.                    *)
LEMMA InboxDelivered ==
  ASSUME TypeOK, inbox # <<>>
  PROVE  /\ Head(inbox) \in Messages
         /\ Head(inbox) = inbox[1] /\ 1 \in 1..Len(inbox)
         /\ Tail(inbox) \in Seq(Messages)
         /\ \A i \in 1..Len(Tail(inbox)) :
              i + 1 \in 1..Len(inbox) /\ Tail(inbox)[i] = inbox[i + 1]
BY DEF TypeOK

LEMMA InboxSent ==
  ASSUME TypeOK, FreshUnknown, NEW m \in Messages,
         m.op # "new" => m.session \notin Fresh, Send(m)
  PROVE  /\ inbox' \in Seq(Messages)
         /\ \A i \in 1..Len(inbox') :
              inbox'[i].op # "new" => inbox'[i].session \notin Fresh
<1>1. inbox \in Seq(Messages) /\ inbox' = Append(inbox, m)
  BY DEF TypeOK, Send
<1>2. /\ Len(inbox') = Len(inbox) + 1
      /\ inbox'[Len(inbox) + 1] = m
      /\ \A i \in 1..Len(inbox) : inbox'[i] = inbox[i]
  BY <1>1
<1>3. \A i \in 1..Len(inbox') : i \in 1..Len(inbox) \/ i = Len(inbox) + 1
  BY <1>1, <1>2
<1>4. QED
  BY <1>1, <1>2, <1>3 DEF FreshUnknown

(* What a step of a turn may do: end it, move it on with its tools, or     *)
(* give it those bound to its session.                                     *)
LEMMA TurnStepEffect ==
  ASSUME TypeOK, NEW s \in Sessions, TurnStep(s)
  PROVE  /\ process \in {"up", "closing"} /\ Active(s)
         /\ UNCHANGED <<process, status, mode, chosen, binding, inbox, handler, awaited>>
         /\ rules' \in [Sessions -> RuleSet]
         /\ turn' \in [Sessions -> Turns]
         /\ \A r \in Sessions \ {s} : turn'[r] = turn[r]
         /\ turn'[s].at \in Working =>
              \/ turn[s].at \in Working /\ turn'[s].tools = turn[s].tools
              \/ turn'[s].tools = binding[s]
<1> DEFINE Kept == /\ UNCHANGED <<status, mode, chosen>>
                   /\ rules' \in [Sessions -> RuleSet]
           Good(to) == /\ to \in Turns
                       /\ to.at \in Working =>
                            \/ turn[s].at \in Working /\ to.tools = turn[s].tools
                            \/ to.tools = binding[s]
<1> USE DEF TypeOK
<1>1. ASSUME NEW from \in Phases \ {"none"}, NEW to, Turn(s, from, to), Good(to), Kept
      PROVE  /\ process \in {"up", "closing"} /\ Active(s)
             /\ UNCHANGED <<process, status, mode, chosen, binding, inbox, handler, awaited>>
             /\ rules' \in [Sessions -> RuleSet]
             /\ turn' \in [Sessions -> Turns]
             /\ \A r \in Sessions \ {s} : turn'[r] = turn[r]
             /\ turn'[s].at \in Working =>
                  \/ turn[s].at \in Working /\ turn'[s].tools = turn[s].tools
                  \/ turn'[s].tools = binding[s]
  BY <1>1 DEF Turn, Running, Active, Kept, Good
<1>2. turn[s] \in Turns /\ binding[s] \in ToolSets /\ rules[s] \in RuleSet /\ mode[s] \in ModeSet
  OBVIOUS
<1>3. /\ Settling(turn[s]) \in Turns /\ Settling(turn[s]).at \notin Working
      /\ NoTurn \in Turns /\ NoTurn.at \notin Working
  BY <1>2 DEF Settling, NoTurn, Turns, Phases, Working, RuleSet, ModeSet, ToolSets
<1>4. ASSUME NEW at \in Phases, at \in Working => turn[s].at \in Working
      PROVE  Good(Moved(s, at))
  BY <1>2, <1>4 DEF Good, Moved, Turns
<1> USE DEF Phases
<1>5. CASE BeginTurn(s)
  <2> DEFINE to == IF Stored(s)
                   THEN [Moved(s, "begun") EXCEPT !.mode = mode[s], !.rules = rules[s]]
                   ELSE Moved(s, "answered")
  <2>1. Good(to)
    BY <1>2 DEF Good, Moved, Turns, Working
  <2>2. Turn(s, "begin", to) /\ Kept
    BY <1>5 DEF BeginTurn, store, Kept
  <2>3. QED
    BY <1>1, <2>1, <2>2
<1>6. CASE TakeTools(s)
  <2> DEFINE to == IF turn[s].cancelled THEN Settling(turn[s])
                   ELSE [Moved(s, "running") EXCEPT !.tools = binding[s]]
  <2>1. Good(to)
    BY <1>2, <1>3 DEF Good, Moved, Turns, Working
  <2>2. Turn(s, "begun", to) /\ Kept
    BY <1>6 DEF TakeTools, store, Kept
  <2>3. QED
    BY <1>1, <2>1, <2>2
<1>7. ASSUME NEW risk \in Risks, CallTool(s, risk)
      PROVE  \E to : Turn(s, "running", to) /\ Good(to) /\ Kept
  <2>1. turn[s].at = "running" /\ Kept
    BY <1>7 DEF CallTool, Turn, store, Kept
  <2>2. Good(Moved(s, "executing")) /\ Good(turn[s])
    BY <1>2, <1>4, <2>1 DEF Working, Good
  <2>3. Good(Asking(turn[s]))
    BY <1>4, <2>1 DEF Asking, Moved, Working
  <2>4. QED
    BY <1>7, <2>1, <2>2, <2>3 DEF CallTool
<1>8. CASE ToolReturns(s)
  <2>1. turn[s].at = "executing" /\ Kept
    BY <1>8 DEF ToolReturns, Turn, store, Kept
  <2>2. QED
    BY <1>1, <1>4, <1>8, <2>1 DEF ToolReturns, Working
<1>9. CASE AskUser(s)
  <2>1. turn[s].at = "executing" /\ Kept
    BY <1>9 DEF AskUser, Turn, store, Kept
  <2>2. QED
    BY <1>1, <1>4, <1>9, <2>1 DEF AskUser, Working
<1>10. CASE SeesCancel(s)
  <2>1. Kept /\ Good(Settling(turn[s]))
    BY <1>3, <1>10 DEF SeesCancel, store, Kept, Good
  <2>2. QED
    BY <1>1, <1>10, <2>1 DEF SeesCancel
<1>11. CASE RequestFails(s)
  <2>1. turn[s].at \in Working /\ Kept
    BY <1>11 DEF RequestFails, Turn, store, Kept, Working
  <2>2. QED
    BY <1>1, <1>4, <1>11, <2>1 DEF RequestFails
<1>12. CASE EndLoop(s)
  <2>1. Kept /\ Good(Settling(turn[s]))
    BY <1>3, <1>12 DEF EndLoop, store, Kept, Good
  <2>2. QED
    BY <1>1, <1>12, <2>1 DEF EndLoop
<1>13. CASE Commit(s)
  <2>1. Kept
    BY <1>2, <1>13 DEF Commit, Kept, CommittedRules
  <2>2. Good(Moved(s, "answered"))
    BY <1>4 DEF Working
  <2>3. QED
    BY <1>1, <1>13, <2>1, <2>2 DEF Commit
<1>14. CASE Leave(s)
  <2>1. Kept /\ Good(NoTurn)
    BY <1>3, <1>14 DEF Leave, store, Kept, Good
  <2>2. QED
    BY <1>1, <1>14, <2>1 DEF Leave
<1>15. QED
  BY <1>1, <1>5, <1>6, <1>7, <1>8, <1>9, <1>10, <1>11, <1>12, <1>13, <1>14 DEF TurnStep
(* What taking a message from the inbox leaves for the invariants to say.  *)
LEMMA DeliverKeeps ==
  ASSUME LifeInv, Deliver, status' = status,
         turn' \in [Sessions -> Turns],
         \A s \in Sessions : turn'[s].at # "none" => s \notin Fresh
  PROVE  /\ inbox' \in Seq(Messages)
         /\ Head(inbox) \in Messages
         /\ Head(inbox).op # "new" => Head(inbox).session \in Sessions \ Fresh
         /\ process' = process /\ process = "up" /\ awaited' = awaited /\ handler = Idle
         /\ FreshUnknown'
<1>1. inbox # <<>> /\ inbox' = Tail(inbox) /\ TypeOK
  BY DEF Deliver, LifeInv
<1>2. Head(inbox).op # "new" => Head(inbox).session \in Sessions \ Fresh
  BY <1>1, InboxDelivered DEF LifeInv, FreshUnknown, Messages
<1>3. \A i \in 1..Len(inbox') : inbox'[i].op # "new" => inbox'[i].session \notin Fresh
  BY <1>1, InboxDelivered DEF LifeInv, FreshUnknown
<1>4. Fresh' = Fresh
  BY DEF Fresh
<1>5. QED
  BY <1>1, <1>2, <1>3, <1>4, InboxDelivered DEF Deliver, FreshUnknown, Active

LEMMA IdleTyped == Idle \in Handlings /\ Idle.at = ""
BY DEF Idle, Handlings, Withs, Waiting

LEMMA OpenedEffect ==
  ASSUME TypeOK, NEW s \in Sessions, NEW itsMode \in ModeSet, Opened(s, itsMode)
  PROVE  /\ status' \in [Sessions -> {"fresh", "stored", "deleted"}]
         /\ mode' \in [Sessions -> ModeSet]
         /\ rules' \in [Sessions -> RuleSet] /\ chosen' \in [Sessions -> RuleSet]
         /\ s \in Fresh /\ status'[s] = "stored"
         /\ rules'[s] = "none" /\ chosen'[s] = "none"
         /\ \A r \in Sessions \ {s} :
              status'[r] = status[r] /\ rules'[r] = rules[r] /\ chosen'[r] = chosen[r]
BY DEF Opened, TypeOK, RuleSet

LEMMA LifeInvInductive ==
  /\ Init => LifeInv
  /\ LifeInv /\ [Next]_vars => LifeInv'
<1>1. ASSUME Init
      PROVE  LifeInv
  <2>1. NoTurn \in Turns /\ NoTurn.at = "none"
    BY DEF NoTurn, Turns, Phases, ModeSet, RuleSet, ToolSets
  <2>2. TypeOK
    <3>1. <<>> \in Seq(Messages)
      OBVIOUS
    <3>2. /\ status \in [Sessions -> {"fresh", "stored", "deleted"}]
          /\ mode \in [Sessions -> ModeSet]
          /\ rules \in [Sessions -> RuleSet] /\ chosen \in [Sessions -> RuleSet]
          /\ binding \in [Sessions -> ToolSets]
      BY <1>1 DEF Init, ModeSet, RuleSet, ToolSets
    <3>3. turn \in [Sessions -> Turns]
      BY <1>1, <2>1 DEF Init
    <3>4. QED
      BY <1>1, <3>1, <3>2, <3>3, IdleTyped DEF Init, TypeOK
  <2>3. FreshUnknown /\ ConfiguresStored /\ ClosingAwaits /\ SettledFirst /\ ShutdownComplete
    <3>1. Len(inbox) = 0 /\ handler = Idle /\ process = "up"
      BY <1>1 DEF Init
    <3>2. \A s \in Sessions : turn[s].at = "none"
      BY <1>1, <2>1 DEF Init
    <3>3. 1..Len(inbox) = {}
      BY <3>1
    <3>4. QED
      BY <3>1, <3>2, <3>3, IdleTyped
         DEF FreshUnknown, ConfiguresStored, ClosingAwaits, SettledFirst, ShutdownComplete,
             Active
  <2>4. BindingsSound
    BY <1>1, <2>1 DEF Init, BindingsSound
  <2>5. QED
    BY <2>2, <2>3, <2>4 DEF LifeInv
<1>2. ASSUME LifeInv, [Next]_vars
      PROVE  LifeInv'
  <2> USE <1>2
  <2> DEFINE Parts == /\ FreshUnknown /\ ConfiguresStored /\ ClosingAwaits
                      /\ SettledFirst /\ BindingsSound /\ ShutdownComplete
  <2>0. TypeOK /\ Parts /\ (LifeInv' <=> TypeOK' /\ Parts')
    BY DEF LifeInv
  <2>1. ASSUME NEW m \in Messages, m.op # "new" => m.session \notin Fresh, Send(m)
        PROVE  LifeInv'
    <3>1. /\ inbox' \in Seq(Messages)
          /\ \A i \in 1..Len(inbox') :
               inbox'[i].op # "new" => inbox'[i].session \notin Fresh
      BY <2>0, <2>1, InboxSent
    <3>2. UNCHANGED <<process, status, mode, rules, chosen, binding, turn, handler, awaited>>
      BY <2>1 DEF Send, store
    <3>3. TypeOK'
      BY <2>0, <3>1, <3>2 DEF TypeOK
    <3>4. Parts'
      BY <2>0, <3>1, <3>2
         DEF FreshUnknown, ConfiguresStored, ClosingAwaits, SettledFirst, BindingsSound,
             ShutdownComplete, Active, Stored, Fresh
    <3>5. QED
      BY <2>0, <3>3, <3>4
  <2>2. ASSUME NEW m \in Requests, Ask(m)
        PROVE  LifeInv'
    BY <2>1, <2>2, RequestsTyped DEF Ask
  <2>3. ASSUME NEW s \in Sessions, NEW choice \in Choices, Reply(s, choice)
        PROVE  LifeInv'
    <3>1. Message("reply", s, choice) \in Messages
      BY DEF Message, Messages, Ops, Withs
    <3>2. s \notin Fresh
      BY <2>0, <2>3 DEF Reply, FreshUnknown, Active
    <3>3. QED
      BY <2>1, <2>3, <3>1, <3>2 DEF Reply, Message
  <2>4. ASSUME NEW s \in Sessions, TurnStep(s)
        PROVE  LifeInv'
    <3>1. /\ process \in {"up", "closing"} /\ Active(s)
          /\ UNCHANGED <<process, status, mode, chosen, binding, inbox, handler, awaited>>
          /\ rules' \in [Sessions -> RuleSet]
          /\ turn' \in [Sessions -> Turns]
          /\ \A r \in Sessions \ {s} : turn'[r] = turn[r]
          /\ turn'[s].at \in Working =>
               \/ turn[s].at \in Working /\ turn'[s].tools = turn[s].tools
               \/ turn'[s].tools = binding[s]
      BY <2>0, <2>4, TurnStepEffect
    <3>2. TypeOK'
      BY <2>0, <3>1 DEF TypeOK
    <3>3. \A r \in Sessions : Active(r)' => Active(r)
      BY <3>1 DEF Active
    <3>4. (FreshUnknown /\ ConfiguresStored /\ ClosingAwaits /\ ShutdownComplete)'
      BY <2>0, <3>1, <3>3
         DEF FreshUnknown, ConfiguresStored, ClosingAwaits, ShutdownComplete, Stored, Fresh
    <3>5. SettledFirst'
      BY <2>0, <3>1, <3>3 DEF SettledFirst, TypeOK, Handlings
    <3>6. BindingsSound'
      BY <2>0, <3>1 DEF BindingsSound, Stored, Working
    <3>7. QED
      BY <2>0, <3>2, <3>4, <3>5, <3>6
  (* A message is delivered and its handler is done, or begins.            *)
  <2>5. ASSUME Deliver, UNCHANGED <<status, binding>>,
               mode' \in [Sessions -> ModeSet],
               rules' \in [Sessions -> RuleSet], chosen' \in [Sessions -> RuleSet],
               turn' \in [Sessions -> Turns],
               \A s \in Sessions : turn'[s].at # "none" => s \notin Fresh,
               \A s \in Sessions : turn'[s].at \in Working =>
                 turn[s].at \in Working /\ turn'[s].tools = turn[s].tools,
               handler' \in Handlings, handler'.at # "configure",
               handler'.at = "settled" => turn'[handler'.session].at = "none"
        PROVE  LifeInv'
    <3>1. /\ inbox' \in Seq(Messages)
          /\ process' = process /\ process = "up" /\ awaited' = awaited
          /\ FreshUnknown'
      BY <2>5, DeliverKeeps
    <3>2. TypeOK'
      BY <2>0, <2>5, <3>1 DEF TypeOK
    <3>3. (ConfiguresStored /\ ClosingAwaits /\ SettledFirst /\ ShutdownComplete)'
      BY <2>0, <2>5, <3>1
         DEF ConfiguresStored, ClosingAwaits, SettledFirst, ShutdownComplete, Active
    <3>4. BindingsSound'
      BY <2>0, <2>5 DEF BindingsSound, Working, Stored
    <3>5. QED
      BY <2>0, <3>1, <3>2, <3>3, <3>4
  <2>6. ASSUME Deliver
        PROVE  /\ Head(inbox) \in Messages
               /\ Head(inbox).op # "new" => Head(inbox).session \in Sessions \ Fresh
               /\ handler = Idle
    BY <2>0, <2>6, InboxDelivered DEF Deliver, FreshUnknown, Messages
  <2>7. /\ \A s \in Sessions : turn[s] \in Turns /\ (turn[s].at # "none" => s \notin Fresh)
        /\ mode \in [Sessions -> ModeSet]
        /\ rules \in [Sessions -> RuleSet] /\ chosen \in [Sessions -> RuleSet]
        /\ turn \in [Sessions -> Turns]
    BY <2>0 DEF TypeOK, FreshUnknown, Active
  <2>8. ASSUME NEW s \in Sessions
        PROVE  /\ Cancelled(turn[s]) \in Turns
               /\ Cancelled(turn[s]).at = turn[s].at
               /\ Cancelled(turn[s]).tools = turn[s].tools
    BY <2>7 DEF Cancelled, Turns
  <2>9. CASE DeliverPrompt
    <3> DEFINE s == Head(inbox).session
               begun == [NoTurn EXCEPT !.at = "begin"]
    <3>1. s \in Sessions \ Fresh /\ handler' = Idle /\ Deliver
      BY <2>6, <2>9 DEF DeliverPrompt
    <3>2. begun \in Turns /\ begun.at \notin Working
      BY DEF NoTurn, Turns, Phases, ModeSet, RuleSet, ToolSets, Working
    <3>3. turn' = IF Active(s) THEN turn ELSE [turn EXCEPT ![s] = begun]
      BY <2>9 DEF DeliverPrompt
    <3> HIDE DEF s, begun
    <3>4. /\ turn' \in [Sessions -> Turns]
          /\ \A r \in Sessions : turn'[r] = turn[r] \/ (r = s /\ turn'[r] = begun)
      <4>1. CASE Active(s)
        BY <2>7, <3>3, <4>1
      <4>2. CASE ~Active(s)
        BY <2>7, <3>1, <3>2, <3>3, <4>2
      <4>3. QED
        BY <4>1, <4>2
    <3>5. UNCHANGED <<status, mode, rules, chosen, binding>>
      BY <2>9 DEF DeliverPrompt, store
    <3>6. QED
      BY <2>5, <2>7, <3>1, <3>2, <3>4, <3>5, IdleTyped
  <2>10. CASE DeliverCancel
    <3> DEFINE s == Head(inbox).session
    <3>1. s \in Sessions \ Fresh /\ handler' = Idle /\ Deliver
      BY <2>6, <2>10 DEF DeliverCancel
    <3>2. turn' = [turn EXCEPT ![s] = Cancelled(turn[s])]
      BY <2>10 DEF DeliverCancel
    <3> HIDE DEF s
    <3>3. /\ turn' \in [Sessions -> Turns]
          /\ \A r \in Sessions : turn'[r].at = turn[r].at /\ turn'[r].tools = turn[r].tools
      BY <2>7, <2>8, <3>1, <3>2
    <3>4. UNCHANGED <<status, mode, rules, chosen, binding>>
      BY <2>10 DEF DeliverCancel, store
    <3>5. QED
      BY <2>5, <2>7, <3>1, <3>3, <3>4, IdleTyped
  <2>11. CASE DeliverMode
    <3>1. handler' = Idle /\ Deliver /\ UNCHANGED <<status, rules, chosen, binding, turn>>
      BY <2>6, <2>11 DEF DeliverMode
    <3>2. Head(inbox).with \in Modes
      BY <2>6, <2>11 DEF DeliverMode, Messages
    <3>3. mode' \in [Sessions -> ModeSet]
      BY <2>7, <2>11, <3>2 DEF DeliverMode, SetMode, ModeSet
    <3>4. QED
      BY <2>5, <2>7, <3>1, <3>3, IdleTyped
  <2>12. ASSUME NEW persisted \in BOOLEAN, DeliverReply(persisted)
         PROVE  LifeInv'
    <3> DEFINE s == Head(inbox).session
               choice == Head(inbox).with
    <3>1. s \in Sessions \ Fresh /\ handler' = Idle /\ Deliver
      BY <2>6, <2>12 DEF DeliverReply
    <3>2. UNCHANGED <<status, mode, binding>>
      BY <2>12 DEF DeliverReply
    <3> DEFINE Replied(t) == /\ t \in Turns
                             /\ t.at # "none"
                             /\ t.at \in Working => t.tools = turn[s].tools
    <3>3. \/ UNCHANGED <<turn, rules, chosen>>
          \/ /\ turn[s].at \in Working
             /\ \E t : Replied(t) /\ turn' = [turn EXCEPT ![s] = t]
             /\ rules' \in [Sessions -> RuleSet] /\ chosen' \in [Sessions -> RuleSet]
      <4>1. ASSUME NEW at \in Working
            PROVE  Replied([turn[s] EXCEPT !.at = at])
        BY <2>7, <3>1 DEF Turns, Working, Phases
      <4>2. Replied(Settling(turn[s]))
        BY <2>7, <3>1 DEF Turns, Working, Phases, Settling, NoTurn, RuleSet, ModeSet, ToolSets
      <4>3. CASE turn[s].at = "question"
        BY <2>7, <2>12, <3>1, <4>1, <4>3 DEF DeliverReply, Working
      <4>4. CASE turn[s].at = "permission" /\ choice = "once"
        BY <2>7, <2>12, <3>1, <4>1, <4>4 DEF DeliverReply, Working
      <4>5. CASE turn[s].at = "permission" /\ choice = "refuse"
        BY <2>7, <2>12, <3>1, <4>1, <4>5 DEF DeliverReply, Working
      <4>6. CASE turn[s].at = "permission" /\ choice = "dismiss"
        BY <2>7, <2>12, <3>1, <4>2, <4>6 DEF DeliverReply, Working
      <4>7. CASE turn[s].at = "permission" /\ choice \in {"always", "refuse_always"}
        <5> DEFINE rule == RuleOf(choice)
                   t == [[turn[s] EXCEPT !.memory = rule]
                           EXCEPT !.at = IF rule = "allow" THEN "executing" ELSE "running"]
        <5>1. rule \in RuleSet
          BY DEF RuleOf, RuleSet
        <5>2. Remembered(s, rule, persisted)
          BY <2>12, <4>7 DEF DeliverReply
        <5>3. Replied(t)
          <6>1. [turn[s] EXCEPT !.memory = rule] \in Turns
            BY <2>7, <3>1, <5>1 DEF Turns
          <6>2. \A at \in Phases : [[turn[s] EXCEPT !.memory = rule] EXCEPT !.at = at] \in Turns
            BY <6>1 DEF Turns
          <6>3. t \in Turns
            BY <6>2 DEF Phases
          <6>4. t.at # "none" /\ t.tools = turn[s].tools
            BY <2>7, <3>1 DEF Turns
          <6>5. QED
            BY <6>3, <6>4
        <5>4. turn' = [turn EXCEPT ![s] = t]
          BY <2>7, <3>1, <5>2 DEF Remembered, Turns
        <5>5. rules' \in [Sessions -> RuleSet] /\ chosen' \in [Sessions -> RuleSet]
          BY <2>7, <3>1, <5>1, <5>2 DEF Remembered
        <5>6. QED
          BY <4>7, <5>3, <5>4, <5>5 DEF Working
      <4>8. CASE /\ turn[s].at # "question"
                 /\ turn[s].at = "permission" =>
                      choice \notin {"once", "refuse", "dismiss", "always", "refuse_always"}
        BY <2>12, <4>8 DEF DeliverReply
      <4>9. QED
        BY <4>3, <4>4, <4>5, <4>6, <4>7, <4>8
    <3> HIDE DEF s, choice
    <3>4. /\ turn' \in [Sessions -> Turns]
          /\ \A r \in Sessions : turn'[r].at # "none" => turn[r].at # "none"
          /\ \A r \in Sessions : turn'[r].at \in Working =>
               turn[r].at \in Working /\ turn'[r].tools = turn[r].tools
      BY <2>7, <3>1, <3>3 DEF Working
    <3>5. rules' \in [Sessions -> RuleSet] /\ chosen' \in [Sessions -> RuleSet]
      BY <2>7, <3>3
    <3>6. QED
      BY <2>5, <2>7, <3>1, <3>2, <3>4, <3>5, IdleTyped
  <2>13. CASE DeliverNew
    <3>1. /\ Deliver /\ UNCHANGED <<status, mode, rules, chosen, binding, turn>>
          /\ handler' = [op |-> "new", session |-> "", at |-> "create",
                         with |-> Head(inbox).with]
      BY <2>13 DEF DeliverNew, Handling, store
    <3>2. Head(inbox).with \in Servers
      BY <2>6, <2>13, <3>1 DEF DeliverNew, Messages
    <3>3. handler' \in Handlings /\ handler'.at = "create"
      BY <3>1, <3>2 DEF Handlings, Withs
    <3>4. QED
      BY <2>5, <2>7, <3>1, <3>3
  <2>14. CASE DeliverWaiting
    <3> DEFINE s == Head(inbox).session
               m == Head(inbox)
    <3>1. s \in Sessions \ Fresh /\ Deliver /\ m \in Messages /\ m.op \in Waiting
      BY <2>6, <2>14 DEF DeliverWaiting, Waiting
    <3>2. /\ turn' = [turn EXCEPT ![s] = Cancelled(turn[s])]
          /\ handler' = [op |-> m.op, session |-> s, with |-> m.with,
                         at |-> IF turn[s].at # "none" THEN "wait" ELSE "settled"]
          /\ UNCHANGED <<status, mode, rules, chosen, binding>>
      BY <2>14 DEF DeliverWaiting, Handling, store, Active
    <3>3. handler' \in Handlings /\ handler'.at \in {"wait", "settled"}
      BY <3>1, <3>2 DEF Handlings, Messages, Waiting
    <3>4. handler'.session = s /\ (handler'.at = "settled" => turn[s].at = "none")
      BY <3>2
    <3> HIDE DEF s, m
    <3>5. /\ turn' \in [Sessions -> Turns]
          /\ \A r \in Sessions : turn'[r].at = turn[r].at /\ turn'[r].tools = turn[r].tools
      BY <2>7, <2>8, <3>1, <3>2
    <3>6. QED
      BY <2>5, <2>7, <3>1, <3>2, <3>3, <3>4, <3>5
  (* A handler goes on or is done, beside the turns.                       *)
  <2>15. ASSUME process = "up", UNCHANGED <<process, turn, inbox, awaited>>,
                status' \in [Sessions -> {"fresh", "stored", "deleted"}],
                mode' \in [Sessions -> ModeSet],
                rules' \in [Sessions -> RuleSet], chosen' \in [Sessions -> RuleSet],
                binding' \in [Sessions -> ToolSets], handler' \in Handlings,
                \A s \in Sessions : status[s] # "fresh" => status'[s] # "fresh",
                \A s \in Sessions : binding'[s] # Fallback => status'[s] = "stored",
                \A s \in Sessions : turn[s].at # "none" => binding'[s] = binding[s],
                handler'.at \in {"settled", "configure"} => turn[handler'.session].at = "none",
                handler'.at = "configure" => status'[handler'.session] = "stored"
         PROVE  LifeInv'
    <3>1. TypeOK'
      BY <2>0, <2>15 DEF TypeOK
    <3>2. FreshUnknown'
      <4>1. \A i \in 1..Len(inbox) : inbox[i] \in Messages
        BY <2>0 DEF TypeOK
      <4>2. \A i \in 1..Len(inbox) : inbox[i].op # "new" => inbox[i].session \in Sessions
        BY <4>1 DEF Messages
      <4>3. QED
        BY <2>0, <2>15, <4>2 DEF FreshUnknown, Active, Fresh
    <3>3. (ConfiguresStored /\ ClosingAwaits /\ SettledFirst /\ ShutdownComplete)'
      BY <2>0, <2>15
         DEF ConfiguresStored, ClosingAwaits, SettledFirst, ShutdownComplete, Active, Stored
    <3>4. BindingsSound'
      BY <2>0, <2>15 DEF BindingsSound, Stored
    <3>5. QED
      BY <2>0, <3>1, <3>2, <3>3, <3>4
  <2>16. /\ status \in [Sessions -> {"fresh", "stored", "deleted"}]
         /\ binding \in [Sessions -> ToolSets] /\ handler \in Handlings
         /\ \A s \in Sessions : binding[s] # Fallback => status[s] = "stored"
         /\ handler.at \in {"wait", "settled", "configure"} => handler.session \in Sessions
         /\ handler.at \in {"settled", "configure"} => turn[handler.session].at = "none"
         /\ handler.at = "configure" => status[handler.session] = "stored"
    BY <2>0
       DEF TypeOK, BindingsSound, SettledFirst, ConfiguresStored, Stored, Active, Handlings
  <2>17. ASSUME NEW at \in {"settled", "configure"}, GoTo(at), handler.session \in Sessions
         PROVE  /\ handler' \in Handlings
                /\ handler'.session = handler.session /\ handler'.at = at
    BY <2>16, <2>17 DEF GoTo, Handlings
  <2>18. CASE TurnGone
    <3>1. /\ process = "up" /\ handler.session \in Sessions
          /\ turn[handler.session].at = "none" /\ GoTo("settled")
          /\ UNCHANGED <<process, status, mode, rules, chosen, binding, turn, inbox, awaited>>
      BY <2>16, <2>18 DEF TurnGone, In, Active, store
    <3>2. QED
      BY <2>7, <2>15, <2>16, <2>17, <3>1
  <2>19. CASE Deadline \/ CreateFails \/ RemoveFails
    <3>1. /\ process = "up" /\ handler' = Idle
          /\ UNCHANGED <<process, status, mode, rules, chosen, binding, turn, inbox, awaited>>
      BY <2>19 DEF Deadline, CreateFails, RemoveFails, In, store
    <3>2. QED
      BY <2>7, <2>15, <2>16, <3>1, IdleTyped
  <2>20. CASE ReadSession
    <3>1. /\ process = "up" /\ handler.at = "settled"
          /\ \/ status[handler.session] = "stored" /\ GoTo("configure")
             \/ handler' = Idle
          /\ UNCHANGED <<process, status, mode, rules, chosen, binding, turn, inbox, awaited>>
      BY <2>20 DEF ReadSession, In, Stored, store
    <3>2. QED
      BY <2>7, <2>15, <2>16, <2>17, <3>1, IdleTyped
  <2>21. ASSUME NEW s \in Sessions, Create(s)
         PROVE  LifeInv'
    <3>1. /\ process = "up" /\ Opened(s, "default")
          /\ handler' = [handler EXCEPT !.session = s, !.at = "configure"]
          /\ UNCHANGED <<process, binding, turn, inbox, awaited>>
      BY <2>21 DEF Create, In
    <3>2. "default" \in ModeSet
      BY DEF ModeSet
    <3>3. s \in Fresh /\ turn[s].at = "none"
      BY <2>7, <3>1 DEF Opened
    <3>4. handler' \in Handlings /\ handler'.session = s /\ handler'.at = "configure"
      BY <2>16, <3>1 DEF Handlings
    <3>5. QED
      BY <2>0, <2>15, <2>16, <3>1, <3>2, <3>3, <3>4, OpenedEffect
  <2>22. CASE Configure
    <3> DEFINE s == handler.session
               tools == IF handler.with = "" THEN Builtin ELSE handler.with
    <3>1. /\ process = "up" /\ s \in Sessions /\ status[s] = "stored"
          /\ turn[s].at = "none" /\ handler.op \in {"new", "load"}
          /\ binding' = [binding EXCEPT ![s] = tools] /\ handler' = Idle
          /\ UNCHANGED <<process, status, mode, rules, chosen, turn, inbox, awaited>>
      BY <2>16, <2>22 DEF Configure, In, Bind, store
    <3>2. tools \in ToolSets
      BY <2>16, <3>1 DEF Handlings, ToolSets
    <3> HIDE DEF s, tools
    <3>3. QED
      BY <2>7, <2>15, <2>16, <3>1, <3>2, IdleTyped
  <2>23. CASE ConfigureFails
    <3> DEFINE s == handler.session
    <3>1. /\ process = "up" /\ s \in Sessions /\ turn[s].at = "none"
          /\ binding' = [binding EXCEPT ![s] = Fallback] /\ handler' = Idle
          /\ \/ status' = [status EXCEPT ![s] = "deleted"]
             \/ status' = status
          /\ UNCHANGED <<process, mode, rules, chosen, turn, inbox, awaited>>
      BY <2>16, <2>23 DEF ConfigureFails, In, Bind
    <3>2. Fallback \in ToolSets
      BY DEF ToolSets
    <3> HIDE DEF s
    <3>3. QED
      BY <2>7, <2>15, <2>16, <3>1, <3>2, IdleTyped
  <2>24. CASE Remove
    <3> DEFINE s == handler.session
    <3>1. /\ process = "up" /\ s \in Sessions /\ turn[s].at = "none" /\ handler' = Idle
          /\ \/ binding' = [binding EXCEPT ![s] = Fallback]
                /\ status' \in {status, [status EXCEPT ![s] = "deleted"]}
             \/ UNCHANGED <<binding, status>>
          /\ UNCHANGED <<process, mode, rules, chosen, turn, inbox, awaited>>
      BY <2>16, <2>24 DEF Remove, Removed, In, Bind
    <3>2. Fallback \in ToolSets
      BY DEF ToolSets
    <3> HIDE DEF s
    <3>3. CASE UNCHANGED <<binding, status>>
      BY <2>7, <2>15, <2>16, <3>1, <3>3, IdleTyped
    <3>4. CASE /\ binding' = [binding EXCEPT ![s] = Fallback]
               /\ status' \in {status, [status EXCEPT ![s] = "deleted"]}
      <4>1. /\ status' \in [Sessions -> {"fresh", "stored", "deleted"}]
            /\ \A r \in Sessions : r # s => status'[r] = status[r]
            /\ status'[s] \in {status[s], "deleted"}
        BY <2>16, <3>1, <3>4
      <4>2. /\ binding' \in [Sessions -> ToolSets] /\ binding'[s] = Fallback
            /\ \A r \in Sessions : r # s => binding'[r] = binding[r]
        BY <2>16, <3>1, <3>2, <3>4
      <4>3. QED
        BY <2>7, <2>15, <2>16, <3>1, <4>1, <4>2, IdleTyped
    <3>5. QED
      BY <3>1, <3>3, <3>4
  <2>25. CASE Fork
    <3>1. /\ process = "up" /\ handler' = Idle /\ handler.session \in Sessions
          /\ UNCHANGED <<process, binding, turn, inbox, awaited>>
          /\ \/ \E s \in Sessions : Opened(s, mode[handler.session])
             \/ UNCHANGED <<status, mode, rules, chosen>>
      BY <2>16, <2>25 DEF Fork, Forked, In, Fresh, store
    <3>2. mode[handler.session] \in ModeSet
      BY <2>7, <3>1
    <3>3. CASE UNCHANGED <<status, mode, rules, chosen>>
      BY <2>7, <2>15, <2>16, <3>1, <3>3, IdleTyped
    <3>4. ASSUME NEW s \in Sessions, Opened(s, mode[handler.session])
          PROVE  LifeInv'
      BY <2>0, <2>15, <2>16, <3>1, <3>2, <3>4, OpenedEffect, IdleTyped
    <3>5. QED
      BY <3>1, <3>3, <3>4
  <2>26. CASE Signal
    <3>1. /\ process' = "closing" /\ handler' = Idle
          /\ awaited' = {s \in Sessions : turn[s].at # "none"}
          /\ turn' = [s \in Sessions |-> Cancelled(turn[s])]
          /\ UNCHANGED <<status, mode, rules, chosen, binding, inbox>>
      BY <2>26 DEF Signal, Active, store
    <3>2. /\ turn' \in [Sessions -> Turns]
          /\ \A s \in Sessions : turn'[s].at = turn[s].at /\ turn'[s].tools = turn[s].tools
      BY <2>8, <3>1
    <3>3. TypeOK'
      BY <2>0, <3>1, <3>2, IdleTyped DEF TypeOK
    <3>4. FreshUnknown'
      BY <2>0, <3>1, <3>2 DEF FreshUnknown, Active, Fresh
    <3>5. (ConfiguresStored /\ ClosingAwaits /\ SettledFirst /\ ShutdownComplete)'
      BY <3>1, <3>2, IdleTyped
         DEF ConfiguresStored, ClosingAwaits, SettledFirst, ShutdownComplete, Active
    <3>6. BindingsSound'
      BY <2>0, <3>1, <3>2 DEF BindingsSound, Stored
    <3>7. QED
      BY <2>0, <3>3, <3>4, <3>5, <3>6
  (* The process is gone: no turn, no handler, no message.                 *)
  <2>27. ASSUME Ended, process' \in {"closed", "killed"},
                turn' \in [Sessions -> Turns], \A s \in Sessions : turn'[s].at = "none"
         PROVE  LifeInv'
    <3>1. /\ inbox' = <<>> /\ handler' = Idle /\ awaited' = {}
          /\ binding' = [s \in Sessions |-> Fallback]
          /\ UNCHANGED <<status, mode, rules, chosen>>
      BY <2>27 DEF Ended, store
    <3>2. inbox' \in Seq(Messages) /\ 1..Len(inbox') = {}
      BY <3>1
    <3>3. binding' \in [Sessions -> ToolSets] /\ \A s \in Sessions : binding'[s] = Fallback
      BY <3>1 DEF ToolSets
    <3>4. TypeOK'
      BY <2>0, <2>27, <3>1, <3>2, <3>3, IdleTyped DEF TypeOK
    <3>5. Parts'
      BY <2>27, <3>1, <3>2, <3>3, IdleTyped
         DEF FreshUnknown, ConfiguresStored, ClosingAwaits, SettledFirst, BindingsSound,
             ShutdownComplete, Active
    <3>6. QED
      BY <2>0, <3>4, <3>5
  <2>28. NoTurns => turn' \in [Sessions -> Turns] /\ \A s \in Sessions : turn'[s].at = "none"
    <3>1. NoTurn \in Turns /\ NoTurn.at = "none"
      BY DEF NoTurn, Turns, Phases, ModeSet, RuleSet, ToolSets
    <3>2. QED
      BY <3>1 DEF NoTurns
  <2>29. CASE AllLeft
    <3>1. \A s \in Sessions : turn'[s].at = "none"
      BY <2>0, <2>29 DEF AllLeft, ClosingAwaits, Active
    <3>2. QED
      BY <2>7, <2>27, <2>29, <3>1 DEF AllLeft
  <2>30. CASE ShutdownTimeout \/ Dies
    BY <2>27, <2>28, <2>30 DEF ShutdownTimeout, Dies
  <2>31. CASE Restart
    <3>1. /\ process' = "up" /\ UNCHANGED <<inbox, handler, awaited, binding>>
          /\ UNCHANGED <<status, mode, rules, chosen>>
      BY <2>31 DEF Restart, store
    <3>2. turn' \in [Sessions -> Turns] /\ \A s \in Sessions : turn'[s].at = "none"
      BY <2>28, <2>31 DEF Restart
    <3>3. TypeOK'
      BY <2>0, <3>1, <3>2 DEF TypeOK
    <3>4. (FreshUnknown /\ ConfiguresStored /\ ClosingAwaits /\ ShutdownComplete)'
      BY <2>0, <3>1, <3>2
         DEF FreshUnknown, ConfiguresStored, ClosingAwaits, ShutdownComplete, Active, Fresh,
             Stored
    <3>5. SettledFirst' /\ BindingsSound'
      BY <2>0, <2>16, <3>1, <3>2 DEF SettledFirst, BindingsSound, Active, Stored
    <3>6. QED
      BY <2>0, <3>3, <3>4, <3>5
  <2>32. CASE UNCHANGED vars
    <3>1. TypeOK'
      BY <2>0, <2>32 DEF TypeOK, vars
    <3>2. Parts'
      BY <2>0, <2>32
         DEF vars, FreshUnknown, ConfiguresStored, ClosingAwaits, SettledFirst, BindingsSound,
             ShutdownComplete, Active, Stored, Fresh
    <3>3. QED
      BY <2>0, <3>1, <3>2
  <2>33. CASE Handler
    BY <2>9, <2>10, <2>11, <2>12, <2>13, <2>14, <2>18, <2>19, <2>20, <2>21, <2>22, <2>23,
       <2>24, <2>25, <2>33 DEF Handler
  <2>34. QED
    BY <2>2, <2>3, <2>4, <2>26, <2>29, <2>30, <2>31, <2>32, <2>33 DEF Next
<1>3. QED
  BY <1>1, <1>2

(* What one turn and the store must agree on: AnswersKnown of one session. *)
Knows(t, inStore, last) ==
  /\ inStore = last
  /\ t.at = "begin" => t.rules = "none" /\ t.memory = "none"
  /\ t.at \in {"begun"} \union Working /\ last # "none" => Rule(t) = last
  /\ t.at = "permission" => Rule(t) = "none"

LEMMA AnswersKnownOfEach ==
  /\ AnswersKnown <=> \A s \in Sessions : Knows(turn[s], rules[s], chosen[s])
  /\ AnswersKnown' <=> \A s \in Sessions : Knows(turn'[s], rules'[s], chosen'[s])
BY DEF AnswersKnown, Knows, Rule

(* The steps of a turn: it learns the answers as it begins.                *)
LEMMA TurnStepKnows ==
  ASSUME RuleInv, NEW s \in Sessions, TurnStep(s)
  PROVE  AnswersKnown'
<1>1. /\ turn \in [Sessions -> Turns] /\ rules \in [Sessions -> RuleSet]
      /\ \A r \in Sessions : Knows(turn[r], rules[r], chosen[r])
  BY AnswersKnownOfEach DEF RuleInv, LifeInv, TypeOK
<1>2. turn[s] \in Turns
  BY <1>1
<1>3. /\ turn' \in [Sessions -> Turns] /\ chosen' = chosen
      /\ \A r \in Sessions \ {s} : turn'[r] = turn[r]
  BY TurnStepEffect DEF RuleInv, LifeInv
<1>4. rules' = rules
  <2>1. CASE Commit(s)
    BY <1>1, <2>1 DEF Commit, CommittedRules
  <2>2. CASE ~Commit(s)
    BY <2>2 DEF TurnStep, BeginTurn, TakeTools, CallTool, ToolReturns, AskUser, SeesCancel,
                RequestFails, EndLoop, Leave, store
  <2>3. QED
    BY <2>1, <2>2
<1>5. SUFFICES Knows(turn'[s], rules[s], chosen[s])
  BY <1>1, <1>3, <1>4, AnswersKnownOfEach
<1>6. ASSUME NEW from, NEW to, Turn(s, from, to)
      PROVE  turn[s].at = from /\ turn'[s] = to
  BY <1>1, <1>6 DEF Turn
<1>7. Knows(turn[s], rules[s], chosen[s])
  BY <1>1
<1>8. ASSUME NEW t, t.at \notin {"begin", "begun"} \union Working
      PROVE  Knows(t, rules[s], chosen[s])
  BY <1>7, <1>8 DEF Knows, Working
<1>9. Settling(turn[s]).at = "settling" /\ Moved(s, "answered").at = "answered" /\ NoTurn.at = "none"
  BY <1>2 DEF Settling, Moved, NoTurn, Turns
<1>10. ASSUME NEW at \in {"running", "executing", "question"},
              turn[s].at \in Working
       PROVE  Knows(Moved(s, at), rules[s], chosen[s])
  BY <1>2, <1>7, <1>10 DEF Knows, Moved, Rule, Turns, Working
<1>11. CASE BeginTurn(s)
  <2>1. turn[s].at = "begin"
    BY <1>6, <1>11 DEF BeginTurn
  <2>2. CASE Stored(s)
    <3>1. turn'[s] = [Moved(s, "begun") EXCEPT !.mode = mode[s], !.rules = rules[s]]
      BY <1>6, <1>11, <2>2 DEF BeginTurn
    <3>2. /\ turn'[s].at = "begun" /\ turn'[s].rules = rules[s]
          /\ turn'[s].memory = turn[s].memory
      BY <1>2, <3>1 DEF Moved, Turns
    <3>3. QED
      BY <1>7, <2>1, <3>2 DEF Knows, Rule, Working
  <2>3. CASE ~Stored(s)
    BY <1>6, <1>8, <1>9, <1>11, <2>3 DEF BeginTurn, Working
  <2>4. QED
    BY <2>2, <2>3
<1>12. CASE TakeTools(s)
  <2>1. turn[s].at = "begun"
    BY <1>6, <1>12 DEF TakeTools
  <2>2. CASE turn[s].cancelled
    BY <1>6, <1>8, <1>9, <1>12, <2>2 DEF TakeTools, Working
  <2>3. CASE ~turn[s].cancelled
    <3>1. turn'[s] = [Moved(s, "running") EXCEPT !.tools = binding[s]]
      BY <1>6, <1>12, <2>3 DEF TakeTools
    <3>2. /\ turn'[s].at = "running" /\ turn'[s].rules = turn[s].rules
          /\ turn'[s].memory = turn[s].memory
      BY <1>2, <3>1 DEF Moved, Turns
    <3>3. QED
      BY <1>7, <2>1, <3>2 DEF Knows, Rule, Working
  <2>4. QED
    BY <2>2, <2>3
<1>13. ASSUME NEW risk \in Risks, CallTool(s, risk)
       PROVE  Knows(turn'[s], rules[s], chosen[s])
  <2> DEFINE t == turn[s]
  <2>1. /\ t.at = "running"
        /\ turn'[s] = IF ~NeedsPermission(t, risk) THEN Moved(s, "executing")
                      ELSE IF Rule(t) = "reject" THEN t
                      ELSE Asking(t)
    BY <1>6, <1>13 DEF CallTool
  <2>2. Knows(Moved(s, "executing"), rules[s], chosen[s])
    BY <1>10, <2>1 DEF Working
  <2>3. NeedsPermission(t, risk) /\ Rule(t) # "reject" => Rule(t) = "none"
    BY <1>2 DEF NeedsPermission, Rule, Turns, RuleSet
  <2>4. Rule(t) = "none" => Knows(Asking(t), rules[s], chosen[s])
    BY <1>2, <1>7, <2>1 DEF Knows, Asking, Rule, Turns, Working
  <2>5. QED
    BY <1>7, <2>1, <2>2, <2>3, <2>4
<1>14. CASE ToolReturns(s)
  BY <1>6, <1>10, <1>14 DEF ToolReturns, Working
<1>15. CASE AskUser(s)
  BY <1>6, <1>10, <1>15 DEF AskUser, Working
<1>16. CASE SeesCancel(s)
  BY <1>6, <1>8, <1>9, <1>16 DEF SeesCancel, Working
<1>17. CASE RequestFails(s)
  BY <1>6, <1>10, <1>17 DEF RequestFails, Working
<1>18. CASE EndLoop(s)
  BY <1>6, <1>8, <1>9, <1>18 DEF EndLoop, Working
<1>19. CASE Commit(s)
  BY <1>6, <1>8, <1>9, <1>19 DEF Commit, Working
<1>20. CASE Leave(s)
  BY <1>6, <1>8, <1>9, <1>20 DEF Leave, Working
<1>21. QED
  BY <1>11, <1>12, <1>13, <1>14, <1>15, <1>16, <1>17, <1>18, <1>19, <1>20 DEF TurnStep

(* A reply is remembered for the turn that asked, and for the store.       *)
LEMMA ReplyKnows ==
  ASSUME RuleInv, NEW persisted \in BOOLEAN, DeliverReply(persisted)
  PROVE  AnswersKnown'
<1> DEFINE s == Head(inbox).session
           choice == Head(inbox).with
<1>1. /\ turn \in [Sessions -> Turns]
      /\ rules \in [Sessions -> RuleSet] /\ chosen \in [Sessions -> RuleSet]
      /\ \A r \in Sessions : Knows(turn[r], rules[r], chosen[r])
  BY AnswersKnownOfEach DEF RuleInv, LifeInv, TypeOK
<1>2. s \in Sessions
  <2>1. inbox # <<>> /\ Head(inbox).op = "reply" /\ TypeOK
    BY DEF DeliverReply, Deliver, RuleInv, LifeInv
  <2>2. QED
    BY <2>1, InboxDelivered DEF Messages
<1>3. turn[s] \in Turns /\ Knows(turn[s], rules[s], chosen[s])
  BY <1>1, <1>2
<1>4. ASSUME NEW t, turn' = [turn EXCEPT ![s] = t], UNCHANGED <<rules, chosen>>,
             Knows(t, rules[s], chosen[s])
      PROVE  AnswersKnown'
  <2> HIDE DEF s
  <2>1. QED
    BY <1>1, <1>2, <1>4, AnswersKnownOfEach
<1>5. ASSUME NEW at \in {"running", "executing"}, turn[s].at \in Working
      PROVE  Knows([turn[s] EXCEPT !.at = at], rules[s], chosen[s])
  BY <1>3, <1>5 DEF Knows, Rule, Turns, Working
<1>6. CASE turn[s].at = "question"
  BY <1>4, <1>5, <1>6, <1>1, <1>2 DEF DeliverReply, Working
<1>7. CASE turn[s].at = "permission" /\ choice = "once"
  BY <1>4, <1>5, <1>7, <1>1, <1>2 DEF DeliverReply, Working
<1>8. CASE turn[s].at = "permission" /\ choice = "refuse"
  BY <1>4, <1>5, <1>8, <1>1, <1>2 DEF DeliverReply, Working
<1>9. CASE turn[s].at = "permission" /\ choice = "dismiss"
  <2>1. Knows(Settling(turn[s]), rules[s], chosen[s])
    BY <1>3 DEF Knows, Settling, Working, NoTurn
  <2>2. QED
    BY <1>1, <1>2, <1>4, <1>9, <2>1 DEF DeliverReply
<1>10. CASE turn[s].at = "permission" /\ choice \in {"always", "refuse_always"}
  <2> DEFINE rule == RuleOf(choice)
  <2>1. Remembered(s, rule, persisted)
    BY <1>10 DEF DeliverReply
  <2>2. rule \in {"allow", "reject"}
    BY DEF RuleOf
  <2>3. turn[s].rules = "none"
    BY <1>3, <1>10 DEF Knows, Rule
  <2>4. chosen[s] = "none" /\ rules[s] = "none"
    BY <1>1, <1>2, <1>3, <1>10 DEF Knows, Working
  <2> HIDE DEF s, rule
  <2>5. /\ turn'[s].at \in {"executing", "running"}
        /\ turn'[s].rules = "none" /\ turn'[s].memory = rule
        /\ \A r \in Sessions \ {s} : turn'[r] = turn[r]
    BY <1>1, <1>2, <1>3, <2>1, <2>3 DEF Remembered, Turns
  <2>6. /\ rules'[s] = chosen'[s] /\ chosen'[s] \in {"none", rule}
        /\ \A r \in Sessions \ {s} : rules'[r] = rules[r] /\ chosen'[r] = chosen[r]
    BY <1>1, <1>2, <2>1, <2>4 DEF Remembered
  <2>7. Knows(turn'[s], rules'[s], chosen'[s])
    BY <2>2, <2>5, <2>6 DEF Knows, Rule
  <2>8. QED
    BY <1>1, <2>5, <2>6, <2>7, AnswersKnownOfEach
<1>11. CASE /\ turn[s].at # "question"
            /\ turn[s].at = "permission" =>
                 choice \notin {"once", "refuse", "dismiss", "always", "refuse_always"}
  <2>1. UNCHANGED <<turn, rules, chosen>>
    BY <1>11 DEF DeliverReply
  <2>2. QED
    BY <1>1, <2>1, AnswersKnownOfEach
<1>12. QED
  BY <1>6, <1>7, <1>8, <1>9, <1>10, <1>11

LEMMA RuleInvInductive ==
  /\ Init => RuleInv
  /\ RuleInv /\ [Next]_vars => RuleInv'
<1>1. ASSUME Init
      PROVE  RuleInv
  <2>1. \A s \in Sessions : Knows(turn[s], rules[s], chosen[s])
    BY <1>1 DEF Init, Knows, NoTurn, Working
  <2>2. QED
    BY <1>1, <2>1, LifeInvInductive, AnswersKnownOfEach DEF RuleInv
<1>2. ASSUME RuleInv, [Next]_vars
      PROVE  RuleInv'
  <2> USE <1>2
  <2>1. LifeInv /\ LifeInv' /\ TypeOK
    BY LifeInvInductive DEF RuleInv, LifeInv
  <2>2. /\ turn \in [Sessions -> Turns]
        /\ rules \in [Sessions -> RuleSet] /\ chosen \in [Sessions -> RuleSet]
        /\ \A s \in Sessions : Knows(turn[s], rules[s], chosen[s])
    BY <2>1, AnswersKnownOfEach DEF RuleInv, TypeOK
  (* Neither the turns' answers nor those of the store change.             *)
  <2>3. ASSUME UNCHANGED <<rules, chosen>>,
               \A s \in Sessions :
                 \/ turn'[s].at = "none"
                 \/ turn'[s].at = "begin" /\ turn'[s].rules = "none" /\ turn'[s].memory = "none"
                 \/ /\ turn'[s].at = turn[s].at
                    /\ turn'[s].rules = turn[s].rules /\ turn'[s].memory = turn[s].memory
        PROVE  RuleInv'
    <3>1. ASSUME NEW s \in Sessions
          PROVE  Knows(turn'[s], rules'[s], chosen'[s])
      BY <2>2, <2>3, <3>1 DEF Knows, Rule, Working
    <3>2. QED
      BY <2>1, <3>1, AnswersKnownOfEach DEF RuleInv
  <2>4. ASSUME NEW s \in Sessions
        PROVE  /\ Cancelled(turn[s]).at = turn[s].at
               /\ Cancelled(turn[s]).rules = turn[s].rules
               /\ Cancelled(turn[s]).memory = turn[s].memory
    BY <2>2 DEF Cancelled, Turns
  <2>5. ASSUME NEW s, turn' = [turn EXCEPT ![s] = Cancelled(turn[s])], UNCHANGED <<rules, chosen>>
        PROVE  RuleInv'
    BY <2>2, <2>3, <2>4, <2>5
  <2>6. ASSUME NEW s \in Sessions, NEW itsMode, Opened(s, itsMode), turn' = turn
        PROVE  RuleInv'
    <3>1. /\ turn[s].at = "none"
          /\ rules' = [rules EXCEPT ![s] = "none"] /\ chosen' = [chosen EXCEPT ![s] = "none"]
      BY <2>1, <2>6 DEF Opened, LifeInv, FreshUnknown, Active
    <3>2. \A r \in Sessions : Knows(turn'[r], rules'[r], chosen'[r])
      BY <2>2, <2>6, <3>1 DEF Knows, Working
    <3>3. QED
      BY <2>1, <3>2, AnswersKnownOfEach DEF RuleInv
  <2>7. CASE (\E m \in Requests : Ask(m)) \/ (\E s \in Sessions, choice \in Choices : Reply(s, choice))
    <3>1. UNCHANGED <<rules, chosen, turn>>
      BY <2>7 DEF Ask, Reply, Send, store
    <3>2. QED
      BY <2>3, <3>1
  <2>8. CASE \E s \in Sessions : TurnStep(s)
    BY <2>1, <2>8, TurnStepKnows DEF RuleInv
  <2>9. CASE DeliverPrompt
    <3> DEFINE s == Head(inbox).session
               begun == [NoTurn EXCEPT !.at = "begin"]
    <3>1. UNCHANGED <<rules, chosen>>
      BY <2>9 DEF DeliverPrompt, store
    <3>2. turn' = turn \/ turn' = [turn EXCEPT ![s] = begun]
      BY <2>9 DEF DeliverPrompt
    <3>3. begun.at = "begin" /\ begun.rules = "none" /\ begun.memory = "none"
      BY DEF NoTurn
    <3> HIDE DEF s, begun
    <3>4. QED
      BY <2>2, <2>3, <3>1, <3>2, <3>3
  <2>10. CASE DeliverCancel \/ DeliverWaiting
    BY <2>5, <2>10 DEF DeliverCancel, DeliverWaiting, store
  <2>11. CASE \E persisted \in BOOLEAN : DeliverReply(persisted)
    BY <2>1, <2>11, ReplyKnows DEF RuleInv
  <2>12. CASE \/ DeliverMode \/ DeliverNew \/ TurnGone \/ Deadline \/ ReadSession \/ CreateFails
              \/ Configure \/ ConfigureFails \/ Remove \/ RemoveFails
    <3>1. UNCHANGED <<rules, chosen, turn>>
      BY <2>12 DEF DeliverMode, DeliverNew, TurnGone, Deadline, ReadSession, CreateFails,
                   Configure, ConfigureFails, Remove, RemoveFails, store
    <3>2. QED
      BY <2>3, <3>1
  <2>13. CASE \E s \in Sessions : Create(s)
    BY <2>6, <2>13 DEF Create
  <2>14. CASE Fork
    <3>1. CASE UNCHANGED store
      BY <2>3, <2>14, <3>1 DEF Fork, store
    <3>2. CASE ~UNCHANGED store
      BY <2>6, <2>14, <3>2 DEF Fork, Forked, Fresh
    <3>3. QED
      BY <3>1, <3>2
  <2>15. CASE Signal
    <3>1. UNCHANGED <<rules, chosen>> /\ turn' = [s \in Sessions |-> Cancelled(turn[s])]
      BY <2>15 DEF Signal, store
    <3>2. QED
      BY <2>3, <2>4, <3>1
  <2>16. CASE AllLeft
    <3>1. UNCHANGED <<rules, chosen, turn>>
      BY <2>16 DEF AllLeft, Ended, store
    <3>2. QED
      BY <2>3, <3>1
  <2>17. CASE ShutdownTimeout \/ Dies \/ Restart
    <3>1. UNCHANGED <<rules, chosen>> /\ NoTurns
      BY <2>17 DEF ShutdownTimeout, Dies, Restart, Ended, store
    <3>2. \A s \in Sessions : turn'[s].at = "none"
      BY <3>1 DEF NoTurns, NoTurn
    <3>3. QED
      BY <2>3, <3>1, <3>2
  <2>18. CASE UNCHANGED vars
    BY <2>3, <2>18 DEF vars
  <2>19. CASE Handler
    BY <2>9, <2>10, <2>11, <2>12, <2>13, <2>14, <2>19 DEF Handler
  <2>20. QED
    BY <2>7, <2>8, <2>15, <2>16, <2>17, <2>18, <2>19 DEF Next
<1>3. QED
  BY <1>1, <1>2
-----------------------------------------------------------------------------
(* In every reachable state RuleInv holds, for any sessions and any        *)
(* requests of the client: the basis of the theorems below.                *)
THEOREM Invariance == Spec => []RuleInv
<1>1. QED
  BY RuleInvInductive, PTL DEF Spec

(* The handlers of load, resume, fork, close and delete (session.rs) look  *)
(* at a session, bind its tools or remove it while no turn of it is in     *)
(* flight: cancel_and_wait is over, and nothing but the dispatch loop that *)
(* waits for the handler could start another.                              *)
THEOREM SettledBeforeWork == Spec => []SettledFirst
<1>1. RuleInv => SettledFirst
  BY DEF RuleInv, LifeInv
<1>2. QED
  BY <1>1, Invariance, PTL

(* configure_session and the handlers that unbind leave no tools to a      *)
(* session that is gone, and a turn works with the tools bound to its      *)
(* session all the time it runs, although it looks them up only once.      *)
THEOREM BindingsAreSound == Spec => []BindingsSound
<1>1. RuleInv => BindingsSound
  BY DEF RuleInv, LifeInv
<1>2. QED
  BY <1>1, Invariance, PTL

(* A graceful exit leaves no turn behind: the active turns the signal took *)
(* are all there will be.                                                  *)
THEOREM ShutdownIsComplete == Spec => []ShutdownComplete
<1>1. RuleInv => ShutdownComplete
  BY DEF RuleInv, LifeInv
<1>2. QED
  BY <1>1, Invariance, PTL

(* An "always" answer (remember() in permission.rs) is honoured from the   *)
(* moment it is recorded, through later turns and restarts.                *)
THEOREM AnswersAreHonoured == Spec => RulesHonoured
<1> DEFINE Honoured(s, risk) ==
      CallTool(s, risk) =>
       /\ turn'[s].at = "permission" => chosen[s] = "none" /\ turn[s].memory = "none"
       /\ \/ turn[s].mode = "default"
          \/ turn[s].mode = "accept" /\ risk = "high"
          => (chosen[s] = "reject" => turn'[s].at = "running")
<1>1. ASSUME RuleInv, NEW s \in Sessions, NEW risk \in Risks, CallTool(s, risk)
      PROVE  Honoured(s, risk)
  <2> DEFINE t == turn[s]
  <2>1. turn \in [Sessions -> Turns] /\ t \in Turns
    BY <1>1 DEF RuleInv, LifeInv, TypeOK
  <2>2. Knows(t, rules[s], chosen[s])
    BY <1>1, AnswersKnownOfEach DEF RuleInv
  <2>3. /\ t.at = "running"
        /\ turn'[s] = IF ~NeedsPermission(t, risk) THEN Moved(s, "executing")
                      ELSE IF Rule(t) = "reject" THEN t
                      ELSE Asking(t)
    BY <1>1, <2>1 DEF CallTool, Turn
  <2>4. Moved(s, "executing").at = "executing" /\ Asking(t).at = "permission"
    BY <2>1 DEF Moved, Asking, Turns
  <2>5. chosen[s] # "none" => Rule(t) = chosen[s]
    BY <2>2, <2>3 DEF Knows, Working
  <2>6. turn'[s].at = "permission" => Rule(t) = "none"
    BY <2>1, <2>3, <2>4 DEF NeedsPermission, Rule, Turns, RuleSet
  <2>7. turn'[s].at = "permission" => chosen[s] = "none" /\ t.memory = "none"
    BY <2>5, <2>6 DEF Rule
  <2>8. ASSUME chosen[s] = "reject",
               t.mode = "default" \/ (t.mode = "accept" /\ risk = "high")
        PROVE  turn'[s].at = "running"
    BY <2>3, <2>5, <2>8 DEF NeedsPermission
  <2>9. QED
    BY <2>7, <2>8
<1>2. RuleInv => [\A s \in Sessions, risk \in Risks : Honoured(s, risk)]_vars
  BY <1>1
<1>3. QED
  BY <1>2, Invariance, PTL DEF RulesHonoured
=============================================================================
