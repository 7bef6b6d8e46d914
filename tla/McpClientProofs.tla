--------------------------- MODULE McpClientProofs ---------------------------
(***************************************************************************)
(* Proofs about McpClient for any set of calls and any amount of noise.    *)
(*                                                                         *)
(* The argument goes in layers: the mutex has one holder (QueueInv), so    *)
(* an id belongs to one call for good and what bears it in the pipes is    *)
(* that call's (IdInv); a cut has a call that made it, which has ended     *)
(* (CutInv), so that the holder fails over its own lines, unusable ones    *)
(* and cut ones only (GarbledExplained); and then what the                 *)
(* holder waits for is still on its way (AwaitedAnswerKept).               *)
(***************************************************************************)
EXTENDS McpClient, TLAPS

(* A call in flight is at the head of the queue, a waiting one in it.      *)
QueueServes ==
  \A c \in Calls :
    /\ pc[c] = "queued" => \E i \in 1..Len(queue) : queue[i] = c
    /\ pc[c] \in InFlight => queue # <<>> /\ queue[1] = c

QueueInv == TypeOK /\ QueueServes

Numbered == {"write", "read"}

(* Ids are positive, below next_id, and no two calls have the same one.    *)
IdsDiffer ==
  /\ \A c \in Calls : id[c] < next_id
  /\ \A c, d \in Calls : id[c] # 0 /\ id[c] = id[d] => c = d
  /\ \A c \in Calls : pc[c] \in Numbered => id[c] # 0
  /\ \A c \in Calls : pc[c] \in {"idle", "queued", "request"} => id[c] = 0

Answers(line) == line.kind \notin {"notice", "ask"}

(* What is in the pipes bears the id of its call, or none if the request   *)
(* was spoilt.                                                             *)
PipesBearIds ==
  /\ \A r \in stdin :
       /\ r.id # 0 => r.id = id[r.call]
       /\ r.id = 0 => r.call \in spoilt
  /\ \A i \in 1..Len(stdout) : Answers(stdout[i]) =>
       /\ stdout[i].id # 0 => stdout[i].id = id[stdout[i].call]
       /\ stdout[i].id = 0 => stdout[i].call \in spoilt

IdInv == QueueInv /\ IdsDiffer /\ PipesBearIds /\ OwnAnswer

(* A cut was made by a call that has ended, and there is a line to it.     *)
CutInv ==
  /\ cutOut => stdout # <<>> /\ cutters # {}
  /\ \A c \in cutters : pc[c] \in Ended

LineInv == IdInv /\ CutInv /\ GarbledExplained

IInv == LineInv /\ AwaitedAnswerKept

(* Where the answer that a call waits for may be.                          *)
OnItsWay(c) ==
  \/ \E r \in stdin : r.call = c
  \/ \E i \in DOMAIN stdout :
       Answers(stdout[i]) /\ stdout[i].call = c /\ (cutOut => i > 1)
-----------------------------------------------------------------------------
LEMMA TailElements ==
  ASSUME NEW S, NEW s \in Seq(S), s # <<>>
  PROVE  \A i \in 1..Len(Tail(s)) : i + 1 \in 1..Len(s) /\ Tail(s)[i] = s[i + 1]
OBVIOUS

LEMMA AppendElements ==
  ASSUME NEW S, NEW s \in Seq(S), NEW e \in S
  PROVE  /\ Len(Append(s, e)) = Len(s) + 1
         /\ Append(s, e)[Len(s) + 1] = e
         /\ \A i \in 1..Len(s) : Append(s, e)[i] = s[i]
OBVIOUS

(* The four ends of a read.                                                *)
LEMMA ReadCases ==
  ASSUME NEW c \in Calls, TypeOK, Read(c)
  PROVE  /\ Takes(c)
         /\ Head(stdout) \in Lines /\ Head(stdout) = stdout[1]
         /\ Len(stdout) > 0
         /\ \/ /\ Continue
               /\ cutOut \/ ~Answers(Head(stdout)) \/ Head(stdout).id # id[c]
            \/ /\ Finish(c, "ok")
               /\ Head(stdout).kind = "result" /\ Head(stdout).id = id[c]
            \/ Finish(c, "remote")
            \/ /\ Finish(c, "garbled")
               /\ \/ cutOut \/ Head(stdout).kind \in {"broken", "notice"}
                  \/ Head(stdout).kind \in {"malformed", "ask"} /\ Head(stdout).id = id[c]
<1>1. Takes(c)
  BY DEF Read
<1>2. stdout # <<>> /\ stdout \in Seq(Lines)
  BY <1>1 DEF Takes, TypeOK
<1>3. Head(stdout) \in Lines /\ Head(stdout) = stdout[1] /\ Len(stdout) > 0
  BY <1>2
<1>4. Head(stdout).kind \in {"result", "error", "malformed", "broken", "notice", "ask"}
  BY <1>3 DEF Lines
<1>5. QED
  BY <1>1, <1>3, <1>4 DEF Read, Answers

(* What every ending call does to the queue.                               *)
LEMMA EndServes ==
  ASSUME QueueInv, NEW c \in Calls, pc[c] \in InFlight, NEW o \in Ended, End(c, o)
  PROVE  /\ pc' = [pc EXCEPT ![c] = o]
         /\ pc' \in [Calls -> {"idle", "queued"} \union InFlight \union Ended]
         /\ queue' \in Seq(Calls)
         /\ ear' \in [Calls -> {"none", "checked", "listening", "heard", "deaf"}]
         /\ \A d \in Calls : pc[d] \in InFlight => d = c
         /\ QueueServes'
<1> USE DEF QueueInv, TypeOK
<1>1. queue # <<>> /\ queue[1] = c /\ queue \in Seq(Calls)
  BY DEF QueueServes
<1>2. /\ pc' = [pc EXCEPT ![c] = o]
      /\ queue' = Tail(queue)
      /\ ear' = [ear EXCEPT ![c] = "none"]
  BY DEF End, Goto
<1>3. \A d \in Calls : pc[d] \in InFlight => d = c
  BY <1>1 DEF QueueServes
<1>4. \A d \in Calls : pc'[d] \notin InFlight
  BY <1>2, <1>3 DEF InFlight, Ended
<1>5. ASSUME NEW d \in Calls, pc'[d] = "queued"
      PROVE  \E i \in 1..Len(queue') : queue'[i] = d
  <2>1. d # c /\ pc[d] = "queued"
    BY <1>2, <1>5 DEF Ended
  <2>2. PICK i \in 1..Len(queue) : queue[i] = d
    BY <2>1 DEF QueueServes
  <2>3. i # 1
    BY <1>1, <2>1, <2>2
  <2>4. i - 1 \in 1..Len(Tail(queue)) /\ Tail(queue)[i - 1] = d
    BY <1>1, <2>2, <2>3
  <2>5. QED
    BY <1>2, <2>4
<1>6. QueueServes'
  BY <1>4, <1>5 DEF QueueServes
<1>7. queue' \in Seq(Calls)
  BY <1>1, <1>2
<1>8. QED
  BY <1>2, <1>3, <1>6, <1>7

LEMMA QueueInvInductive ==
  /\ Init => QueueInv
  /\ QueueInv /\ [Next]_vars => QueueInv'
<1> USE ClientAssumption
<1>1. ASSUME Init
      PROVE  QueueInv
  <2>1. <<>> \in Seq(Calls) /\ <<>> \in Seq(Lines)
    OBVIOUS
  <2>2. TypeOK
    <3>1. /\ pc \in [Calls -> {"idle", "queued"} \union InFlight \union Ended]
          /\ id \in [Calls -> Nat]
          /\ last \in [Calls -> Lines \union {NoLine}]
          /\ signal \in [Calls -> BOOLEAN]
          /\ watcher \in [Calls -> {"watching", "gone"}]
          /\ ear \in [Calls -> {"none", "checked", "listening", "heard", "deaf"}]
      BY <1>1 DEF Init
    <3>2. queue \in Seq(Calls) /\ stdout \in Seq(Lines)
      BY <1>1, <2>1 DEF Init
    <3>3. next_id \in Nat \ {0} /\ noise \in 0..MaxNoise
      BY <1>1 DEF Init
    <3>4. cutIn \in BOOLEAN /\ cutOut \in BOOLEAN /\ alive \in BOOLEAN
      BY <1>1 DEF Init
    <3>5. stdin \subseteq Requests /\ spoilt \subseteq Calls /\ cutters \subseteq Calls
      BY <1>1 DEF Init
    <3>6. QED
      BY <3>1, <3>2, <3>3, <3>4, <3>5 DEF TypeOK
  <2>3. QueueServes
    BY <1>1 DEF Init, QueueServes, InFlight
  <2>4. QED
    BY <2>2, <2>3 DEF QueueInv
<1>2. ASSUME QueueInv, [Next]_vars
      PROVE  QueueInv'
  <2> USE <1>2 DEF QueueInv
  <2>1. ASSUME NEW c \in Calls, Call(c)
        PROVE  QueueInv'
    <3>1. pc[c] = "idle" /\ queue \in Seq(Calls)
      BY <2>1 DEF Call, TypeOK
    <3>2. CASE Goto(c, "aborted") /\ UNCHANGED queue
      BY <2>1, <3>1, <3>2 DEF Call, Goto, TypeOK, QueueServes, InFlight, Ended,
                              cancelVars, pipes, history
    <3>3. CASE Goto(c, "queued") /\ queue' = Append(queue, c)
      <4>1. TypeOK'
        BY <2>1, <3>3 DEF Call, Goto, TypeOK, cancelVars, pipes, history
      <4>2. /\ Len(queue') = Len(queue) + 1
            /\ queue'[Len(queue) + 1] = c
            /\ \A i \in 1..Len(queue) : queue'[i] = queue[i]
        BY <3>1, <3>3
      <4>3. pc' = [pc EXCEPT ![c] = "queued"]
        BY <3>3 DEF Goto
      <4>4. ASSUME NEW d \in Calls, pc'[d] = "queued"
            PROVE  \E i \in 1..Len(queue') : queue'[i] = d
        <5>1. CASE d = c
          BY <3>1, <4>2, <5>1
        <5>2. CASE d # c
          <6>1. pc[d] = "queued"
            BY <4>3, <4>4, <5>2 DEF TypeOK
          <6>2. PICK i \in 1..Len(queue) : queue[i] = d
            BY <6>1 DEF QueueServes
          <6>3. i \in 1..Len(queue') /\ queue'[i] = d
            BY <3>1, <4>2, <6>2
          <6>4. QED
            BY <6>3
        <5>3. QED
          BY <5>1, <5>2
      <4>5. ASSUME NEW d \in Calls, pc'[d] \in InFlight
            PROVE  queue' # <<>> /\ queue'[1] = d
        <5>1. d # c /\ pc[d] \in InFlight
          BY <4>3, <4>5 DEF TypeOK, InFlight
        <5>2. queue # <<>> /\ queue[1] = d
          BY <5>1 DEF QueueServes
        <5>3. QED
          BY <3>1, <3>3, <4>2, <5>2
      <4>6. QED
        BY <4>1, <4>4, <4>5 DEF QueueServes
    <3>4. QED
      BY <2>1, <3>2, <3>3 DEF Call
  <2>2. ASSUME NEW c \in Calls, Lock(c)
        PROVE  QueueInv'
    <3>1. queue # <<>> /\ queue[1] = c
      BY <2>2 DEF Lock, TypeOK, QueueServes
    <3>2. QED
      BY <2>2, <3>1 DEF Lock, Goto, TypeOK, QueueServes, InFlight, cancelVars,
                        pipes, history
  <2>3. ASSUME NEW c \in Calls, Request(c)
        PROVE  QueueInv'
    <3>1. CASE Goto(c, "write") /\ UNCHANGED <<queue, ear>>
      <4>1. /\ id' \in [Calls -> Nat] /\ next_id' \in Nat \ {0}
            /\ pc[c] = "request" /\ pc' = [pc EXCEPT ![c] = "write"]
        <5>1. id' = [id EXCEPT ![c] = next_id] /\ next_id' = next_id + 1
          <6>1. pc' # [pc EXCEPT ![c] = "invalid"]
            BY <3>1 DEF Goto, TypeOK
          <6>2. QED
            BY <2>3, <6>1 DEF Request, End, Goto
        <5>2. QED
          BY <2>3, <3>1, <5>1 DEF Request, Moves, Goto, TypeOK
      <4>2. TypeOK'
        BY <2>3, <3>1, <4>1 DEF Request, TypeOK, InFlight, pipes, history
      <4>3. QueueServes'
        BY <3>1, <4>1 DEF TypeOK, QueueServes, InFlight
      <4>4. QED
        BY <4>2, <4>3
    <3>2. CASE End(c, "invalid")
      <4>1. pc[c] \in InFlight /\ "invalid" \in Ended
        BY <2>3 DEF Request, Moves, InFlight, Ended
      <4>2. QED
        <5>1. /\ QueueServes'
              /\ pc' \in [Calls -> {"idle", "queued"} \union InFlight \union Ended]
              /\ queue' \in Seq(Calls)
              /\ ear' \in [Calls -> {"none", "checked", "listening", "heard", "deaf"}]
          BY <3>2, <4>1, EndServes
        <5>2. id' \in [Calls -> Nat] /\ next_id' \in Nat \ {0}
          <6>1. id \in [Calls -> Nat] /\ next_id \in Nat \ {0}
            BY DEF TypeOK
          <6>2. [id EXCEPT ![c] = next_id] \in [Calls -> Nat]
            BY <6>1
          <6>3. /\ next_id' \in {next_id, next_id + 1}
                /\ id' = id \/ id' = [id EXCEPT ![c] = next_id]
            BY <2>3 DEF Request
          <6>4. QED
            BY <6>1, <6>2, <6>3
        <5>3. QED
          BY <2>3, <5>1, <5>2 DEF Request, TypeOK, pipes, history
    <3>3. QED
      BY <2>3, <3>1, <3>2 DEF Request
  <2>4. ASSUME NEW c \in Calls, Write(c)
        PROVE  QueueInv'
    <3>1. CASE alive /\ Goto(c, "read")
      <4>1. /\ pc[c] = "write" /\ pc' = [pc EXCEPT ![c] = "read"]
            /\ UNCHANGED <<queue, ear>>
        BY <2>4, <3>1 DEF Write, Moves, Goto, End, TypeOK, Ended
      <4>2. /\ stdin' \subseteq Requests /\ cutIn' \in BOOLEAN
            /\ spoilt' \subseteq Calls
        <5>1. [call |-> c, id |-> IF cutIn THEN 0 ELSE id[c]] \in Requests
          BY DEF TypeOK, Requests
        <5>2. QED
          BY <2>4, <5>1 DEF Write, TypeOK
      <4>3. TypeOK'
        BY <2>4, <4>1, <4>2 DEF Write, TypeOK, InFlight
      <4>4. QueueServes'
        BY <4>1 DEF TypeOK, QueueServes, InFlight
      <4>5. QED
        BY <4>3, <4>4
    <3>2. CASE End(c, "closed")
      <4>1. pc[c] \in InFlight /\ "closed" \in Ended
        BY <2>4 DEF Write, Moves, InFlight, Ended
      <4>2. QED
        BY <2>4, <3>2, <4>1, EndServes DEF Write, TypeOK, Goto, Moves
    <3>3. QED
      BY <2>4, <3>1, <3>2 DEF Write
  <2>5. ASSUME NEW c \in Calls, Read(c)
        PROVE  QueueInv'
    <3>1. /\ stdout' \in Seq(Lines) /\ cutOut' \in BOOLEAN
          /\ UNCHANGED <<next_id, id, signal, watcher, stdin, cutIn, alive, noise,
                         spoilt, cutters>>
          /\ pc[c] \in InFlight
      <4>1. Takes(c) /\ stdout \in Seq(Lines)
        BY <2>5, ReadCases DEF TypeOK
      <4>2. stdout' \in Seq(Lines)
        BY <4>1 DEF Takes
      <4>3. QED
        BY <4>1, <4>2 DEF Takes, Moves, history, InFlight
    <3>2. CASE Continue
      <4>1. TypeOK'
        BY <3>1, <3>2 DEF Continue, TypeOK
      <4>2. QueueServes'
        BY <3>2 DEF Continue, QueueServes
      <4>3. QED
        BY <4>1, <4>2
    <3>3. ASSUME NEW o \in Ended, Finish(c, o)
          PROVE  QueueInv'
      <4>1. End(c, o) /\ last' \in [Calls -> Lines \union {NoLine}]
        BY <2>5, <3>3, ReadCases DEF Finish, TypeOK
      <4>2. QED
        BY <3>1, <4>1, EndServes DEF TypeOK
    <3>4. QED
      BY <2>5, <3>2, <3>3, ReadCases DEF Ended
  <2>6. ASSUME NEW c \in Calls, NEW o \in Ended, pc[c] \in InFlight, End(c, o),
               Drop(c) \/ UNCHANGED <<cutIn, stdout, cutOut, cutters>>,
               UNCHANGED <<next_id, id, last, signal, watcher, stdin, alive, noise, spoilt>>
        PROVE  QueueInv'
    BY <2>6, EndServes DEF Drop, TypeOK
  <2>7. ASSUME NEW c \in Calls, ReadEnd(c) \/ Timeout(c) \/ Abort(c)
        PROVE  QueueInv'
    BY <2>7, <2>6 DEF ReadEnd, Timeout, Abort, Moves, InFlight, Ended, pipes, history
  <2>8. ASSUME NEW c \in Calls, CancelStep(c)
        PROVE  QueueInv'
    <3>1. /\ signal' \in [Calls -> BOOLEAN]
          /\ watcher' \in [Calls -> {"watching", "gone"}]
          /\ ear' \in [Calls -> {"none", "checked", "listening", "heard", "deaf"}]
      BY <2>8 DEF CancelStep, Cancel, Watch, Check, Listen, TypeOK
    <3>2. UNCHANGED <<callVars, pipes, alive, noise, history>>
      BY <2>8 DEF CancelStep, Cancel, Watch, Check, Listen
    <3>3. TypeOK'
      BY <3>1, <3>2 DEF callVars, pipes, history, TypeOK
    <3>4. QueueServes'
      BY <3>2 DEF callVars, QueueServes
    <3>5. QED
      BY <3>3, <3>4
  <2>9. CASE Answer
    <3>1. PICK r \in stdin, kind \in Forms :
            /\ stdin' = stdin \ {r}
            /\ noise' = noise
            /\ \/ stdout' = Append(stdout, [kind |-> kind, call |-> r.call, id |-> r.id])
               \/ UNCHANGED stdout
      BY <2>9 DEF Answer
    <3>2. stdout' \in Seq(Lines) /\ noise' \in 0..MaxNoise /\ stdin' \subseteq Requests
      <4>1. [kind |-> kind, call |-> r.call, id |-> r.id] \in Lines
        BY DEF TypeOK, Requests, Lines
      <4>2. QED
        <5>1. stdout \in Seq(Lines) /\ noise \in 0..MaxNoise /\ stdin \subseteq Requests
          BY DEF TypeOK
        <5>2. stdout' \in Seq(Lines)
          BY <3>1, <4>1, <5>1
        <5>3. QED
          BY <3>1, <5>1, <5>2
    <3>3. QED
      <4>1. TypeOK'
        BY <2>9, <3>2 DEF Answer, callVars, cancelVars, history, TypeOK
      <4>2. QueueServes'
        BY <2>9 DEF Answer, callVars, QueueServes
      <4>3. QED
        BY <4>1, <4>2
  <2>10. CASE Say \/ Exit
    <3>1. CASE Say
      <4>1. PICK line \in Lines : stdout' = Append(stdout, line)
        <5>1. /\ [kind |-> "notice", id |-> 0] \in Lines
              /\ \A n \in {next_id - 1, next_id} : [kind |-> "ask", id |-> n] \in Lines
          BY DEF TypeOK, Lines
        <5>2. QED
          BY <3>1, <5>1 DEF Say
      <4>2. stdout' \in Seq(Lines) /\ noise' \in 0..MaxNoise
        BY <3>1, <4>1 DEF Say, TypeOK
      <4>3. QED
        BY <3>1, <4>2 DEF Say, callVars, cancelVars, history, TypeOK, QueueServes
    <3>2. CASE Exit
      BY <3>2 DEF Exit, callVars, cancelVars, pipes, history, TypeOK, QueueServes
    <3>3. QED
      BY <2>10, <3>1, <3>2
  <2>11. CASE UNCHANGED vars
    BY <2>11 DEF vars, TypeOK, QueueServes
  <2>12. QED
    BY <2>1, <2>2, <2>3, <2>4, <2>5, <2>7, <2>8, <2>9, <2>10, <2>11
       DEF Next, CallStep
<1>3. QED
  BY <1>1, <1>2

(* Steps that leave ids, pipes and successes as they are.                  *)
LEMMA IdFrame ==
  ASSUME IdInv, UNCHANGED <<next_id, id, last, stdin, stdout, spoilt>>,
         NEW c \in Calls, NEW l, pc' = [pc EXCEPT ![c] = l], l # "ok",
         l \in Numbered => id[c] # 0,
         l \in {"idle", "queued", "request"} => id[c] = 0
  PROVE  IdsDiffer' /\ PipesBearIds' /\ OwnAnswer'
<1> USE DEF IdInv, QueueInv
<1>1. pc \in [Calls -> {"idle", "queued"} \union InFlight \union Ended]
  BY DEF TypeOK
<1>2. \A d \in Calls : pc'[d] = IF d = c THEN l ELSE pc[d]
  BY <1>1
<1>3. IdsDiffer'
  BY <1>2 DEF IdsDiffer
<1>4. PipesBearIds'
  BY DEF PipesBearIds
<1>5. OwnAnswer'
  BY <1>2 DEF OwnAnswer
<1>6. QED
  BY <1>3, <1>4, <1>5

LEMMA IdsKept ==
  ASSUME IdsDiffer, OwnAnswer, UNCHANGED callVars
  PROVE  IdsDiffer' /\ OwnAnswer'
<1>1. UNCHANGED <<pc, next_id, id, last>>
  BY DEF callVars
<1>2. IdsDiffer'
  BY <1>1 DEF IdsDiffer
<1>3. OwnAnswer'
  BY <1>1 DEF OwnAnswer
<1>4. QED
  BY <1>2, <1>3

LEMMA IdInvInductive ==
  /\ Init => IdInv
  /\ IdInv /\ [Next]_vars => IdInv'
<1>1. ASSUME Init
      PROVE  IdInv
  <2>1. QueueInv
    BY <1>1, QueueInvInductive
  <2>2. IdsDiffer /\ OwnAnswer
    BY <1>1 DEF Init, IdsDiffer, OwnAnswer, Numbered
  <2>3. PipesBearIds
    BY <1>1 DEF Init, PipesBearIds
  <2>4. QED
    BY <2>1, <2>2, <2>3 DEF IdInv
<1>2. ASSUME IdInv, [Next]_vars
      PROVE  IdInv'
  <2> USE <1>2 DEF IdInv
  <2>0. QueueInv'
    BY QueueInvInductive
  <2> DEFINE Goal == IdsDiffer' /\ PipesBearIds' /\ OwnAnswer'
  <2>1. ASSUME NEW c \in Calls, Call(c)
        PROVE  Goal
    <3>1. pc' = [pc EXCEPT ![c] = "aborted"] \/ pc' = [pc EXCEPT ![c] = "queued"]
      BY <2>1 DEF Call, Goto
    <3>2. id[c] = 0
      BY <2>1 DEF Call, IdsDiffer
    <3>3. QED
      BY <2>1, <3>1, <3>2, IdFrame DEF Call, pipes, history, Numbered
  <2>2. ASSUME NEW c \in Calls, Lock(c)
        PROVE  Goal
    <3>1. pc' = [pc EXCEPT ![c] = "request"] /\ id[c] = 0
      BY <2>2 DEF Lock, Goto, IdsDiffer
    <3>2. QED
      BY <2>2, <3>1, IdFrame DEF Lock, pipes, history, Numbered
  <2>3. ASSUME NEW c \in Calls, Request(c)
        PROVE  Goal
    <3>1. /\ pc[c] = "request" /\ id[c] = 0
          /\ UNCHANGED <<last, stdin, stdout, spoilt>>
      BY <2>3 DEF Request, Moves, IdsDiffer, pipes, history
    <3>2. CASE /\ pc' = [pc EXCEPT ![c] = "write"]
               /\ id' = [id EXCEPT ![c] = next_id]
               /\ next_id' = next_id + 1
      <4>1. /\ \A d \in Calls : id'[d] = IF d = c THEN next_id ELSE id[d]
            /\ \A d \in Calls : pc'[d] = IF d = c THEN "write" ELSE pc[d]
            /\ next_id \in Nat \ {0} /\ id \in [Calls -> Nat]
        BY <3>2 DEF QueueInv, TypeOK
      <4>2. IdsDiffer'
        BY <3>2, <4>1 DEF IdsDiffer, Numbered
      <4>3. PipesBearIds'
        <5>1. \A r \in stdin : r.call \in Calls
          BY DEF QueueInv, TypeOK, Requests
        <5>2. \A i \in 1..Len(stdout) : Answers(stdout[i]) => stdout[i].call \in Calls
          <6>1. \A i \in 1..Len(stdout) : stdout[i] \in Lines
            BY DEF QueueInv, TypeOK
          <6>2. QED
            BY <6>1 DEF Lines, Answers
        <5>3. QED
          BY <3>1, <4>1, <5>1, <5>2 DEF PipesBearIds
      <4>4. OwnAnswer'
        BY <3>1, <4>1 DEF OwnAnswer
      <4>5. QED
        BY <4>2, <4>3, <4>4
    <3>3. CASE pc' = [pc EXCEPT ![c] = "invalid"] /\ UNCHANGED id
      <4>1. next_id' \in {next_id, next_id + 1} /\ next_id \in Nat
        BY <2>3 DEF Request, QueueInv, TypeOK
      <4>2. \A d \in Calls : pc'[d] = IF d = c THEN "invalid" ELSE pc[d]
        BY <3>3 DEF QueueInv, TypeOK
      <4>3. IdsDiffer'
        BY <3>3, <4>1, <4>2 DEF IdsDiffer, Numbered, QueueInv, TypeOK
      <4>4. PipesBearIds' /\ OwnAnswer'
        BY <3>1, <3>3, <4>2 DEF PipesBearIds, OwnAnswer
      <4>5. QED
        BY <4>3, <4>4
    <3>4. QED
      BY <2>3, <3>2, <3>3 DEF Request, End, Goto
  <2>4. ASSUME NEW c \in Calls, Write(c)
        PROVE  Goal
    <3>1. pc[c] = "write" /\ id[c] # 0
      BY <2>4 DEF Write, Moves, IdsDiffer, Numbered
    <3>2. CASE pc' = [pc EXCEPT ![c] = "closed"] /\ UNCHANGED <<stdin, spoilt>>
      BY <2>4, <3>2, IdFrame DEF Write, Numbered
    <3>3. CASE /\ pc' = [pc EXCEPT ![c] = "read"]
               /\ stdin' = stdin \union {[call |-> c, id |-> IF cutIn THEN 0 ELSE id[c]]}
               /\ spoilt' = IF cutIn THEN spoilt \union {c} ELSE spoilt
      <4>1. \A d \in Calls : pc'[d] = IF d = c THEN "read" ELSE pc[d]
        BY <3>3 DEF QueueInv, TypeOK
      <4>2. UNCHANGED <<next_id, id, last, stdout>>
        BY <2>4 DEF Write
      <4>3. IdsDiffer' /\ OwnAnswer'
        BY <3>1, <4>1, <4>2 DEF IdsDiffer, OwnAnswer, Numbered
      <4>4. PipesBearIds'
        BY <3>1, <3>3, <4>2 DEF PipesBearIds
      <4>5. QED
        BY <4>3, <4>4
    <3>4. QED
      BY <2>4, <3>2, <3>3 DEF Write, End, Goto
  <2>5. ASSUME NEW c \in Calls, Read(c)
        PROVE  Goal
    <3>1. /\ pc[c] = "read" /\ id[c] # 0
          /\ UNCHANGED <<next_id, id, stdin, spoilt>>
          /\ stdout' = Tail(stdout) /\ stdout \in Seq(Lines) /\ stdout # <<>>
      BY <2>5, ReadCases DEF Takes, Moves, IdsDiffer, Numbered, history, QueueInv, TypeOK
    <3>2. PipesBearIds'
      <4>1. \A i \in 1..Len(stdout') : i + 1 \in 1..Len(stdout) /\ stdout'[i] = stdout[i + 1]
        BY <3>1, TailElements
      <4>2. QED
        BY <3>1, <4>1 DEF PipesBearIds
    <3>3. CASE Continue
      BY <3>1, <3>2, <3>3 DEF Continue, IdsDiffer, OwnAnswer
    <3>4. ASSUME NEW o \in Ended, Finish(c, o),
                 o = "ok" => Head(stdout).kind = "result" /\ Head(stdout).id = id[c]
          PROVE  Goal
      <4>1. /\ \A d \in Calls : pc'[d] = IF d = c THEN o ELSE pc[d]
            /\ \A d \in Calls : last'[d] = IF d = c THEN Head(stdout) ELSE last[d]
        BY <3>4 DEF Finish, End, Goto, QueueInv, TypeOK
      <4>2. IdsDiffer'
        BY <3>1, <4>1 DEF IdsDiffer, Numbered, Ended
      <4>3. o = "ok" => Head(stdout).call = c
        <5>1. Head(stdout) = stdout[1] /\ stdout[1] \in Lines /\ 1 \in 1..Len(stdout)
          BY <3>1
        <5>2. o = "ok" => stdout[1].call \in Calls
          BY <3>4, <5>1 DEF Lines
        <5>3. o = "ok" => id[stdout[1].call] = id[c]
          BY <3>1, <3>4, <5>1 DEF PipesBearIds, Answers
        <5>4. QED
          BY <3>1, <5>1, <5>2, <5>3 DEF IdsDiffer
      <4>4. OwnAnswer'
        BY <4>1, <4>3 DEF OwnAnswer
      <4>5. QED
        BY <3>2, <4>2, <4>4
    <3>5. QED
      BY <2>5, <3>3, <3>4, ReadCases DEF Ended, QueueInv
  <2>6. ASSUME NEW c \in Calls, ReadEnd(c) \/ Timeout(c) \/ Abort(c)
        PROVE  Goal
    <3>1. PICK o \in {"closed", "timeout", "aborted"} : pc' = [pc EXCEPT ![c] = o]
      BY <2>6 DEF ReadEnd, Timeout, Abort, End, Goto
    <3>2. /\ UNCHANGED <<next_id, id, last, stdin, spoilt>>
          /\ UNCHANGED stdout
      BY <2>6 DEF ReadEnd, Timeout, Abort, Drop, pipes, history
    <3>3. QED
      BY <3>1, <3>2, IdFrame DEF Numbered
  <2>7. ASSUME NEW c \in Calls, CancelStep(c)
        PROVE  Goal
    <3>1. UNCHANGED <<callVars, pipes, history>>
      BY <2>7 DEF CancelStep, Cancel, Watch, Check, Listen
    <3>2. IdsDiffer' /\ OwnAnswer'
      BY <3>1, IdsKept
    <3>3. PipesBearIds'
      BY <3>1 DEF callVars, pipes, history, PipesBearIds
    <3>4. QED
      BY <3>2, <3>3
  <2>8. ASSUME Answer
        PROVE  Goal
    <3>1. UNCHANGED callVars /\ UNCHANGED spoilt
      BY <2>8 DEF Answer, history
    <3>2. PipesBearIds'
      <4>1. PICK r \in stdin, kind \in Forms :
              /\ stdin' = stdin \ {r}
              /\ \/ stdout' = Append(stdout, [kind |-> kind, call |-> r.call, id |-> r.id])
                 \/ UNCHANGED stdout
        BY <2>8 DEF Answer
      <4>2. CASE UNCHANGED stdout
        BY <3>1, <4>1, <4>2 DEF PipesBearIds, callVars
      <4>3. CASE stdout' = Append(stdout, [kind |-> kind, call |-> r.call, id |-> r.id])
        <5> DEFINE line == [kind |-> kind, call |-> r.call, id |-> r.id]
        <5>1. line \in Lines /\ stdout \in Seq(Lines)
          BY ClientAssumption DEF QueueInv, TypeOK, Requests, Lines
        <5>2. /\ r.id # 0 => line.id = id[line.call]
              /\ r.id = 0 => line.call \in spoilt
          BY DEF PipesBearIds
        <5>3. line.id = r.id
          OBVIOUS
        <5> HIDE DEF line
        <5>4. /\ Len(stdout') = Len(stdout) + 1
              /\ stdout'[Len(stdout) + 1] = line
              /\ \A i \in 1..Len(stdout) : stdout'[i] = stdout[i]
          BY <4>3, <5>1, AppendElements DEF line
        <5>5. ASSUME NEW i \in 1..Len(stdout'), Answers(stdout'[i])
              PROVE  /\ stdout'[i].id # 0 => stdout'[i].id = id[stdout'[i].call]
                     /\ stdout'[i].id = 0 => stdout'[i].call \in spoilt
          <6>1. CASE i \in 1..Len(stdout)
            BY <5>4, <5>5, <6>1 DEF PipesBearIds
          <6>2. CASE i = Len(stdout) + 1
            BY <5>2, <5>3, <5>4, <6>2
          <6>3. QED
            BY <5>1, <5>4, <6>1, <6>2
        <5>6. QED
          BY <3>1, <4>1, <5>5 DEF PipesBearIds, callVars
      <4>4. QED
        BY <4>1, <4>2, <4>3
    <3>3. IdsDiffer' /\ OwnAnswer'
      BY <3>1, IdsKept
    <3>4. QED
      BY <3>2, <3>3
  <2>9. ASSUME Say
        PROVE  Goal
    <3>1. PICK line : /\ stdout' = Append(stdout, line)
                      /\ line \in Lines /\ ~Answers(line)
      <4>1. /\ [kind |-> "notice", id |-> 0] \in Lines
            /\ ~Answers([kind |-> "notice", id |-> 0])
        BY DEF Lines, Answers
      <4>2. \A n \in {next_id - 1, next_id} :
              /\ [kind |-> "ask", id |-> n] \in Lines
              /\ ~Answers([kind |-> "ask", id |-> n])
        BY DEF QueueInv, TypeOK, Lines, Answers
      <4>3. QED
        BY <2>9, <4>1, <4>2 DEF Say
    <3>2. /\ Len(stdout') = Len(stdout) + 1
          /\ stdout'[Len(stdout) + 1] = line
          /\ \A i \in 1..Len(stdout) : stdout'[i] = stdout[i]
          /\ Len(stdout) \in Nat
      BY <3>1, AppendElements DEF QueueInv, TypeOK
    <3>3. UNCHANGED callVars /\ UNCHANGED <<spoilt, stdin>>
      BY <2>9 DEF Say, history
    <3>4. \A i \in 1..Len(stdout') :
            Answers(stdout'[i]) => i \in 1..Len(stdout)
      BY <3>1, <3>2
    <3>5. PipesBearIds'
      BY <3>2, <3>3, <3>4 DEF PipesBearIds, callVars
    <3>6. IdsDiffer' /\ OwnAnswer'
      BY <3>3, IdsKept
    <3>7. QED
      BY <3>5, <3>6
  <2>10. ASSUME Exit \/ UNCHANGED vars
        PROVE  Goal
    <3>1. UNCHANGED <<callVars, pipes, history>>
      BY <2>10 DEF Exit, vars, callVars, pipes, history
    <3>2. IdsDiffer' /\ OwnAnswer'
      BY <3>1, IdsKept
    <3>3. PipesBearIds'
      BY <3>1 DEF callVars, pipes, history, PipesBearIds
    <3>4. QED
      BY <3>2, <3>3
  <2>11. Goal
    BY <2>1, <2>2, <2>3, <2>4, <2>5, <2>6, <2>7, <2>8, <2>9, <2>10
       DEF Next, CallStep
  <2>12. QED
    BY <2>0, <2>11
<1>3. QED
  BY <1>1, <1>2

-----------------------------------------------------------------------------
(* Steps of one call that cut nothing and read nothing.                    *)
LEMMA CutFrame ==
  ASSUME LineInv, UNCHANGED <<last, stdout, cutOut, cutters>>,
         NEW c \in Calls, NEW l, pc' = [pc EXCEPT ![c] = l],
         l # "garbled", pc[c] \notin Ended,
         \A d \in Calls : d # c => id'[d] = id[d]
  PROVE  CutInv' /\ GarbledExplained'
<1>1. \A d \in Calls : pc'[d] = IF d = c THEN l ELSE pc[d]
  BY DEF LineInv, IdInv, QueueInv, TypeOK
<1>2. \A d \in cutters : d # c /\ d \in Calls
  BY DEF LineInv, CutInv, IdInv, QueueInv, TypeOK
<1>3. CutInv'
  BY <1>1, <1>2 DEF LineInv, CutInv
<1>4. GarbledExplained'
  BY <1>1 DEF LineInv, GarbledExplained
<1>5. QED
  BY <1>3, <1>4

(* Steps that leave calls and cuts alone and add at most one line.         *)
LEMMA LineAdded ==
  ASSUME LineInv, UNCHANGED <<pc, id, last, cutOut, cutters>>,
         \/ UNCHANGED stdout
         \/ \E line \in Lines : stdout' = Append(stdout, line)
  PROVE  CutInv' /\ GarbledExplained'
<1>1. stdout \in Seq(Lines)
  BY DEF LineInv, IdInv, QueueInv, TypeOK
<1>2. cutOut' => stdout' # <<>> /\ cutters' # {}
  BY <1>1 DEF LineInv, CutInv
<1>3. CutInv'
  BY <1>2 DEF LineInv, CutInv
<1>4. GarbledExplained'
  BY DEF LineInv, GarbledExplained
<1>5. QED
  BY <1>3, <1>4

LEMMA LineInvInductive ==
  /\ Init => LineInv
  /\ LineInv /\ [Next]_vars => LineInv'
<1> USE ClientAssumption
<1>1. ASSUME Init
      PROVE  LineInv
  <2>1. IdInv
    BY <1>1, IdInvInductive
  <2>2. CutInv /\ GarbledExplained
    BY <1>1 DEF Init, CutInv, GarbledExplained
  <2>3. QED
    BY <2>1, <2>2 DEF LineInv
<1>2. ASSUME LineInv, [Next]_vars
      PROVE  LineInv'
  <2> USE <1>2
  <2>0. IdInv'
    BY IdInvInductive DEF LineInv
  <2> DEFINE Goal == CutInv' /\ GarbledExplained'
  <2>1. ASSUME NEW c \in Calls, Call(c) \/ Lock(c) \/ Request(c) \/ Write(c) \/ ReadEnd(c)
        PROVE  Goal
    <3>1. PICK l \in {"aborted", "queued", "request", "write", "invalid", "read", "closed"} :
            pc' = [pc EXCEPT ![c] = l]
      BY <2>1 DEF Call, Lock, Request, Write, ReadEnd, End, Goto
    <3>2. pc[c] \notin Ended /\ UNCHANGED <<last, stdout, cutOut, cutters>>
      BY <2>1 DEF Call, Lock, Request, Write, ReadEnd, Moves, Ended, pipes, history
    <3>3. \A d \in Calls : d # c => id'[d] = id[d]
      BY <2>1 DEF Call, Lock, Request, Write, ReadEnd, LineInv, IdInv, QueueInv, TypeOK
    <3>4. QED
      BY <3>1, <3>2, <3>3, CutFrame
  <2>2. ASSUME NEW c \in Calls, Timeout(c) \/ Abort(c)
        PROVE  Goal
    <3>1. PICK o \in {"timeout", "aborted"} : pc' = [pc EXCEPT ![c] = o]
      BY <2>2 DEF Timeout, Abort, End, Goto
    <3>2. pc[c] \notin Ended /\ UNCHANGED <<id, last>> /\ Drop(c)
      BY <2>2 DEF Timeout, Abort, Moves, InFlight, Ended
    <3>3. CASE UNCHANGED <<cutIn, stdout, cutOut, cutters>>
      BY <3>1, <3>2, <3>3, CutFrame
    <3>4. CASE /\ cutters' = cutters \union {c}
               /\ UNCHANGED stdout
               /\ UNCHANGED cutOut \/ stdout # <<>>
      <4>1. \A d \in Calls : pc'[d] = IF d = c THEN o ELSE pc[d]
        BY <3>1 DEF LineInv, IdInv, QueueInv, TypeOK
      <4>2. \A d \in cutters : d # c /\ d \in Calls
        BY <3>2 DEF LineInv, CutInv, IdInv, QueueInv, TypeOK
      <4>3. \A d \in cutters' : pc'[d] \in Ended
        BY <3>4, <4>1, <4>2 DEF LineInv, CutInv, Ended
      <4>4. CutInv'
        BY <3>2, <3>4, <4>3 DEF LineInv, CutInv
      <4>5. GarbledExplained'
        BY <3>2, <3>4, <4>1 DEF LineInv, GarbledExplained
      <4>6. QED
        BY <4>4, <4>5
    <3>5. QED
      BY <3>2, <3>3, <3>4 DEF Drop
  <2>3. ASSUME NEW c \in Calls, Read(c)
        PROVE  Goal
    <3>1. /\ pc[c] = "read" /\ UNCHANGED <<id, cutters>>
          /\ stdout' = Tail(stdout) /\ stdout \in Seq(Lines) /\ stdout # <<>>
          /\ cutOut' = FALSE
      BY <2>3, ReadCases DEF Takes, Moves, history, LineInv, IdInv, QueueInv, TypeOK
    <3>2. ~(c \in cutters)
      BY <3>1 DEF LineInv, CutInv, Ended
    <3>3. PICK l \in Ended \union {"read"} :
            /\ \A d \in Calls : pc'[d] = IF d = c THEN l ELSE pc[d]
            /\ \A d \in Calls : d # c => last'[d] = last[d]
            /\ l = "garbled" =>
                 /\ last'[c] = Head(stdout)
                 /\ \/ cutOut \/ Head(stdout).kind \in {"broken", "notice"}
                    \/ Head(stdout).kind \in {"malformed", "ask"} /\ Head(stdout).id = id[c]
      <4>1. CASE Continue
        BY <3>1, <4>1 DEF Continue
      <4>2. ASSUME NEW o \in Ended, Finish(c, o)
            PROVE  /\ \A d \in Calls : pc'[d] = IF d = c THEN o ELSE pc[d]
                   /\ \A d \in Calls : last'[d] = IF d = c THEN Head(stdout) ELSE last[d]
        BY <4>2 DEF Finish, End, Goto, LineInv, IdInv, QueueInv, TypeOK
      <4>3. QED
        BY <2>3, <4>1, <4>2, ReadCases DEF LineInv, IdInv, QueueInv, Ended
    <3>4. CutInv'
      <4>1. \A d \in cutters' : pc'[d] \in Ended
        BY <3>1, <3>2, <3>3 DEF LineInv, CutInv, IdInv, QueueInv, TypeOK
      <4>2. QED
        BY <3>1, <4>1 DEF CutInv
    <3>5. GarbledExplained'
      <4>1. ASSUME Head(stdout).kind = "malformed", Head(stdout).id = id[c]
            PROVE  Head(stdout).call = c
        <5>1. Head(stdout) = stdout[1] /\ stdout[1] \in Lines /\ 1 \in 1..Len(stdout)
          BY <3>1
        <5>2. stdout[1].call \in Calls
          BY <4>1, <5>1 DEF Lines
        <5>3. id[c] # 0
          BY <3>1 DEF LineInv, IdInv, IdsDiffer, Numbered
        <5>4. id[stdout[1].call] = id[c]
          BY <4>1, <5>1, <5>3 DEF LineInv, IdInv, PipesBearIds, Answers
        <5>5. QED
          BY <5>1, <5>2, <5>3, <5>4 DEF LineInv, IdInv, IdsDiffer
      <4>2. cutOut => cutters \ {c} # {}
        BY <3>2 DEF LineInv, CutInv
      <4>3. QED
        BY <3>1, <3>3, <4>1, <4>2 DEF LineInv, GarbledExplained
    <3>6. QED
      BY <3>4, <3>5
  <2>4. ASSUME \/ \E c \in Calls : CancelStep(c)
               \/ Answer \/ Say \/ Exit \/ UNCHANGED vars
        PROVE  Goal
    <3>1. UNCHANGED <<pc, id, last, cutOut, cutters>>
      BY <2>4 DEF CancelStep, Cancel, Watch, Check, Listen, Answer, Say, Exit,
                  callVars, cancelVars, pipes, history, vars
    <3>2. CASE UNCHANGED stdout
      BY <3>1, <3>2, LineAdded
    <3>3. CASE Answer
      <4>1. PICK r \in stdin, kind \in Forms :
              \/ stdout' = Append(stdout, [kind |-> kind, call |-> r.call, id |-> r.id])
              \/ UNCHANGED stdout
        BY <3>3 DEF Answer
      <4>2. [kind |-> kind, call |-> r.call, id |-> r.id] \in Lines
        BY DEF LineInv, IdInv, QueueInv, TypeOK, Requests, Lines
      <4>3. QED
        BY <3>1, <4>1, <4>2, LineAdded
    <3>4. CASE Say
      <4>1. /\ [kind |-> "notice", id |-> 0] \in Lines
            /\ \A n \in {next_id - 1, next_id} : [kind |-> "ask", id |-> n] \in Lines
        BY DEF LineInv, IdInv, QueueInv, TypeOK, Lines
      <4>2. \E line \in Lines : stdout' = Append(stdout, line)
        BY <3>4, <4>1 DEF Say
      <4>3. QED
        BY <3>1, <4>2, LineAdded
    <3>5. QED
      BY <2>4, <3>2, <3>3, <3>4
         DEF CancelStep, Cancel, Watch, Check, Listen, Exit, pipes, vars
  <2>5. Goal
    BY <2>1, <2>2, <2>3, <2>4 DEF Next, CallStep
  <2>6. QED
    BY <2>0, <2>5 DEF LineInv
<1>3. QED
  BY <1>1, <1>2

-----------------------------------------------------------------------------
LEMMA AwaitedAsOnItsWay ==
  /\ AwaitedAnswerKept <=>
       \A c \in Calls \ spoilt : pc[c] = "read" /\ alive => OnItsWay(c)
  /\ AwaitedAnswerKept' <=>
       \A c \in Calls \ spoilt' : pc'[c] = "read" /\ alive' => OnItsWay(c)'
BY DEF AwaitedAnswerKept, OnItsWay, Answers

LEMMA IInvInductive ==
  /\ Init => IInv
  /\ IInv /\ [Next]_vars => IInv'
<1>1. ASSUME Init
      PROVE  IInv
  <2>1. LineInv
    BY <1>1, LineInvInductive
  <2>2. AwaitedAnswerKept
    BY <1>1 DEF Init, AwaitedAnswerKept
  <2>3. QED
    BY <2>1, <2>2 DEF IInv
<1>2. ASSUME IInv, [Next]_vars
      PROVE  IInv'
  <2>0. LineInv' /\ LineInv /\ TypeOK /\ QueueServes /\ IdsDiffer /\ PipesBearIds /\ CutInv
    BY <1>2, LineInvInductive DEF IInv, LineInv, IdInv, QueueInv
  <2> SUFFICES ASSUME NEW d \in Calls, d \notin spoilt', pc'[d] = "read", alive'
               PROVE  OnItsWay(d)'
    BY <2>0, AwaitedAsOnItsWay DEF IInv
  <2>1. ASSUME d \notin spoilt, pc[d] = "read", alive
        PROVE  OnItsWay(d)
    BY <1>2, <2>1, AwaitedAsOnItsWay DEF IInv
  <2>2. stdout \in Seq(Lines) /\ pc \in [Calls -> {"idle", "queued"} \union InFlight \union Ended]
    BY <2>0 DEF TypeOK
  <2>3. ASSUME UNCHANGED <<stdin, stdout, cutOut, spoilt, alive>>, pc[d] = "read"
        PROVE  OnItsWay(d)'
    BY <2>1, <2>3 DEF OnItsWay
  <2>4. ASSUME NEW c \in Calls, Call(c) \/ Lock(c) \/ Request(c)
        PROVE  OnItsWay(d)'
    <3>1. PICK l \in {"aborted", "queued", "request", "write", "invalid"} :
            pc' = [pc EXCEPT ![c] = l]
      BY <2>4 DEF Call, Lock, Request, End, Goto
    <3>2. pc[d] = "read"
      BY <2>2, <3>1
    <3>3. UNCHANGED <<stdin, stdout, cutOut, spoilt, alive>>
      BY <2>4 DEF Call, Lock, Request, pipes, history
    <3>4. QED
      BY <2>3, <3>2, <3>3
  <2>5. ASSUME NEW c \in Calls, Write(c)
        PROVE  OnItsWay(d)'
    <3>1. UNCHANGED <<stdout, cutOut, alive>> /\ pc[c] = "write"
      BY <2>5 DEF Write, Moves
    <3>2. CASE End(c, "closed") /\ UNCHANGED <<stdin, spoilt>>
      <4>1. pc[d] = "read"
        BY <2>2, <3>2 DEF End, Goto
      <4>2. QED
        BY <2>3, <3>1, <3>2, <4>1
    <3>3. CASE /\ pc' = [pc EXCEPT ![c] = "read"]
               /\ stdin' = stdin \union {[call |-> c, id |-> IF cutIn THEN 0 ELSE id[c]]}
               /\ spoilt \subseteq spoilt'
      <4>1. CASE d = c
        <5> DEFINE request == [call |-> c, id |-> IF cutIn THEN 0 ELSE id[c]]
        <5>1. request \in stdin' /\ request.call = d
          BY <3>3, <4>1
        <5>2. QED
          BY <5>1 DEF OnItsWay
      <4>2. CASE d # c
        <5>1. OnItsWay(d)
          BY <2>1, <2>2, <3>1, <3>3, <4>2
        <5>2. QED
          BY <3>1, <3>3, <5>1 DEF OnItsWay
      <4>3. QED
        BY <4>1, <4>2
    <3>4. QED
      BY <2>5, <3>2, <3>3 DEF Write, Goto
  <2>6. ASSUME NEW c \in Calls, Read(c)
        PROVE  OnItsWay(d)'
    <3>1. /\ pc[c] = "read" /\ UNCHANGED <<id, stdin, spoilt, alive>>
          /\ stdout' = Tail(stdout) /\ cutOut' = FALSE /\ Len(stdout) > 0
      BY <2>0, <2>6, ReadCases DEF Takes, Moves, history
    <3>2. Head(stdout) = stdout[1] /\ Head(stdout) \in Lines
      BY <2>0, <2>6, ReadCases
    <3>3. d = c
      <4>1. PICK l : pc' = [pc EXCEPT ![c] = l]
        BY <2>0, <2>2, <2>6, ReadCases DEF Continue, Finish, End, Goto
      <4>2. d # c => pc[d] = "read"
        BY <2>2, <4>1
      <4>3. QED
        BY <2>0, <3>1, <4>2 DEF QueueServes, InFlight
    <3>4. cutOut \/ ~Answers(stdout[1]) \/ stdout[1].id # id[c]
      <4>1. pc'[c] = "read"
        BY <3>3
      <4>2. ASSUME NEW o \in Ended, Finish(c, o)
            PROVE  FALSE
        BY <2>2, <4>1, <4>2 DEF Finish, End, Goto, Ended
      <4>3. QED
        BY <2>0, <2>6, <3>2, <4>2, ReadCases DEF Ended
    <3>5. OnItsWay(c) /\ c \notin spoilt
      BY <2>1, <3>1, <3>3
    <3>6. CASE \E r \in stdin : r.call = c
      BY <3>1, <3>3, <3>6 DEF OnItsWay
    <3>7. ASSUME NEW i \in DOMAIN stdout,
                 Answers(stdout[i]), stdout[i].call = c, cutOut => i > 1
          PROVE  OnItsWay(d)'
      <4>1. i \in 1..Len(stdout) /\ i # 1
        <5>1. i \in 1..Len(stdout)
          BY <2>2, <3>7
        <5>2. stdout[i].id # 0 /\ stdout[i].id = id[c]
          BY <2>0, <3>5, <3>7, <5>1 DEF PipesBearIds
        <5>3. QED
          BY <3>4, <3>7, <5>1, <5>2
      <4>2. i - 1 \in DOMAIN Tail(stdout) /\ Tail(stdout)[i - 1] = stdout[i]
        BY <2>2, <4>1
      <4>3. QED
        BY <3>1, <3>3, <3>7, <4>2 DEF OnItsWay
    <3>8. QED
      BY <3>5, <3>6, <3>7 DEF OnItsWay
  <2>7. ASSUME NEW c \in Calls, ReadEnd(c) \/ Timeout(c) \/ Abort(c)
        PROVE  OnItsWay(d)'
    <3>1. PICK o \in {"closed", "timeout", "aborted"} : pc' = [pc EXCEPT ![c] = o]
      BY <2>7 DEF ReadEnd, Timeout, Abort, End, Goto
    <3>2. pc[c] \in InFlight
      BY <2>7 DEF ReadEnd, Timeout, Abort, Moves, InFlight
    <3>3. d # c /\ pc[d] = "read"
      BY <2>2, <3>1
    <3>4. QED
      BY <2>0, <3>2, <3>3 DEF QueueServes, InFlight
  <2>8. ASSUME NEW c \in Calls, CancelStep(c)
        PROVE  OnItsWay(d)'
    BY <2>3, <2>8 DEF CancelStep, Cancel, Watch, Check, Listen, callVars, pipes, history
  <2>9. ASSUME NEW line \in Lines, stdout' = Append(stdout, line), UNCHANGED cutOut
        PROVE  /\ \A i \in DOMAIN stdout : i \in DOMAIN stdout' /\ stdout'[i] = stdout[i]
               /\ Answers(line) /\ line.call = d => OnItsWay(d)'
    <3>1. /\ DOMAIN stdout = 1..Len(stdout) /\ DOMAIN stdout' = 1..(Len(stdout) + 1)
          /\ Len(stdout) \in Nat
          /\ stdout'[Len(stdout) + 1] = line
          /\ \A i \in 1..Len(stdout) : stdout'[i] = stdout[i]
      BY <2>2, <2>9
    <3>2. cutOut' => Len(stdout) + 1 > 1
      BY <2>0, <2>2, <2>9 DEF CutInv
    <3>3. QED
      BY <3>1, <3>2 DEF OnItsWay
  <2>10. ASSUME Answer
         PROVE  OnItsWay(d)'
    <3>1. /\ UNCHANGED <<pc, cutOut, spoilt>> /\ alive
          /\ OnItsWay(d) /\ d \notin spoilt
      BY <2>1, <2>10 DEF Answer, callVars, history
    <3>2. PICK r \in stdin, kind \in Forms :
            /\ stdin' = stdin \ {r}
            /\ \/ stdout' = Append(stdout, [kind |-> kind, call |-> r.call, id |-> r.id])
               \/ r.id = 0 /\ UNCHANGED stdout
      BY <2>10 DEF Answer
    <3> DEFINE line == [kind |-> kind, call |-> r.call, id |-> r.id]
    <3>3. line \in Lines /\ Answers(line) /\ line.call = r.call
      BY <2>0, ClientAssumption DEF TypeOK, Requests, Lines, Answers
    <3>4. CASE r.id = 0 /\ UNCHANGED stdout
      <4>1. r.call # d
        BY <2>0, <3>1, <3>4 DEF PipesBearIds
      <4>2. QED
        BY <3>1, <3>2, <3>4, <4>1 DEF OnItsWay
    <3>5. CASE stdout' = Append(stdout, line)
      <4> HIDE DEF line
      <4>1. CASE r.call = d
        BY <2>9, <3>1, <3>3, <3>5, <4>1
      <4>2. CASE r.call # d
        <5>1. \A i \in DOMAIN stdout : i \in DOMAIN stdout' /\ stdout'[i] = stdout[i]
          BY <2>9, <3>1, <3>3, <3>5
        <5>2. QED
          BY <3>1, <3>2, <4>2, <5>1 DEF OnItsWay
      <4>3. QED
        BY <4>1, <4>2
    <3>6. QED
      BY <3>2, <3>4, <3>5
  <2>11. ASSUME Say
         PROVE  OnItsWay(d)'
    <3>1. /\ [kind |-> "notice", id |-> 0] \in Lines
          /\ \A n \in {next_id - 1, next_id} : [kind |-> "ask", id |-> n] \in Lines
      BY <2>0 DEF TypeOK, Lines
    <3>2. PICK line \in Lines : stdout' = Append(stdout, line)
      BY <2>11, <3>1 DEF Say
    <3>3. UNCHANGED <<stdin, cutOut>> /\ OnItsWay(d)
      BY <2>1, <2>11 DEF Say, callVars, history
    <3>4. QED
      BY <2>9, <3>2, <3>3 DEF OnItsWay
  <2>12. ~Exit
    BY DEF Exit
  <2>13. ASSUME UNCHANGED vars
         PROVE  OnItsWay(d)'
    BY <2>3, <2>13 DEF vars
  <2>14. QED
    BY <1>2, <2>4, <2>5, <2>6, <2>7, <2>8, <2>10, <2>11, <2>12, <2>13
       DEF Next, CallStep
<1>3. QED
  BY <1>1, <1>2
-----------------------------------------------------------------------------
LEMMA Invariant == Spec => []IInv
<1>1. Init => IInv
  BY IInvInductive
<1>2. IInv /\ [Next]_vars => IInv'
  BY IInvInductive
<1>3. QED
  BY <1>1, <1>2, PTL DEF Spec

(* Type correctness, for any calls and any bound on noise.                 *)
THEOREM TypeCorrect == Spec => []TypeOK
<1>1. IInv => TypeOK
  BY DEF IInv, LineInv, IdInv, QueueInv
<1>2. QED
  BY <1>1, Invariant, PTL

(* A call that succeeds returns the answer to its own request: no answer   *)
(* to a request abandoned before it is ever taken for it                   *)
(* (transport.rs:129-131).                                                   *)
THEOREM AnswersAreOwn == Spec => []OwnAnswer
<1>1. IInv => OwnAnswer
  BY DEF IInv, LineInv, IdInv
<1>2. QED
  BY <1>1, Invariant, PTL

(* The line a call fails over is its own malformed answer, a line that     *)
(* fails before any id is compared, a request of the server's that bears   *)
(* its id, or one that another call, dropped while reading it, has cut.    *)
THEOREM FailuresAreExplained == Spec => []GarbledExplained
<1>1. IInv => GarbledExplained
  BY DEF IInv, LineInv
<1>2. QED
  BY <1>1, Invariant, PTL

(* While the server runs, a call that reads has its answer, or its         *)
(* request, still in the pipes, whole, unless its request was spoilt.      *)
THEOREM AnswersAreKept == Spec => []AwaitedAnswerKept
<1>1. IInv => AwaitedAnswerKept
  BY DEF IInv
<1>2. QED
  BY <1>1, Invariant, PTL
=============================================================================
