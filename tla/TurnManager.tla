----------------------------- MODULE TurnManager -----------------------------
(***************************************************************************)
(* agent-runtime's TurnManager, AgentTurn and Cancellation: at most one    *)
(* turn per session, cancellation from any task, and callers that wait for *)
(* a cancelled turn to leave the active map.                               *)
(*                                                                         *)
(* A step is the code between two points where another thread may run: a   *)
(* critical section of the `active` mutex, a critical section of the       *)
(* turn's `inner` mutex, or the store of the cancellation flag.  A turn is *)
(* one call of TurnManager::start, with the AgentTurn that call creates.   *)
(***************************************************************************)
EXTENDS FiniteSets

CONSTANTS
  Sessions,   (* session ids *)
  Turns,      (* calls of TurnManager::start, each with its own AgentTurn *)
  Callers,    (* tasks calling cancel, cancel_and_wait, cancel_all_and_wait *)
  Target,     (* turn -> the session id its start call names *)
  NoTurn

ASSUME ManagerAssumption ==
  /\ Target \in [Turns -> Sessions]
  /\ NoTurn \notin Turns

VARIABLES
  active,   (* session -> the turn whose handle the map holds, or NoTurn *)
  call,     (* turn -> progress of its start call *)
  task,     (* turn -> progress of its spawned task *)
  outcome,  (* turn -> what its work returned, until the state is set *)
  state,    (* turn -> TurnState *)
  signal,   (* turn -> its cancellation flag *)
  pc,       (* caller -> progress *)
  kind,     (* caller -> which of the three operations it runs *)
  pending,  (* caller -> sessions it has still to cancel *)
  waiting,  (* caller -> sessions it waits to see absent from the map *)
  handle,   (* caller -> the handle it cloned out of the map *)
  hit       (* caller -> the turns it has cancelled *)

turnVars   == <<active, call, task, outcome, state, signal>>
callerVars == <<pc, kind, pending, waiting, handle, hit>>
vars == <<active, call, task, outcome, state, signal,
          pc, kind, pending, waiting, handle, hit>>

(* idle; rejected: TurnAlreadyActive; inserted: the entry is in the map;   *)
(* refused: AgentTurn::start returned AlreadyRunning, its closure not yet  *)
(* destroyed; unwound: the closure's guard has run; failed: the defensive  *)
(* removal has run too; returned: Ok with the task spawned.                *)
CallStates == {"idle", "rejected", "inserted", "refused", "unwound",
               "failed", "returned"}

(* work: the work future runs and holds the guard; left: the guard has     *)
(* run, the state is not yet set; done: the state is set; dead: panicked.  *)
TaskStates == {"none", "work", "left", "done", "dead"}

Terminal   == {"Completed", "Failed", "Cancelled"}
TurnStates == {"Pending", "Running", "Cancelling"} \union Terminal
Kinds      == {"cancel", "cancel_and_wait", "cancel_all_and_wait"}

(* `left` stands for Ok(true) of the waiting operations, `absent` for      *)
(* Ok(false) of cancel, `sent` for its Ok(true), `timeout` for their Err.  *)
CallerStates == {"idle", "lookup", "signal", "mark", "wait",
                 "sent", "absent", "left", "timeout"}

TypeOK ==
  /\ active \in [Sessions -> Turns \union {NoTurn}]
  /\ call \in [Turns -> CallStates]
  /\ task \in [Turns -> TaskStates]
  /\ outcome \in [Turns -> {"none", "ok", "error"}]
  /\ state \in [Turns -> TurnStates]
  /\ signal \in [Turns -> BOOLEAN]
  /\ pc \in [Callers -> CallerStates]
  /\ kind \in [Callers -> Kinds]
  /\ pending \in [Callers -> SUBSET Sessions]
  /\ waiting \in [Callers -> SUBSET Sessions]
  /\ handle \in [Callers -> Turns \union {NoTurn}]
  /\ hit \in [Callers -> SUBSET Turns]

Init ==
  /\ active = [s \in Sessions |-> NoTurn]
  /\ call = [t \in Turns |-> "idle"]
  /\ task = [t \in Turns |-> "none"]
  /\ outcome = [t \in Turns |-> "none"]
  /\ state = [t \in Turns |-> "Pending"]
  /\ signal = [t \in Turns |-> FALSE]
  /\ pc = [c \in Callers |-> "idle"]
  /\ kind = [c \in Callers |-> "cancel"]
  /\ pending = [c \in Callers |-> {}]
  /\ waiting = [c \in Callers |-> {}]
  /\ handle = [c \in Callers |-> NoTurn]
  /\ hit = [c \in Callers |-> {}]

-----------------------------------------------------------------------------
(* The active map *)

Occupied(s) == active[s] # NoTurn

(* ActiveGuard::drop and the defensive removal remove by KEY, whatever     *)
(* handle the entry holds by then.                                         *)
RemoveKey(s) == active' = [active EXCEPT ![s] = NoTurn]

(* The guard exists from the insertion until the task leaves its work, or  *)
(* until the closure of a refused start is destroyed.                      *)
HoldsGuard(t) == call[t] \in {"inserted", "refused"} \/ task[t] = "work"

-----------------------------------------------------------------------------
(* TurnManager::start *)

(* Mutant: the insertion does not look for an entry.                       *)
ClaimBlind(t) ==
  /\ call[t] = "idle"
  /\ call' = [call EXCEPT ![t] = "inserted"]
  /\ active' = [active EXCEPT ![Target[t]] = t]
  /\ UNCHANGED <<task, outcome, state, signal>>
  /\ UNCHANGED callerVars

(* First critical section: an occupied key is TurnAlreadyActive, a free    *)
(* one receives the new handle.                                            *)
Claim(t) ==
  /\ call[t] = "idle"
  /\ \/ /\ Occupied(Target[t])
        /\ call' = [call EXCEPT ![t] = "rejected"]
        /\ UNCHANGED active
     \/ /\ ~Occupied(Target[t])
        /\ call' = [call EXCEPT ![t] = "inserted"]
        /\ active' = [active EXCEPT ![Target[t]] = t]
  /\ UNCHANGED <<task, outcome, state, signal>>
  /\ UNCHANGED callerVars

(* AgentTurn::start finds the state Pending: Running, task spawned.        *)
Launch(t) ==
  /\ call[t] = "inserted"
  /\ state[t] = "Pending"
  /\ state' = [state EXCEPT ![t] = "Running"]
  /\ task' = [task EXCEPT ![t] = "work"]
  /\ call' = [call EXCEPT ![t] = "returned"]
  /\ UNCHANGED <<active, outcome, signal>>
  /\ UNCHANGED callerVars

(* AgentTurn::start finds the turn already cancelled through its handle.   *)
Refuse(t) ==
  /\ call[t] = "inserted"
  /\ state[t] # "Pending"
  /\ call' = [call EXCEPT ![t] = "refused"]
  /\ UNCHANGED <<active, task, outcome, state, signal>>
  /\ UNCHANGED callerVars

(* The closure that was never called is destroyed with the guard it owns.  *)
Unwind(t) ==
  /\ call[t] = "refused"
  /\ call' = [call EXCEPT ![t] = "unwound"]
  /\ RemoveKey(Target[t])
  /\ UNCHANGED <<task, outcome, state, signal>>
  /\ UNCHANGED callerVars

DefensiveRemove(t) ==
  /\ call[t] = "unwound"
  /\ call' = [call EXCEPT ![t] = "failed"]
  /\ RemoveKey(Target[t])
  /\ UNCHANGED <<task, outcome, state, signal>>
  /\ UNCHANGED callerVars

-----------------------------------------------------------------------------
(* The spawned task *)

(* The work returns; its guard is destroyed before the result is seen.     *)
WorkReturns(t) ==
  /\ task[t] = "work"
  /\ \E r \in {"ok", "error"} : outcome' = [outcome EXCEPT ![t] = r]
  /\ task' = [task EXCEPT ![t] = "left"]
  /\ RemoveKey(Target[t])
  /\ UNCHANGED <<call, state, signal>>
  /\ UNCHANGED callerVars

(* Mutant: the entry is removed after the await only, as before D-06.      *)
WorkPanicsNoGuard(t) ==
  /\ task[t] = "work"
  /\ task' = [task EXCEPT ![t] = "dead"]
  /\ UNCHANGED <<active, call, outcome, state, signal>>
  /\ UNCHANGED callerVars

(* The work panics: the guard runs during the unwind, the state is never   *)
(* set.                                                                    *)
WorkPanics(t) ==
  /\ task[t] = "work"
  /\ task' = [task EXCEPT ![t] = "dead"]
  /\ RemoveKey(Target[t])
  /\ UNCHANGED <<call, outcome, state, signal>>
  /\ UNCHANGED callerVars

(* Mutant: the result of the work is matched before the flag.              *)
FinalStateResultFirst(t) ==
  IF outcome[t] = "ok" THEN "Completed"
  ELSE IF signal[t] THEN "Cancelled" ELSE "Failed"

FinalState(t) ==
  IF signal[t] THEN "Cancelled"
  ELSE IF outcome[t] = "ok" THEN "Completed" ELSE "Failed"

Settle(t) ==
  /\ task[t] = "left"
  /\ task' = [task EXCEPT ![t] = "done"]
  /\ state' = [state EXCEPT ![t] = FinalState(t)]
  /\ outcome' = [outcome EXCEPT ![t] = "none"]
  /\ UNCHANGED <<active, call, signal>>
  /\ UNCHANGED callerVars

-----------------------------------------------------------------------------
(* cancel, cancel_and_wait and cancel_all_and_wait *)

Begin(c, k, targets) ==
  /\ pc[c] = "idle"
  /\ pc' = [pc EXCEPT ![c] = "lookup"]
  /\ kind' = [kind EXCEPT ![c] = k]
  /\ pending' = [pending EXCEPT ![c] = targets]
  /\ waiting' = [waiting EXCEPT ![c] = targets]
  /\ UNCHANGED <<handle, hit>>
  /\ UNCHANGED turnVars

Cancel(c, s)        == Begin(c, "cancel", {s})
CancelAndWait(c, s) == Begin(c, "cancel_and_wait", {s})

(* The snapshot of the keys of the map.                                    *)
CancelAllAndWait(c) ==
  Begin(c, "cancel_all_and_wait", {s \in Sessions : Occupied(s)})

(* cancel clones the handle out of the map under its lock.                 *)
Lookup(c, s) ==
  /\ pc[c] = "lookup"
  /\ s \in pending[c]
  /\ Occupied(s)
  /\ handle' = [handle EXCEPT ![c] = active[s]]
  /\ pending' = [pending EXCEPT ![c] = @ \ {s}]
  /\ pc' = [pc EXCEPT ![c] = "signal"]
  /\ UNCHANGED <<kind, waiting, hit>>
  /\ UNCHANGED turnVars

(* No entry: Ok(false), which ends the single-session operations and is    *)
(* not counted by cancel_all_and_wait.                                     *)
LookupMiss(c, s) ==
  /\ pc[c] = "lookup"
  /\ s \in pending[c]
  /\ ~Occupied(s)
  /\ pending' = [pending EXCEPT ![c] = @ \ {s}]
  /\ pc' = [pc EXCEPT ![c] =
              IF kind[c] = "cancel_all_and_wait" THEN "lookup" ELSE "absent"]
  /\ UNCHANGED <<kind, waiting, handle, hit>>
  /\ UNCHANGED turnVars

(* AgentTurnHandle::cancel raises the flag before it takes the turn's lock *)
SendSignal(c) ==
  /\ pc[c] = "signal"
  /\ signal' = [signal EXCEPT ![handle[c]] = TRUE]
  /\ hit' = [hit EXCEPT ![c] = @ \union {handle[c]}]
  /\ pc' = [pc EXCEPT ![c] = "mark"]
  /\ UNCHANGED <<active, call, task, outcome, state>>
  /\ UNCHANGED <<kind, pending, waiting, handle>>

(* ... and, under that lock, records Cancelling unless the turn is over.   *)
MarkCancelling(c) ==
  /\ pc[c] = "mark"
  /\ state' = IF state[handle[c]] \in Terminal
              THEN state
              ELSE [state EXCEPT ![handle[c]] = "Cancelling"]
  /\ pc' = [pc EXCEPT ![c] =
              IF kind[c] = "cancel_all_and_wait" THEN "lookup"
              ELSE IF kind[c] = "cancel" THEN "sent" ELSE "wait"]
  /\ handle' = [handle EXCEPT ![c] = NoTurn]
  /\ UNCHANGED <<active, call, task, outcome, signal>>
  /\ UNCHANGED <<kind, pending, waiting, hit>>

(* cancel_all_and_wait has been through its snapshot.                      *)
AllCancelled(c) ==
  /\ pc[c] = "lookup"
  /\ pending[c] = {}
  /\ pc' = [pc EXCEPT ![c] = "wait"]
  /\ UNCHANGED <<kind, pending, waiting, handle, hit>>
  /\ UNCHANGED turnVars

(* Mutant: the first poll ends the wait whatever it finds.                 *)
PollOnce(c, s) ==
  /\ pc[c] = "wait"
  /\ s \in waiting[c]
  /\ waiting' = [waiting EXCEPT ![c] = @ \ {s}]
  /\ UNCHANGED <<pc, kind, pending, handle, hit>>
  /\ UNCHANGED turnVars

(* A poll of the map finds a session absent.                               *)
PollAbsent(c, s) ==
  /\ pc[c] = "wait"
  /\ s \in waiting[c]
  /\ ~Occupied(s)
  /\ waiting' = [waiting EXCEPT ![c] = @ \ {s}]
  /\ UNCHANGED <<pc, kind, pending, handle, hit>>
  /\ UNCHANGED turnVars

WaitOver(c) ==
  /\ pc[c] = "wait"
  /\ waiting[c] = {}
  /\ pc' = [pc EXCEPT ![c] = "left"]
  /\ UNCHANGED <<kind, pending, waiting, handle, hit>>
  /\ UNCHANGED turnVars

(* The deadline passes.  cancel_and_wait does not look at the map again;   *)
(* cancel_all_and_wait fails only on a session it finds still present.     *)
Deadline(c) ==
  /\ pc[c] = "wait"
  /\ waiting[c] # {}
  /\ kind[c] = "cancel_all_and_wait" => \E s \in waiting[c] : Occupied(s)
  /\ pc' = [pc EXCEPT ![c] = "timeout"]
  /\ UNCHANGED <<kind, pending, waiting, handle, hit>>
  /\ UNCHANGED turnVars

-----------------------------------------------------------------------------
TurnStep(t) ==
  \/ Claim(t)
  \/ Launch(t)
  \/ Refuse(t)
  \/ Unwind(t)
  \/ DefensiveRemove(t)
  \/ WorkReturns(t)
  \/ WorkPanics(t)
  \/ Settle(t)

CallerStep(c) ==
  \/ \E s \in Sessions : Cancel(c, s)
  \/ \E s \in Sessions : CancelAndWait(c, s)
  \/ CancelAllAndWait(c)
  \/ \E s \in Sessions : Lookup(c, s)
  \/ \E s \in Sessions : LookupMiss(c, s)
  \/ SendSignal(c)
  \/ MarkCancelling(c)
  \/ AllCancelled(c)
  \/ \E s \in Sessions : PollAbsent(c, s)
  \/ WaitOver(c)
  \/ Deadline(c)

Next ==
  \/ \E t \in Turns : TurnStep(t)
  \/ \E c \in Callers : CallerStep(c)

(* A start call that has inserted its entry is not abandoned, a task that  *)
(* has left its work sets its state, a caller past its first step finishes *)
(* and time reaches the deadline.  Nothing obliges a work to end, cancelled*)
(* or not: the loop awaits tools.call without looking at the flag          *)
(* (agent_loop.rs:426), and a question to the user ignores it.             *)
CallerProgress(c) ==
  \/ \E s \in Sessions : Lookup(c, s) \/ LookupMiss(c, s) \/ PollAbsent(c, s)
  \/ SendSignal(c) \/ MarkCancelling(c) \/ AllCancelled(c)
  \/ WaitOver(c) \/ Deadline(c)

Fairness ==
  /\ \A t \in Turns :
       /\ WF_vars(Launch(t) \/ Refuse(t) \/ Unwind(t) \/ DefensiveRemove(t))
       /\ WF_vars(Settle(t))
  /\ \A c \in Callers : WF_vars(CallerProgress(c))

Spec == Init /\ [][Next]_vars
FairSpec == Spec /\ Fairness

-----------------------------------------------------------------------------
(* Properties *)

(* A start call refused on session s has performed its defensive removal,  *)
(* possibly on an entry that was no longer its own.                        *)
Disturbed(s) == \E t \in Turns : Target[t] = s /\ call[t] = "failed"

Working(s) == {t \in Turns : Target[t] = s /\ task[t] = "work"}

(* Two works never run at once for one session, and the one that runs can  *)
(* be cancelled: the map holds its handle.  The proviso is a start call    *)
(* cancelled between its insertion and its launch, which removes the key a *)
(* second time (turn_manager.rs:78-82).                                    *)
SoleCancellableWork ==
  \A s \in Sessions : ~Disturbed(s) => Working(s) \subseteq {active[s]}

(* An entry never outlives the guard that must remove it: no path, error   *)
(* and panic included, leaves a session refusing turns for ever (D-06).    *)
EntryHasGuard ==
  \A s \in Sessions : Occupied(s) =>
    Target[active[s]] = s /\ HoldsGuard(active[s])

(* When cancel_and_wait or cancel_all_and_wait reports success, no turn it *)
(* cancelled is still working ("waits until its worker has actually left   *)
(* the active set"), under the same proviso.                               *)
WaitedTurnsLeft ==
  \A c \in Callers : pc[c] = "left" =>
    \A t \in hit[c] : task[t] = "work" => Disturbed(Target[t])

(* A turn marked Cancelling is never reported Completed or Failed: the     *)
(* flag is raised before the mark, so Settle sees it.                      *)
CancellingEndsCancelled ==
  [][\A t \in Turns : state[t] = "Cancelling" =>
        state'[t] \in {"Cancelling", "Cancelled"}]_vars

(* A terminal state is final, whatever cancel calls come after it.         *)
TerminalIsFinal ==
  [][\A t \in Turns : state[t] \in Terminal => state'[t] = state[t]]_vars

(* A turn that claimed its session gives it back, through whichever of the *)
(* three paths (return, panic, refused start) it takes and whatever cancel *)
(* calls meet it on the way; the only turn that keeps its session for ever *)
(* is one whose work never ends.                                           *)
SessionReleased ==
  \A t \in Turns :
    \/ HoldsGuard(t) ~> (~HoldsGuard(t) /\ t \notin {active[s] : s \in Sessions})
    \/ <>[](task[t] = "work")
=============================================================================
