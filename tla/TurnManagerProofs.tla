-------------------------- MODULE TurnManagerProofs --------------------------
(***************************************************************************)
(* Proofs about TurnManager for every set of sessions, turns and callers.  *)
(*                                                                         *)
(* EntryHasGuard says every entry has a guard that will remove it.  Its    *)
(* converse, GuardHasEntry, is what makes SoleCancellableWork inductive: a *)
(* turn about to claim a session finds the entry of any other turn that    *)
(* holds a guard there.  It is the defensive removal that breaks it, hence *)
(* the proviso ~Disturbed, and Disturbed never becomes false again.        *)
(***************************************************************************)
EXTENDS TurnManager, TLAPS

(* A caller that is about to use a handle has cloned one: with this TypeOK *)
(* is inductive.                                                           *)
HandleHeld ==
  \A c \in Callers : pc[c] \in {"signal", "mark"} => handle[c] \in Turns

TypeInv == TypeOK /\ HandleHeld

Claimed(t) == call[t] \notin {"idle", "rejected"}

TaskFollowsCall ==
  \A t \in Turns : task[t] # "none" <=> call[t] = "returned"

GuardHasEntry ==
  \A t \in Turns :
    HoldsGuard(t) /\ ~Disturbed(Target[t]) => active[Target[t]] = t

Released(t) == ~HoldsGuard(t) \/ Disturbed(Target[t])

(* What a caller knows of the turns it has cancelled: their sessions are   *)
(* in its waiting set until a poll finds the session absent, which no turn *)
(* that still holds its guard allows.                                      *)
CallerInv(c) ==
  /\ pc[c] = "idle" => hit[c] = {}
  /\ \A t \in hit[c] : Claimed(t)
  /\ pc[c] \in {"lookup", "signal", "mark"} =>
       /\ pending[c] \subseteq waiting[c]
       /\ \A t \in hit[c] : Target[t] \in waiting[c]
  /\ pc[c] \in {"signal", "mark"} =>
       /\ Claimed(handle[c])
       /\ Target[handle[c]] \in waiting[c]
  /\ pc[c] = "wait" =>
       \A t \in hit[c] : Target[t] \in waiting[c] \/ Released(t)
  /\ pc[c] = "left" => \A t \in hit[c] : Released(t)

CallersInv == \A c \in Callers : CallerInv(c)

MapInv == TypeInv /\ TaskFollowsCall /\ EntryHasGuard /\ GuardHasEntry

IInv == MapInv /\ CallersInv
-----------------------------------------------------------------------------
(* The steps of a caller, with the three operations as one.                *)
LEMMA CallerCases ==
  ASSUME NEW c \in Callers, CallerStep(c)
  PROVE  \/ \E k \in Kinds, targets \in SUBSET Sessions : Begin(c, k, targets)
         \/ \E s \in Sessions : Lookup(c, s) \/ LookupMiss(c, s) \/ PollAbsent(c, s)
         \/ SendSignal(c)
         \/ MarkCancelling(c)
         \/ AllCancelled(c) \/ WaitOver(c) \/ Deadline(c)
<1>1. ASSUME NEW k, NEW targets, Begin(c, k, targets), k \in Kinds,
             targets \in SUBSET Sessions
      PROVE  \E k2 \in Kinds, targets2 \in SUBSET Sessions : Begin(c, k2, targets2)
  BY <1>1
<1>2. CASE \E s \in Sessions : Cancel(c, s)
  <2>1. PICK s \in Sessions : Begin(c, "cancel", {s})
    BY <1>2 DEF Cancel
  <2>2. "cancel" \in Kinds /\ {s} \in SUBSET Sessions
    BY DEF Kinds
  <2>3. QED
    BY <2>1, <2>2, <1>1
<1>3. CASE \E s \in Sessions : CancelAndWait(c, s)
  <2>1. PICK s \in Sessions : Begin(c, "cancel_and_wait", {s})
    BY <1>3 DEF CancelAndWait
  <2>2. "cancel_and_wait" \in Kinds /\ {s} \in SUBSET Sessions
    BY DEF Kinds
  <2>3. QED
    BY <2>1, <2>2, <1>1
<1>4. CASE CancelAllAndWait(c)
  <2> DEFINE keys == {s \in Sessions : Occupied(s)}
  <2>1. Begin(c, "cancel_all_and_wait", keys)
    BY <1>4 DEF CancelAllAndWait
  <2>2. "cancel_all_and_wait" \in Kinds /\ keys \in SUBSET Sessions
    BY DEF Kinds
  <2> HIDE DEF keys
  <2>3. QED
    BY <2>1, <2>2, <1>1
<1>5. QED
  BY <1>2, <1>3, <1>4 DEF CallerStep

LEMMA TypeInvInductive ==
  /\ Init => TypeInv
  /\ TypeInv /\ [Next]_vars => TypeInv'
<1> USE ManagerAssumption
<1>1. Init => TypeInv
  BY DEF Init, TypeInv, TypeOK, HandleHeld, CallStates, TaskStates, TurnStates,
         CallerStates, Kinds
<1>2. ASSUME TypeInv, [Next]_vars
      PROVE  TypeInv'
  <2> USE <1>2 DEF TypeInv, TypeOK, HandleHeld
  <2>1. ASSUME NEW t \in Turns, Claim(t)
        PROVE  TypeInv'
    BY <2>1 DEF Claim, callerVars, CallStates
  <2>2. ASSUME NEW t \in Turns, Launch(t) \/ Refuse(t)
        PROVE  TypeInv'
    BY <2>2 DEF Launch, Refuse, callerVars, CallStates, TaskStates, TurnStates
  <2>3. ASSUME NEW t \in Turns, Unwind(t) \/ DefensiveRemove(t)
        PROVE  TypeInv'
    BY <2>3 DEF Unwind, DefensiveRemove, RemoveKey, callerVars, CallStates
  <2>4. ASSUME NEW t \in Turns, WorkReturns(t) \/ WorkPanics(t)
        PROVE  TypeInv'
    BY <2>4 DEF WorkReturns, WorkPanics, RemoveKey, callerVars, TaskStates
  <2>5. ASSUME NEW t \in Turns, Settle(t)
        PROVE  TypeInv'
    BY <2>5 DEF Settle, FinalState, callerVars, TaskStates, TurnStates, Terminal
  <2>6. ASSUME NEW c \in Callers, NEW k \in Kinds, NEW targets \in SUBSET Sessions,
               Begin(c, k, targets)
        PROVE  TypeInv'
    BY <2>6 DEF Begin, turnVars, CallerStates
  <2>7. ASSUME NEW c \in Callers, NEW s \in Sessions,
               Lookup(c, s) \/ LookupMiss(c, s) \/ PollAbsent(c, s)
        PROVE  TypeInv'
    BY <2>7 DEF Lookup, LookupMiss, PollAbsent, Occupied, turnVars, CallerStates
  <2>8. ASSUME NEW c \in Callers, SendSignal(c)
        PROVE  TypeInv'
    BY <2>8 DEF SendSignal, CallerStates
  <2>9. ASSUME NEW c \in Callers, MarkCancelling(c)
        PROVE  TypeInv'
    BY <2>9 DEF MarkCancelling, CallerStates, TurnStates
  <2>10. ASSUME NEW c \in Callers, AllCancelled(c) \/ WaitOver(c) \/ Deadline(c)
         PROVE  TypeInv'
    BY <2>10 DEF AllCancelled, WaitOver, Deadline, turnVars, CallerStates
  <2>11. CASE UNCHANGED vars
    BY <2>11 DEF vars
  <2>12. ASSUME NEW c \in Callers, CallerStep(c)
         PROVE  TypeInv'
    BY <2>12, CallerCases, <2>6, <2>7, <2>8, <2>9, <2>10
  <2>13. ASSUME NEW t \in Turns, TurnStep(t)
         PROVE  TypeInv'
    BY <2>13, <2>1, <2>2, <2>3, <2>4, <2>5 DEF TurnStep
  <2>14. QED
    BY <1>2, <2>11, <2>12, <2>13 DEF Next
<1>3. QED
  BY <1>1, <1>2

(* Every variable keeps its type: TypeOK for all sessions, turns, callers. *)
THEOREM TypeCorrect == Spec => []TypeOK
<1>1. Spec => []TypeInv
  BY TypeInvInductive, PTL DEF Spec
<1>2. QED
  BY <1>1, PTL DEF TypeInv

-----------------------------------------------------------------------------
(* The defensive removal leaves its mark for good.                         *)
LEMMA DisturbedStays ==
  ASSUME TypeInv, [Next]_vars, NEW s \in Sessions, Disturbed(s)
  PROVE  Disturbed(s)'
<1>1. PICK t \in Turns : Target[t] = s /\ call[t] = "failed"
  BY DEF Disturbed
<1>2. ASSUME NEW u \in Turns, TurnStep(u)
      PROVE  call'[t] = "failed"
  BY <1>1, <1>2 DEF TurnStep, Claim, Launch, Refuse, Unwind, DefensiveRemove,
     WorkReturns, WorkPanics, Settle, TypeInv, TypeOK
<1>3. ASSUME NEW c \in Callers, CallerStep(c)
      PROVE  call'[t] = "failed"
  BY <1>1, <1>3, CallerCases DEF Begin, Lookup, LookupMiss, PollAbsent, SendSignal,
     MarkCancelling, AllCancelled, WaitOver, Deadline, turnVars
<1>4. call'[t] = "failed"
  BY <1>1, <1>2, <1>3 DEF Next, vars
<1>5. QED
  BY <1>1, <1>4 DEF Disturbed

(* A caller reads the map and the turns, it moves none of them.            *)
LEMMA CallerLeavesMap ==
  ASSUME NEW c \in Callers, CallerStep(c)
  PROVE  UNCHANGED <<active, call, task>>
BY CallerCases DEF Begin, Lookup, LookupMiss, PollAbsent, SendSignal,
   MarkCancelling, AllCancelled, WaitOver, Deadline, turnVars

LEMMA MapInvInductive ==
  /\ Init => MapInv
  /\ MapInv /\ [Next]_vars => MapInv'
<1> USE ManagerAssumption
<1> DEFINE MapParts == TaskFollowsCall /\ EntryHasGuard /\ GuardHasEntry
<1>1. Init => MapInv
  BY TypeInvInductive DEF Init, MapInv, TaskFollowsCall, EntryHasGuard,
     GuardHasEntry, Occupied, HoldsGuard
<1>2. ASSUME MapInv, [Next]_vars
      PROVE  MapParts'
  <2> USE DEF MapInv, TypeInv, TypeOK
  <2>1. ASSUME UNCHANGED <<active, call, task>>
        PROVE  MapParts'
    BY <1>2, <2>1 DEF TaskFollowsCall, EntryHasGuard, GuardHasEntry, Occupied,
       HoldsGuard, Disturbed
  <2>2. ASSUME NEW t \in Turns, Claim(t)
        PROVE  MapParts'
    <3>1. CASE Occupied(Target[t])
      BY <1>2, <2>2, <3>1 DEF Claim, TaskFollowsCall, EntryHasGuard, GuardHasEntry,
         Occupied, HoldsGuard, Disturbed
    <3>2. CASE ~Occupied(Target[t])
      <4>1. TaskFollowsCall'
        BY <1>2, <2>2, <3>2 DEF Claim, TaskFollowsCall
      <4>2. EntryHasGuard'
        BY <1>2, <2>2, <3>2 DEF Claim, EntryHasGuard, Occupied, HoldsGuard
      <4>3. GuardHasEntry'
        BY <1>2, <2>2, <3>2 DEF Claim, GuardHasEntry, TaskFollowsCall, Occupied,
           HoldsGuard, Disturbed
      <4>4. QED
        BY <4>1, <4>2, <4>3
    <3>3. QED
      BY <3>1, <3>2
  <2>3. ASSUME NEW t \in Turns, Launch(t) \/ Refuse(t)
        PROVE  MapParts'
    BY <1>2, <2>3 DEF Launch, Refuse, TaskFollowsCall, EntryHasGuard, GuardHasEntry,
       Occupied, HoldsGuard, Disturbed
  <2>4. ASSUME NEW t \in Turns,
               Unwind(t) \/ DefensiveRemove(t) \/ WorkReturns(t) \/ WorkPanics(t)
        PROVE  MapParts'
    <3> USE DEF Unwind, DefensiveRemove, WorkReturns, WorkPanics, RemoveKey
    <3>1. TaskFollowsCall'
      BY <1>2, <2>4 DEF TaskFollowsCall
    <3>2. EntryHasGuard'
      BY <1>2, <2>4 DEF EntryHasGuard, TaskFollowsCall, Occupied, HoldsGuard
    <3>3. GuardHasEntry'
      BY <1>2, <2>4 DEF GuardHasEntry, TaskFollowsCall, Occupied, HoldsGuard, Disturbed
    <3>4. QED
      BY <3>1, <3>2, <3>3
  <2>5. ASSUME NEW t \in Turns, Settle(t)
        PROVE  MapParts'
    BY <1>2, <2>5 DEF Settle, TaskFollowsCall, EntryHasGuard, GuardHasEntry,
       Occupied, HoldsGuard, Disturbed
  <2>6. ASSUME NEW t \in Turns, TurnStep(t)
        PROVE  MapParts'
    BY <2>6, <2>2, <2>3, <2>4, <2>5 DEF TurnStep
  <2>7. ASSUME NEW c \in Callers, CallerStep(c)
        PROVE  MapParts'
    BY <2>7, CallerLeavesMap, <2>1
  <2>8. QED
    BY <1>2, <2>1, <2>6, <2>7 DEF Next, vars
<1>3. QED
  BY <1>1, <1>2, TypeInvInductive DEF MapInv

(* One work per session, and the map holds its handle: SoleCancellableWork *)
(* for all constants, from EntryHasGuard and its converse.                 *)
THEOREM MutualExclusion == Spec => []SoleCancellableWork
<1>1. MapInv => SoleCancellableWork
  BY DEF MapInv, GuardHasEntry, SoleCancellableWork, Working, HoldsGuard
<1>2. Spec => []MapInv
  BY MapInvInductive, PTL DEF Spec
<1>3. QED
  BY <1>1, <1>2, PTL

(* No entry outlives its guard, whatever path its turn takes.              *)
THEOREM NoZombieEntry == Spec => []EntryHasGuard
<1>1. Spec => []MapInv
  BY MapInvInductive, PTL DEF Spec
<1>2. QED
  BY <1>1, PTL DEF MapInv

-----------------------------------------------------------------------------
(* A turn that has been claimed stays claimed, and once released (its      *)
(* guard gone, or its session disturbed) it stays released.                *)
LEMMA ReleasedStays ==
  ASSUME MapInv, [Next]_vars, NEW t \in Turns, Claimed(t)
  PROVE  /\ Claimed(t)'
         /\ Released(t) => Released(t)'
<1> USE ManagerAssumption DEF MapInv, TypeInv, TypeOK
<1>1. ASSUME NEW u \in Turns, TurnStep(u)
      PROVE  Claimed(t)' /\ (~HoldsGuard(t) => ~HoldsGuard(t)')
  BY <1>1 DEF TurnStep, Claim, Launch, Refuse, Unwind, DefensiveRemove, WorkReturns,
     WorkPanics, Settle, Claimed, HoldsGuard, TaskFollowsCall
<1>2. ASSUME NEW c \in Callers, CallerStep(c)
      PROVE  Claimed(t)' /\ (~HoldsGuard(t) => ~HoldsGuard(t)')
  BY <1>2, CallerLeavesMap DEF Claimed, HoldsGuard
<1>3. Claimed(t)' /\ (~HoldsGuard(t) => ~HoldsGuard(t)')
  BY <1>1, <1>2 DEF Next, vars, Claimed, HoldsGuard
<1>4. Disturbed(Target[t]) => Disturbed(Target[t])'
  BY DisturbedStays
<1>5. QED
  BY <1>3, <1>4 DEF Released

(* An absent session has no turn that holds its guard there.               *)
LEMMA AbsentMeansReleased ==
  ASSUME MapInv, NEW t \in Turns, ~Occupied(Target[t])
  PROVE  Released(t)
BY ManagerAssumption DEF MapInv, GuardHasEntry, Released, Occupied

LEMMA CallersInvInductive ==
  /\ Init => IInv
  /\ IInv /\ [Next]_vars => IInv'
<1> USE ManagerAssumption
<1>1. Init => IInv
  BY MapInvInductive DEF Init, IInv, CallersInv, CallerInv
<1>2. ASSUME IInv, [Next]_vars, NEW c \in Callers
      PROVE  CallerInv(c)'
  <2> USE DEF IInv, MapInv, TypeInv, TypeOK
  <2>1. CallerInv(c) /\ hit[c] \subseteq Turns
    BY <1>2 DEF CallersInv
  <2>2. \A t \in Turns : Claimed(t) =>
          Claimed(t)' /\ (Released(t) => Released(t)')
    BY <1>2, ReleasedStays
  <2>3. CASE UNCHANGED <<pc[c], pending[c], waiting[c], handle[c], hit[c]>>
    BY <1>2, <2>1, <2>2, <2>3 DEF CallerInv, HandleHeld
  <2>4. ASSUME NEW k \in Kinds, NEW targets \in SUBSET Sessions, Begin(c, k, targets)
        PROVE  CallerInv(c)'
    BY <1>2, <2>1, <2>4 DEF Begin, CallerInv
  <2>5. ASSUME NEW s \in Sessions, Lookup(c, s)
        PROVE  CallerInv(c)'
    <3>1. active[s] \in Turns /\ Target[active[s]] = s /\ Claimed(active[s])
      BY <1>2, <2>5 DEF Lookup, Occupied, EntryHasGuard, HoldsGuard, TaskFollowsCall,
         Claimed
    <3>2. QED
      BY <1>2, <2>1, <2>2, <2>5, <3>1 DEF Lookup, CallerInv
  <2>6. ASSUME NEW s \in Sessions, LookupMiss(c, s)
        PROVE  CallerInv(c)'
    BY <1>2, <2>1, <2>2, <2>6 DEF LookupMiss, CallerInv
  <2>7. ASSUME NEW s \in Sessions, PollAbsent(c, s)
        PROVE  CallerInv(c)'
    <3>1. \A t \in hit[c] : Target[t] = s => Released(t)
      BY <1>2, <2>1, <2>7, AbsentMeansReleased DEF PollAbsent
    <3>2. QED
      BY <1>2, <2>1, <2>2, <2>7, <3>1 DEF PollAbsent, CallerInv
  <2>8. ASSUME SendSignal(c)
        PROVE  CallerInv(c)'
    BY <1>2, <2>1, <2>2, <2>8 DEF SendSignal, CallerInv, HandleHeld
  <2>9. ASSUME MarkCancelling(c)
        PROVE  CallerInv(c)'
    BY <1>2, <2>1, <2>2, <2>9 DEF MarkCancelling, CallerInv
  <2>10. ASSUME AllCancelled(c) \/ WaitOver(c) \/ Deadline(c)
         PROVE  CallerInv(c)'
    BY <1>2, <2>1, <2>2, <2>10 DEF AllCancelled, WaitOver, Deadline, CallerInv
  <2>11. ASSUME NEW t \in Turns, TurnStep(t)
         PROVE  CallerInv(c)'
    BY <2>11, <2>3 DEF TurnStep, Claim, Launch, Refuse, Unwind, DefensiveRemove,
       WorkReturns, WorkPanics, Settle, callerVars
  <2>12. ASSUME NEW d \in Callers, d # c, CallerStep(d)
         PROVE  CallerInv(c)'
    BY <1>2, <2>12, <2>3, CallerCases DEF Begin, Lookup, LookupMiss, PollAbsent,
       SendSignal, MarkCancelling, AllCancelled, WaitOver, Deadline
  <2>13. ASSUME CallerStep(c)
         PROVE  CallerInv(c)'
    BY <2>13, CallerCases, <2>4, <2>5, <2>6, <2>7, <2>8, <2>9, <2>10
  <2>14. QED
    BY <1>2, <2>3, <2>11, <2>12, <2>13 DEF Next, vars
<1>3. QED
  BY <1>1, <1>2, MapInvInductive DEF IInv, CallersInv

(* A successful cancel_and_wait or cancel_all_and_wait has outlived the    *)
(* works it cancelled: WaitedTurnsLeft for all constants.                  *)
THEOREM WaitIsHonest == Spec => []WaitedTurnsLeft
<1>1. IInv => WaitedTurnsLeft
  BY DEF IInv, CallersInv, CallerInv, WaitedTurnsLeft, Released, HoldsGuard
<1>2. Spec => []IInv
  BY CallersInvInductive, PTL DEF Spec
<1>3. QED
  BY <1>1, <1>2, PTL
-----------------------------------------------------------------------------
(* The flag is raised before Cancelling is recorded, by the caller that    *)
(* records it, and is never lowered; a state is terminal only once the     *)
(* task has set it.                                                        *)
FlagBeforeMark ==
  /\ \A t \in Turns : state[t] = "Cancelling" => signal[t]
  /\ \A c \in Callers : pc[c] = "mark" => signal[handle[c]]

TerminalIsDone ==
  \A t \in Turns : state[t] \in Terminal => task[t] = "done"

StateInv == TypeInv /\ FlagBeforeMark /\ TerminalIsDone

LEMMA StateInvInductive ==
  /\ Init => StateInv
  /\ StateInv /\ [Next]_vars => StateInv'
<1> USE ManagerAssumption DEF FlagBeforeMark, TerminalIsDone
<1> DEFINE Parts == FlagBeforeMark /\ TerminalIsDone
<1>1. Init => StateInv
  BY TypeInvInductive DEF Init, StateInv, Terminal
<1>2. ASSUME StateInv, [Next]_vars
      PROVE  Parts'
  <2> USE DEF StateInv, TypeInv, TypeOK, HandleHeld
  <2>1. ASSUME UNCHANGED <<state, signal, task, pc, handle>>
        PROVE  Parts'
    BY <1>2, <2>1
  <2>2. ASSUME NEW t \in Turns, Claim(t) \/ Refuse(t) \/ Unwind(t) \/ DefensiveRemove(t)
        PROVE  Parts'
    BY <2>2, <2>1 DEF Claim, Refuse, Unwind, DefensiveRemove, callerVars
  <2>3. ASSUME NEW t \in Turns, Launch(t)
        PROVE  Parts'
    BY <1>2, <2>3 DEF Launch, callerVars, Terminal
  <2>4. ASSUME NEW t \in Turns, WorkReturns(t) \/ WorkPanics(t)
        PROVE  Parts'
    BY <1>2, <2>4 DEF WorkReturns, WorkPanics, callerVars
  <2>5. ASSUME NEW t \in Turns, Settle(t)
        PROVE  Parts'
    BY <1>2, <2>5 DEF Settle, FinalState, callerVars
  <2>6. ASSUME NEW c \in Callers, NEW k \in Kinds, NEW targets \in SUBSET Sessions,
               Begin(c, k, targets)
        PROVE  Parts'
    BY <1>2, <2>6 DEF Begin, turnVars
  <2>7. ASSUME NEW c \in Callers, NEW s \in Sessions,
               Lookup(c, s) \/ LookupMiss(c, s) \/ PollAbsent(c, s)
        PROVE  Parts'
    BY <1>2, <2>7 DEF Lookup, LookupMiss, PollAbsent, turnVars
  <2>8. ASSUME NEW c \in Callers, SendSignal(c)
        PROVE  Parts'
    BY <1>2, <2>8 DEF SendSignal
  <2>9. ASSUME NEW c \in Callers, MarkCancelling(c)
        PROVE  Parts'
    BY <1>2, <2>9 DEF MarkCancelling, Terminal
  <2>10. ASSUME NEW c \in Callers, AllCancelled(c) \/ WaitOver(c) \/ Deadline(c)
         PROVE  Parts'
    BY <1>2, <2>10 DEF AllCancelled, WaitOver, Deadline, turnVars
  <2>11. ASSUME NEW c \in Callers, CallerStep(c)
         PROVE  Parts'
    BY <2>11, CallerCases, <2>6, <2>7, <2>8, <2>9, <2>10
  <2>12. ASSUME NEW t \in Turns, TurnStep(t)
         PROVE  Parts'
    BY <2>12, <2>2, <2>3, <2>4, <2>5 DEF TurnStep
  <2>13. QED
    BY <1>2, <2>1, <2>11, <2>12 DEF Next, vars
<1>3. QED
  BY <1>1, <1>2, TypeInvInductive DEF StateInv

(* How any step may move the state of a turn.                              *)
LEMMA StateMoves ==
  ASSUME StateInv, [Next]_vars, NEW t \in Turns
  PROVE  /\ state[t] \in Terminal => state'[t] = state[t]
         /\ state[t] = "Cancelling" => state'[t] \in {"Cancelling", "Cancelled"}
<1> USE DEF StateInv, TypeInv, TypeOK, HandleHeld, FlagBeforeMark, TerminalIsDone
<1>1. ASSUME NEW u \in Turns, TurnStep(u)
      PROVE  /\ state[t] \in Terminal => state'[t] = state[t]
             /\ state[t] = "Cancelling" => state'[t] \in {"Cancelling", "Cancelled"}
  <2>1. CASE Launch(u)
    BY <2>1 DEF Launch, Terminal
  <2>2. CASE Settle(u)
    BY <2>2 DEF Settle, FinalState
  <2>3. CASE state' = state
    BY <2>3
  <2>4. QED
    BY <1>1, <2>1, <2>2, <2>3 DEF TurnStep, Claim, Refuse, Unwind, DefensiveRemove,
       WorkReturns, WorkPanics
<1>2. ASSUME NEW c \in Callers, CallerStep(c)
      PROVE  /\ state[t] \in Terminal => state'[t] = state[t]
             /\ state[t] = "Cancelling" => state'[t] \in {"Cancelling", "Cancelled"}
  <2>1. CASE MarkCancelling(c)
    BY <2>1 DEF MarkCancelling
  <2>2. CASE state' = state
    BY <2>2
  <2>3. QED
    BY <1>2, CallerCases, <2>1, <2>2 DEF Begin, Lookup, LookupMiss, PollAbsent,
       SendSignal, AllCancelled, WaitOver, Deadline, turnVars
<1>3. QED
  BY <1>1, <1>2 DEF Next, vars

(* A turn that ended stays ended as it did: TerminalIsFinal for all        *)
(* constants.                                                              *)
THEOREM EndingsAreFinal == Spec => TerminalIsFinal
<1>1. StateInv /\ [Next]_vars =>
        [\A t \in Turns : state[t] \in Terminal => state'[t] = state[t]]_vars
  BY StateMoves
<1>2. Spec => []StateInv
  BY StateInvInductive, PTL DEF Spec
<1>3. QED
  BY <1>1, <1>2, PTL DEF Spec, TerminalIsFinal

(* A turn seen Cancelling is reported Cancelled, never Completed or        *)
(* Failed: CancellingEndsCancelled for all constants.                      *)
THEOREM CancellationIsReported == Spec => CancellingEndsCancelled
<1>1. StateInv /\ [Next]_vars =>
        [\A t \in Turns : state[t] = "Cancelling" =>
            state'[t] \in {"Cancelling", "Cancelled"}]_vars
  BY StateMoves
<1>2. Spec => []StateInv
  BY StateInvInductive, PTL DEF Spec
<1>3. QED
  BY <1>1, <1>2, PTL DEF Spec, CancellingEndsCancelled
=============================================================================
