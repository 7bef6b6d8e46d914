-------------------------- MODULE SessionStoreProofs --------------------------
(***************************************************************************)
(* Proofs about SessionStore for any processes, tasks, workloads and       *)
(* numbers of crashes.                                                     *)
(*                                                                         *)
(* Each property of the store says that something goes wrong only after    *)
(* one of the interleavings in `hazards`.  So each part of the invariant   *)
(* says what holds as long as those have not happened.                     *)
(***************************************************************************)
EXTENDS SessionStore, FiniteSetTheorems, TLAPS

(* Which operation is where.                                               *)
TurnsOnly == {"probe", "steal", "recreate", "write", "enter", "load", "working"} \union Leaving

KindsKept ==
  \A t \in Tasks :
    /\ pc[t] \in TurnsOnly => Kind[t] = "turn"
    /\ pc[t] \in {"stage", "replace"} => Kind[t] \in {"turn", "update"}
    /\ pc[t] = "cold" => Kind[t] = "update"

(* Who works under the lock of its process has it.                         *)
Locking == {"load", "cold", "stage", "replace"}

LockKept ==
  \A t \in Tasks :
    /\ pc[t] \in Locking => lock[Home[t]] = t
    /\ pc[t] = "load" => Entry(t) = NoEntry

(* The sentinel names a turn, and no incarnation to come.                  *)
WriterKept ==
  busy # NoBusy =>
    /\ Kind[busy.task] = "turn"
    /\ busy.life <= life[Home[busy.task]]
    /\ up[Home[busy.task]] = "down" => busy.life < life[Home[busy.task]]

(* A turn that has the session has the sentinel.                           *)
HolderKept ==
  hazards \intersect Seizures = {} =>
    \A t \in Holders : busy # NoBusy /\ busy.task = t

(* A turn at work finds its generation.                                    *)
GenerationKept ==
  hazards \intersect ({"stale_fill"} \union Seizures) = {} =>
    \A t \in Tasks :
      /\ pc[t] \notin {"drop_deleted", "drop_stale", "deleted", "stale"}
      /\ pc[t] = "working" => Entry(t) # NoEntry /\ Entry(t).generation = gen[t]

(* Nobody works on a session that is gone.                                 *)
Writing == {"working", "stage", "replace"}

DeletionKept ==
  hazards \intersect {"overlap", "stale_cache"} = {} =>
    /\ deleted => disk = NoSession
    /\ (\E t \in Tasks : pc[t] \in Writing) => disk # NoSession

(* What is told Ok is in the file: who is about to write it adds to what   *)
(* the file holds, and a turn that works on an older session has lost the  *)
(* generation.                                                             *)
Records(session, t) == t \in (IF Kind[t] = "turn" THEN session.turns ELSE session.config)

WorkKept ==
  \A t \in Tasks : pc[t] = "working" =>
    /\ Entry(t) # NoEntry /\ gen[t] <= Entry(t).generation
    /\ gen[t] = Entry(t).generation => Entry(t).session = disk /\ copy[t].turns = disk.turns

WriteKept ==
  \A t \in Tasks : pc[t] \in {"stage", "replace"} =>
    /\ disk.turns \subseteq copy[t].turns /\ disk.config \subseteq copy[t].config
    /\ Records(copy[t], t)
    /\ Kind[t] = "update" => copy[t].turns = disk.turns
    /\ Kind[t] = "turn" => Entry(t) # NoEntry /\ Entry(t).generation = gen[t]
    /\ pc[t] = "replace" => tmp \in {NoSession, copy[t]}

GenerationsDiffer ==
  \A t, o \in Tasks :
    ( /\ t # o /\ Home[t] = Home[o] /\ Kind[t] = "turn" /\ Kind[o] = "turn"
      /\ pc[t] \in Writing /\ pc[o] \in Writing ) => gen[t] # gen[o]

CommitsOnFile ==
  /\ disk # NoSession => \A t \in committed : Records(disk, t)
  /\ \A t \in Tasks : pc[t] \in Writing => disk # NoSession
  /\ WorkKept /\ WriteKept /\ GenerationsDiffer

CommitKept ==
  hazards \intersect {"overlap", "stale_cache", "stale_fill"} = {} => CommitsOnFile

StoreInv ==
  /\ TypeOK /\ KindsKept /\ LockKept
  /\ WriterKept /\ SentinelNotLeaked
  /\ HolderKept /\ GenerationKept /\ DeletionKept /\ CommitKept
-----------------------------------------------------------------------------
(* Types.                                                                  *)

LEMMA Incarnations ==
  /\ Lives \subseteq Nat
  /\ \A p \in Procs : 0 \in Lives
  /\ \A p \in Procs, n \in Nat : n < MaxCrashes[p] => n + 1 \in Lives
<1>1. MaxCrashes \in [Procs -> Nat]
  BY StoreAssumption
<1>2. \A n : n \in Lives <=> \E p \in Procs : n \in 0..MaxCrashes[p]
  BY DEF Lives
<1>3. QED
  BY <1>1, <1>2

LEMMA SessionTypes ==
  /\ Fresh \in SessionValues
  /\ \A s \in SessionValues, t \in Tasks :
       /\ s.turns \subseteq Tasks /\ s.config \subseteq Tasks
       /\ Adjusted(t, s) \in SessionValues
       /\ Adjusted(t, s).turns = s.turns /\ Adjusted(t, s).config = s.config \union {t}
  /\ \A turns \in SUBSET Tasks, config \in SUBSET Tasks :
       [turns |-> turns, config |-> config] \in SessionValues
<1>1. \A s \in SessionValues : s = [turns |-> s.turns, config |-> s.config]
  BY DEF SessionValues
<1>2. QED
  BY <1>1 DEF Fresh, SessionValues, Adjusted

LEMMA EntryTypes ==
  ASSUME TypeOK
  PROVE  /\ \A e \in Entries : e.session \in SessionValues /\ e.generation \in Nat
         /\ \A s \in SessionValues, n \in Nat : [session |-> s, generation |-> n] \in Entries
         /\ \A t \in Tasks :
              /\ Home[t] \in Procs
              /\ Entry(t) # NoEntry => Entry(t) \in Entries
              /\ copy[t] \in SessionValues /\ gen[t] \in Nat /\ pc[t] \in Progress
BY StoreAssumption DEF TypeOK, Entry, Entries

LEMMA SentinelTypes ==
  ASSUME TypeOK
  PROVE  /\ \A t \in Tasks :
              /\ [task |-> t, life |-> life[Home[t]], text |-> FALSE, kept |-> FALSE] \in Sentinels
              /\ [task |-> t, life |-> life[Home[t]], text |-> TRUE, kept |-> FALSE] \in Sentinels
              /\ [task |-> t, life |-> life[Home[t]], text |-> FALSE, kept |-> TRUE] \in Sentinels
         /\ busy # NoBusy =>
              /\ busy.task \in Tasks /\ busy.life \in Nat
              /\ Home[busy.task] \in Procs
         /\ \A p \in Procs : life[p] \in Nat
BY StoreAssumption, Incarnations DEF TypeOK, Sentinels

(* A removal that fails leaves the sentinel, marked if it is one's own.    *)
LEMMA Removals ==
  ASSUME TypeOK
  PROVE  /\ RemoveSentinel => busy' \in {busy, NoBusy}
         /\ \A t \in Tasks : ReleaseSentinel(t) =>
              /\ busy' \in Sentinels \union {NoBusy}
              /\ \/ busy' = NoBusy \/ busy' = busy
                 \/ /\ busy # NoBusy /\ busy.task = t
                    /\ busy'.task = t /\ busy'.life = busy.life /\ busy'.kept
              /\ busy' # NoBusy => busy # NoBusy /\ (busy.task = t => busy'.kept)
<1>1. RemoveSentinel => busy' \in {busy, NoBusy}
  BY DEF RemoveSentinel
<1>2. ASSUME NEW t \in Tasks, ReleaseSentinel(t), busy # NoBusy, busy.task = t, busy' # NoBusy
      PROVE  /\ busy' \in Sentinels /\ busy'.task = t
             /\ busy'.life = busy.life /\ busy'.kept
  <2>1. busy \in Sentinels /\ busy' = [busy EXCEPT !.kept = TRUE]
    BY <1>2 DEF TypeOK, ReleaseSentinel
  <2>2. QED
    BY <1>2, <2>1 DEF Sentinels
<1>3. ASSUME NEW t \in Tasks, ReleaseSentinel(t), busy = NoBusy \/ busy.task # t
      PROVE  busy' = NoBusy \/ (busy' = busy /\ busy' \in Sentinels \union {NoBusy})
  BY <1>3 DEF TypeOK, ReleaseSentinel
<1>4. QED
  BY <1>1, <1>2, <1>3

(* A step moves one task, and touches the map and the lock of its process. *)
LEMMA Moves ==
  ASSUME TypeOK, NEW t \in Tasks
  PROVE  /\ \A l \in Progress : Goto(t, l) =>
              /\ pc' \in [Tasks -> Progress] /\ pc'[t] = l
              /\ \A o \in Tasks : o # t => pc'[o] = pc[o]
         /\ \A e \in Entries \union {NoEntry} : SetEntry(t, e) =>
              /\ live' \in [Procs -> Entries \union {NoEntry}] /\ live'[Home[t]] = e
              /\ \A p \in Procs : p # Home[t] => live'[p] = live[p]
         /\ TakeLock(t) =>
              /\ lock' \in [Procs -> Tasks \union {NoTask}] /\ lock'[Home[t]] = t
              /\ \A p \in Procs : p # Home[t] => lock'[p] = lock[p]
         /\ GiveLock(t) =>
              /\ lock' \in [Procs -> Tasks \union {NoTask}] /\ lock'[Home[t]] = NoTask
              /\ \A p \in Procs : p # Home[t] => lock'[p] = lock[p]
BY StoreAssumption DEF TypeOK, Goto, SetEntry, TakeLock, GiveLock

LEMMA Copies ==
  ASSUME TypeOK, NEW t \in Tasks
  PROVE  /\ \A s \in SessionValues : copy' = [copy EXCEPT ![t] = s] =>
              /\ copy' \in [Tasks -> SessionValues] /\ copy'[t] = s
              /\ \A o \in Tasks : o # t => copy'[o] = copy[o]
         /\ \A n \in Nat : gen' = [gen EXCEPT ![t] = n] =>
              /\ gen' \in [Tasks -> Nat] /\ gen'[t] = n
              /\ \A o \in Tasks : o # t => gen'[o] = gen[o]
BY DEF TypeOK

(* After a commit the live entry, if there is one, has the new session.    *)
LEMMA EntryMerged ==
  ASSUME TypeOK, NEW t \in Tasks,
         live' = IF Entry(t) = NoEntry THEN live
                 ELSE [live EXCEPT ![Home[t]].session = copy[t]]
  PROVE  /\ live' \in [Procs -> Entries \union {NoEntry}]
         /\ \A p \in Procs : p # Home[t] => live'[p] = live[p]
         /\ Entry(t) = NoEntry => live' = live
         /\ Entry(t) # NoEntry =>
              live'[Home[t]] = [session |-> copy[t], generation |-> Entry(t).generation]
<1> DEFINE e == [Entry(t) EXCEPT !.session = copy[t]]
<1>1. CASE Entry(t) = NoEntry
  BY <1>1 DEF TypeOK
<1>2. CASE Entry(t) # NoEntry
  <2>1. Entry(t) \in Entries /\ Home[t] \in Procs
    BY <1>2, EntryTypes
  <2>2. e = [session |-> copy[t], generation |-> Entry(t).generation]
    BY <2>1 DEF Entries
  <2>3. e \in Entries
    BY <2>1, <2>2, EntryTypes
  <2>4. live' = [live EXCEPT ![Home[t]] = e]
    BY <1>2 DEF Entry
  <2> HIDE DEF e
  <2>5. QED
    BY <1>2, <2>1, <2>2, <2>3, <2>4 DEF TypeOK
<1>3. QED
  BY <1>1, <1>2

LEMMA Places ==
  /\ \A l \in {"idle", "probe", "steal", "recreate", "cold", "fetch", "fill",
               "remove_file", "remove_busy", "write", "enter", "load", "working",
               "stage", "replace", "abandon", "release", "drop_deleted", "drop_stale",
               "drop_io", "done", "refused", "io_error", "not_found", "deleted",
               "stale", "failed", "panicked", "dead", "uncalled"} : l \in Progress
  /\ \A h \in {"steal_race", "sweep", "overlap", "late_release", "stale_cache",
               "stale_fill"} : h \in Hazards
BY DEF Progress, Owning, Leaving, Ended, Hazards

LEMMA TypeInductive ==
  /\ Init => TypeOK
  /\ TypeOK /\ [Next]_vars => TypeOK'
<1>1. Init => TypeOK
  <2>1. SUFFICES ASSUME Init
                 PROVE  TypeOK
    OBVIOUS
  <2>2. pc \in [Tasks -> Progress]
    BY <2>1 DEF Init, Progress, Ended
  <2>3. life \in [Procs -> Lives]
    BY <2>1, Incarnations DEF Init
  <2>4. QED
    BY <2>1, <2>2, <2>3, SessionTypes DEF Init, TypeOK
<1>2. ASSUME TypeOK, [Next]_vars
      PROVE  TypeOK'
  <2> DEFINE Goal == TypeOK'
  <2>0. TypeOK
    BY <1>2
  <2>1. ASSUME NEW t \in Tasks, AcquireBusy(t)
         PROVE  Goal
    <3>1. busy' \in Sentinels \union {NoBusy}
      BY <2>1, <2>0, SentinelTypes DEF AcquireBusy, CreateBusy, OwnBusy, TypeOK
    <3>2. QED
      BY <2>1, <2>0, <3>1, Moves, Places
         DEF AcquireBusy, CreateBusy, OwnBusy, Runs, TypeOK, files, memory, procs, history
  <2>2. ASSUME NEW t \in Tasks, Probe(t)
         PROVE  Goal
    BY <2>2, <2>0, Moves, Places DEF Probe, Runs, TypeOK, files, memory, procs, history
  <2>3. ASSUME NEW t \in Tasks, Steal(t)
         PROVE  Goal
    BY <2>3, <2>0, Moves, Places, Removals DEF Steal, Runs, Mark, TypeOK, files, memory, procs,
       history
  <2>4. ASSUME NEW t \in Tasks, Recreate(t)
         PROVE  Goal
    <3>1. busy' \in Sentinels \union {NoBusy}
      BY <2>4, <2>0, SentinelTypes DEF Recreate, CreateBusy, OwnBusy, TypeOK
    <3>2. QED
      BY <2>4, <2>0, <3>1, Moves, Places
         DEF Recreate, CreateBusy, OwnBusy, Runs, TypeOK, files, memory, procs, history
  <2>5. ASSUME NEW t \in Tasks, WriteBusy(t)
         PROVE  Goal
    <3>1. busy' \in Sentinels \union {NoBusy}
      BY <2>5, <2>0, SentinelTypes, Removals DEF WriteBusy, OwnBusy, Mark, TypeOK
    <3>2. QED
      BY <2>5, <2>0, <3>1, Moves, Places
         DEF WriteBusy, OwnBusy, Mark, Runs, TypeOK, files, memory, procs, history
  <2>6. ASSUME NEW t \in Tasks, Enter(t)
         PROVE  Goal
    <3>1. CASE Entry(t) = NoEntry
      BY <2>6, <2>0, <3>1, Moves, Places
         DEF Enter, Runs, TypeOK, files, memory, procs, history
    <3>2. CASE Entry(t) # NoEntry
      <4> DEFINE e == [Entry(t) EXCEPT !.generation = @ + 1]
      <4>1. /\ Entry(t) \in Entries /\ Entry(t).session \in SessionValues
            /\ Entry(t).generation \in Nat
        BY <2>0, <3>2, EntryTypes
      <4>2. e = [session |-> Entry(t).session, generation |-> Entry(t).generation + 1]
        BY <4>1 DEF Entries
      <4>3. e \in Entries
        BY <4>1, <4>2, EntryTypes, <2>0
      <4>4. /\ SetEntry(t, e) /\ Goto(t, "working") /\ Mark("stale_cache", Entry(t).session # disk)
            /\ gen' = [gen EXCEPT ![t] = Entry(t).generation + 1]
            /\ copy' = [copy EXCEPT ![t] = Entry(t).session]
            /\ UNCHANGED lock /\ UNCHANGED <<files, busy, procs>>
        BY <2>6, <3>2 DEF Enter
      <4> HIDE DEF e
      <4>5. QED
        BY <2>0, <4>1, <4>3, <4>4, Moves, Copies, Places
           DEF Mark, TypeOK, files, memory, procs, history
    <3>3. QED
      BY <3>1, <3>2
  <2>7. ASSUME NEW t \in Tasks, Load(t)
         PROVE  Goal
    BY <2>7, <2>0, Moves, Places, EntryTypes, Copies DEF Load, Runs, TypeOK, files,
       memory, procs, history
  <2>8. ASSUME NEW t \in Tasks, EndTurn(t)
         PROVE  Goal
    <3>1. ASSUME Entry(t) # NoEntry
          PROVE  Merged(t) \in SessionValues
      BY <2>0, <3>1, EntryTypes, SessionTypes DEF Merged
    <3>2. QED
      BY <2>8, <2>0, <3>1, Moves, Copies, Places
         DEF EndTurn, Runs, Commits, TypeOK, files, memory, procs, history
  <2>9. ASSUME NEW t \in Tasks, ReleaseBusy(t)
         PROVE  Goal
    BY <2>9, <2>0, Moves, Places, Removals DEF ReleaseBusy, Runs, Mark, Leaving, TypeOK, files,
       memory, procs, history
  <2>10. ASSUME NEW t \in Tasks, Panic(t)
         PROVE  Goal
    BY <2>10, <2>0, Moves, Places DEF Panic, Runs, TypeOK, files, memory, procs, history
  <2>11. ASSUME NEW t \in Tasks, Update(t)
         PROVE  Goal
    <3>1. ASSUME Entry(t) # NoEntry
          PROVE  Adjusted(t, Entry(t).session) \in SessionValues
      BY <2>11, <2>0, <3>1, EntryTypes, SessionTypes
    <3>2. QED
      BY <2>11, <2>0, <3>1, Moves, Copies, Places
         DEF Update, Mark, Runs, TypeOK, files, memory, procs, history
  <2>12. ASSUME NEW t \in Tasks, UpdateCold(t)
         PROVE  Goal
    <3>1. ASSUME disk # NoSession
          PROVE  Adjusted(t, disk) \in SessionValues
      BY <2>12, <2>0, <3>1, SessionTypes DEF TypeOK
    <3>2. QED
      BY <2>12, <2>0, <3>1, Moves, Copies, Places
         DEF UpdateCold, Runs, TypeOK, files, memory, procs, history
  <2>13. ASSUME NEW t \in Tasks, Stage(t)
         PROVE  Goal
    BY <2>13, <2>0, Moves, Places DEF Stage, Runs, Mark, PersistFails, TypeOK, files,
       memory, procs, history
  <2>14. ASSUME NEW t \in Tasks, Replace(t)
         PROVE  Goal
    <3>1. CASE PersistFails(t) /\ UNCHANGED tmp
      BY <2>14, <2>0, <3>1, Moves, Places
         DEF Replace, PersistFails, TypeOK, files, memory, procs, history
    <3>2. CASE ~(PersistFails(t) /\ UNCHANGED tmp)
      <4>1. live' \in [Procs -> Entries \union {NoEntry}]
        BY <2>14, <2>0, <3>2, EntryMerged DEF Replace
      <4>2. QED
        BY <2>14, <2>0, <3>2, <4>1, Moves, Places
           DEF Replace, TypeOK, files, memory, procs, history
    <3>3. QED
      BY <3>1, <3>2
  <2>15. ASSUME NEW t \in Tasks, Get(t)
         PROVE  Goal
    BY <2>15, <2>0, Moves, Places DEF Get, Runs, TypeOK, files, memory, procs, history
  <2>16. ASSUME NEW t \in Tasks, GetFetch(t)
         PROVE  Goal
    BY <2>16, <2>0, Moves, Places DEF GetFetch, Runs, TypeOK, files, memory, procs,
       history
  <2>17. ASSUME NEW t \in Tasks, GetFill(t)
         PROVE  Goal
    BY <2>17, <2>0, Moves, Places, EntryTypes DEF GetFill, Runs, Mark, Unlocked, TypeOK,
       files, memory, procs, history
  <2>18. ASSUME NEW t \in Tasks, Forget(t)
         PROVE  Goal
    BY <2>18, <2>0, Moves, Places DEF Forget, Runs, Overlap, Unlocked, TypeOK, files,
       memory, procs, history
  <2>19. ASSUME NEW t \in Tasks, RemoveFile(t)
         PROVE  Goal
    <3>1. disk' \in SessionValues \union {NoSession} /\ deleted' \in BOOLEAN
      BY <2>19, <2>0 DEF RemoveFile, TypeOK
    <3>2. pc' \in [Tasks -> Progress] /\ hazards' \subseteq Hazards
      BY <2>19, <2>0, Moves, Places DEF RemoveFile, Overlap, TypeOK
    <3>3. QED
      BY <2>19, <2>0, <3>1, <3>2 DEF RemoveFile, TypeOK, memory, procs
  <2>20. ASSUME NEW t \in Tasks, RemoveBusy(t)
         PROVE  Goal
    BY <2>20, <2>0, Moves, Places, Removals DEF RemoveBusy, Runs, Overlap, TypeOK, files, memory,
       procs, history
  <2>21. ASSUME NEW p \in Procs, Crash(p)
         PROVE  Goal
    <3>1. life' \in [Procs -> Lives]
      <4>1. life[p] \in Nat /\ life[p] + 1 \in Lives
        BY <2>21, <2>0, SentinelTypes, Incarnations DEF Crash
      <4>2. QED
        BY <2>21, <2>0, <4>1 DEF Crash, TypeOK
    <3>2. QED
      BY <2>21, <2>0, <3>1, Places DEF Crash, TypeOK, files, memory, procs, history
  <2>22. ASSUME NEW p \in Procs, Start(p)
         PROVE  Goal
    BY <2>22, <2>0, Moves, Places DEF Start, TypeOK, files, memory, procs, history
  <2>23. ASSUME NEW p \in Procs, Scan(p)
         PROVE  Goal
    BY <2>23, <2>0, Moves, Places DEF Scan, TypeOK, files, memory, procs, history
  <2>24. ASSUME NEW p \in Procs, Clean(p)
         PROVE  Goal
    BY <2>24, <2>0, Moves, Places, Removals DEF Clean, Mark, TypeOK, files, memory, procs, history
  <2>25. CASE UNCHANGED vars
    BY <2>25, <2>0, Moves, Places DEF TypeOK, files, memory, procs, history, vars,
       files, memory, procs, history
  <2>26. QED
    BY <1>2, <2>1, <2>2, <2>3, <2>4, <2>5, <2>6, <2>7, <2>8, <2>9, <2>10, <2>11, <2>12,
       <2>13, <2>14, <2>15, <2>16, <2>17, <2>18, <2>19, <2>20, <2>21, <2>22, <2>23,
       <2>24, <2>25 DEF Next, TaskStep, ProcStep
<1>3. QED
  BY <1>1, <1>2
-----------------------------------------------------------------------------
(* What the actions that work on the map do to the entry of their process, *)
(* and to nothing else of the map.                                         *)
OthersKept(t) ==
  /\ \A o \in Tasks : o # t => pc'[o] = pc[o]
  /\ \A p \in Procs : p # Home[t] => live'[p] = live[p] /\ lock'[p] = lock[p]

LEMMA EnterEffect ==
  ASSUME TypeOK, NEW t \in Tasks, Enter(t)
  PROVE  /\ pc[t] = "enter" /\ Unlocked(t) /\ OthersKept(t)
         /\ UNCHANGED <<files, busy, procs, committed, deleted>>
         /\ \/ /\ Entry(t) # NoEntry /\ pc'[t] = "working" /\ UNCHANGED lock
               /\ Entry(t).session \in SessionValues /\ Entry(t).generation \in Nat
               /\ live'[Home[t]] = [session |-> Entry(t).session,
                                    generation |-> Entry(t).generation + 1]
               /\ live'[Home[t]] \in Entries
               /\ gen' = [gen EXCEPT ![t] = Entry(t).generation + 1]
               /\ copy' = [copy EXCEPT ![t] = Entry(t).session]
               /\ hazards' = IF Entry(t).session # disk
                             THEN hazards \union {"stale_cache"} ELSE hazards
            \/ /\ Entry(t) = NoEntry /\ pc'[t] = "load" /\ lock'[Home[t]] = t
               /\ UNCHANGED <<live, gen, copy, hazards>>
<1> DEFINE e == [Entry(t) EXCEPT !.generation = @ + 1]
<1>1. CASE Entry(t) = NoEntry
  BY <1>1, Moves, Places DEF Enter, Runs, OthersKept, history
<1>2. CASE Entry(t) # NoEntry
  <2>1. /\ Entry(t) \in Entries /\ Entry(t).session \in SessionValues
        /\ Entry(t).generation \in Nat
    BY <1>2, EntryTypes
  <2>2. e = [session |-> Entry(t).session, generation |-> Entry(t).generation + 1]
    BY <2>1 DEF Entries
  <2>3. e \in Entries
    BY <2>1, <2>2, EntryTypes
  <2>4. /\ Runs(t, "enter") /\ Unlocked(t) /\ SetEntry(t, e) /\ Goto(t, "working")
        /\ Mark("stale_cache", Entry(t).session # disk)
        /\ gen' = [gen EXCEPT ![t] = Entry(t).generation + 1]
        /\ copy' = [copy EXCEPT ![t] = Entry(t).session]
        /\ UNCHANGED lock /\ UNCHANGED <<files, busy, procs>>
    BY <1>2 DEF Enter
  <2> HIDE DEF e
  <2>5. QED
    BY <1>2, <2>1, <2>2, <2>3, <2>4, Moves, Places DEF Mark, Runs, OthersKept
<1>3. QED
  BY <1>1, <1>2

LEMMA LoadEffect ==
  ASSUME TypeOK, NEW t \in Tasks, Load(t)
  PROVE  /\ pc[t] = "load" /\ OthersKept(t) /\ lock'[Home[t]] = NoTask
         /\ UNCHANGED <<files, busy, procs, history>>
         /\ \/ /\ disk # NoSession /\ disk \in SessionValues /\ pc'[t] = "working"
               /\ live'[Home[t]] = [session |-> disk, generation |-> 1]
               /\ live'[Home[t]] \in Entries
               /\ gen' = [gen EXCEPT ![t] = 1] /\ copy' = [copy EXCEPT ![t] = disk]
            \/ pc'[t] = "abandon" /\ UNCHANGED <<live, gen, copy>>
<1>1. CASE Goto(t, "abandon") /\ UNCHANGED <<live, gen, copy>>
  BY <1>1, Moves, Places DEF Load, Runs, OthersKept, history
<1>2. CASE ~(Goto(t, "abandon") /\ UNCHANGED <<live, gen, copy>>)
  <2> DEFINE e == [session |-> disk, generation |-> 1]
  <2>1. disk # NoSession /\ disk \in SessionValues /\ e \in Entries
    BY <1>2, EntryTypes DEF TypeOK, Load
  <2>2. /\ Runs(t, "load") /\ GiveLock(t) /\ SetEntry(t, e) /\ Goto(t, "working")
        /\ gen' = [gen EXCEPT ![t] = 1] /\ copy' = [copy EXCEPT ![t] = disk]
        /\ UNCHANGED <<files, busy, procs, history>>
    BY <1>2 DEF Load
  <2>3. live'[Home[t]] = e
    BY <2>1, <2>2, Moves
  <2> HIDE DEF e
  <2>4. QED
    BY <1>2, <2>1, <2>2, <2>3, Moves, Places DEF Runs, OthersKept, e
<1>3. QED
  BY <1>1, <1>2

LEMMA ReplaceEffect ==
  ASSUME TypeOK, NEW t \in Tasks, Replace(t)
  PROVE  /\ pc[t] = "replace" /\ OthersKept(t) /\ lock'[Home[t]] = NoTask
         /\ UNCHANGED <<busy, procs, copy, gen, deleted>>
         /\ \/ /\ tmp # NoSession /\ tmp \in SessionValues /\ disk' = tmp /\ tmp' = NoSession
               /\ pc'[t] = IF Kind[t] = "turn" THEN "release" ELSE "done"
               /\ committed' = committed \union {t}
               /\ hazards' = hazards \union (IF WriteOverlaps(t) THEN {"overlap"} ELSE {})
               /\ Entry(t) = NoEntry => live' = live
               /\ Entry(t) # NoEntry =>
                    live'[Home[t]] = [session |-> copy[t], generation |-> Entry(t).generation]
            \/ /\ UNCHANGED <<disk, tmp, live, committed, hazards>>
               /\ pc'[t] = IF Kind[t] = "turn" THEN "drop_io" ELSE "failed"
<1>1. CASE PersistFails(t) /\ UNCHANGED tmp
  BY <1>1, Moves, Places DEF Replace, Runs, PersistFails, OthersKept, history
<1>2. CASE ~(PersistFails(t) /\ UNCHANGED tmp)
  <2>1. /\ Runs(t, "replace") /\ tmp # NoSession /\ disk' = tmp /\ tmp' = NoSession
        /\ live' = IF Entry(t) = NoEntry THEN live
                   ELSE [live EXCEPT ![Home[t]].session = copy[t]]
        /\ GiveLock(t) /\ committed' = committed \union {t}
        /\ hazards' = hazards \union (IF WriteOverlaps(t) THEN {"overlap"} ELSE {})
        /\ Goto(t, IF Kind[t] = "turn" THEN "release" ELSE "done")
        /\ UNCHANGED <<deleted, busy, procs, copy, gen>>
    BY <1>2 DEF Replace
  <2>2. /\ \A p \in Procs : p # Home[t] => live'[p] = live[p]
        /\ Entry(t) = NoEntry => live' = live
        /\ Entry(t) # NoEntry =>
             live'[Home[t]] = [session |-> copy[t], generation |-> Entry(t).generation]
    BY <2>1, EntryMerged
  <2>3. tmp \in SessionValues
    BY <2>1 DEF TypeOK
  <2>4. QED
    BY <2>1, <2>2, <2>3, Moves, Places DEF Runs, OthersKept
<1>3. QED
  BY <1>1, <1>2

LEMMA FillEffect ==
  ASSUME TypeOK, NEW t \in Tasks, GetFill(t)
  PROVE  /\ pc[t] = "fill" /\ Unlocked(t) /\ OthersKept(t) /\ pc'[t] = "done"
         /\ UNCHANGED <<files, busy, lock, procs, copy, gen, committed, deleted>>
         /\ live'[Home[t]] = [session |-> copy[t], generation |-> 0]
         /\ hazards' = IF Entry(t) # NoEntry THEN hazards \union {"stale_fill"} ELSE hazards
<1> DEFINE e == [session |-> copy[t], generation |-> 0]
<1>1. e \in Entries
  BY EntryTypes
<1>2. /\ Runs(t, "fill") /\ Unlocked(t) /\ Mark("stale_fill", Entry(t) # NoEntry)
      /\ SetEntry(t, e) /\ Goto(t, "done") /\ UNCHANGED <<files, busy, lock, procs, copy, gen>>
  BY DEF GetFill
<1>3. live'[Home[t]] = e
  BY <1>1, <1>2, Moves
<1> HIDE DEF e
<1>4. QED
  BY <1>1, <1>2, <1>3, Moves, Places DEF Runs, OthersKept, Mark, e

-----------------------------------------------------------------------------
(* The history only grows.                                                 *)
LEMMA HazardsGrow ==
  ASSUME TypeOK, [Next]_vars
  PROVE  hazards \subseteq hazards'
<1> DEFINE Goal == hazards \subseteq hazards'
<1>1. ASSUME NEW t \in Tasks, AcquireBusy(t)
       PROVE  Goal
  BY <1>1 DEF AcquireBusy, Runs, CreateBusy, OwnBusy, history
<1>2. ASSUME NEW t \in Tasks, Probe(t)
       PROVE  Goal
  BY <1>2 DEF Probe, Runs, history
<1>3. ASSUME NEW t \in Tasks, Steal(t)
       PROVE  Goal
  BY <1>3 DEF Steal, Runs, Mark, history
<1>4. ASSUME NEW t \in Tasks, Recreate(t)
       PROVE  Goal
  BY <1>4 DEF Recreate, Runs, CreateBusy, OwnBusy, history
<1>5. ASSUME NEW t \in Tasks, WriteBusy(t)
       PROVE  Goal
  BY <1>5 DEF WriteBusy, OwnBusy, Runs, Mark, history
<1>6. ASSUME NEW t \in Tasks, Enter(t)
       PROVE  Goal
  BY <1>6 DEF Enter, Runs, Mark, Unlocked, Entry, history
<1>7. ASSUME NEW t \in Tasks, Load(t)
       PROVE  Goal
  BY <1>7 DEF Load, Runs, history
<1>8. ASSUME NEW t \in Tasks, EndTurn(t)
       PROVE  Goal
  BY <1>8 DEF EndTurn, Runs, Unlocked, Entry, Commits, Merged, history
<1>9. ASSUME NEW t \in Tasks, ReleaseBusy(t)
       PROVE  Goal
  BY <1>9 DEF ReleaseBusy, Runs, Mark, Leaving, history
<1>10. ASSUME NEW t \in Tasks, Panic(t)
       PROVE  Goal
  BY <1>10 DEF Panic, Runs, history
<1>11. ASSUME NEW t \in Tasks, Update(t)
       PROVE  Goal
  BY <1>11 DEF Update, Runs, Mark, Unlocked, Entry, Adjusted, history
<1>12. ASSUME NEW t \in Tasks, UpdateCold(t)
       PROVE  Goal
  BY <1>12 DEF UpdateCold, Runs, Adjusted, history
<1>13. ASSUME NEW t \in Tasks, Stage(t)
       PROVE  Goal
  BY <1>13 DEF Stage, Runs, Mark, PersistFails, history
<1>14. ASSUME NEW t \in Tasks, Replace(t)
       PROVE  Goal
  BY <1>14 DEF Replace, Runs, PersistFails, Entry, history
<1>15. ASSUME NEW t \in Tasks, Get(t)
       PROVE  Goal
  BY <1>15 DEF Get, Runs, history
<1>16. ASSUME NEW t \in Tasks, GetFetch(t)
       PROVE  Goal
  BY <1>16 DEF GetFetch, Runs, history
<1>17. ASSUME NEW t \in Tasks, GetFill(t)
       PROVE  Goal
  BY <1>17 DEF GetFill, Runs, Mark, Entry, Unlocked, history
<1>18. ASSUME NEW t \in Tasks, Forget(t)
       PROVE  Goal
  BY <1>18 DEF Forget, Runs, Overlap, Unlocked, history
<1>19. ASSUME NEW t \in Tasks, RemoveFile(t)
       PROVE  Goal
  BY <1>19 DEF RemoveFile, Runs, Overlap, history
<1>20. ASSUME NEW t \in Tasks, RemoveBusy(t)
       PROVE  Goal
  BY <1>20 DEF RemoveBusy, Runs, Overlap, history
<1>21. ASSUME NEW p \in Procs, Crash(p)
       PROVE  Goal
  BY <1>21 DEF Crash, history
<1>22. ASSUME NEW p \in Procs, Start(p)
       PROVE  Goal
  BY <1>22 DEF Start, history
<1>23. ASSUME NEW p \in Procs, Scan(p)
       PROVE  Goal
  BY <1>23 DEF Scan, history
<1>24. ASSUME NEW p \in Procs, Clean(p)
       PROVE  Goal
  BY <1>24 DEF Clean, Mark, history
<1>25. CASE UNCHANGED vars
  BY <1>25 DEF history, vars, files, memory, procs, history
<1>26. QED
  BY <1>1, <1>2, <1>3, <1>4, <1>5, <1>6, <1>7, <1>8, <1>9, <1>10, <1>11, <1>12, <1>13,
     <1>14, <1>15, <1>16, <1>17, <1>18, <1>19, <1>20, <1>21, <1>22, <1>23, <1>24, <1>25
     DEF Next, TaskStep, ProcStep

-----------------------------------------------------------------------------
(* Which operation is where, and who has the lock.                         *)
LEMMA KindsInductive ==
  /\ Init => KindsKept
  /\ TypeOK /\ KindsKept /\ [Next]_vars => KindsKept'
<1>1. Init => KindsKept
  BY DEF Init, KindsKept, TurnsOnly, Leaving
<1>2. ASSUME TypeOK, KindsKept, [Next]_vars
      PROVE  KindsKept'
  <2> DEFINE Goal == KindsKept'
  <2>0. TypeOK /\ KindsKept
    BY <1>2
  <2>1. ASSUME NEW t \in Tasks, AcquireBusy(t)
         PROVE  Goal
    BY <2>1, <2>0, Moves, Places DEF AcquireBusy, Runs, CreateBusy, OwnBusy, KindsKept,
       TurnsOnly, Leaving, Ended
  <2>2. ASSUME NEW t \in Tasks, Probe(t)
         PROVE  Goal
    BY <2>2, <2>0, Moves, Places DEF Probe, Runs, KindsKept, TurnsOnly, Leaving, Ended
  <2>3. ASSUME NEW t \in Tasks, Steal(t)
         PROVE  Goal
    BY <2>3, <2>0, Moves, Places DEF Steal, Runs, Mark, KindsKept, TurnsOnly, Leaving,
       Ended
  <2>4. ASSUME NEW t \in Tasks, Recreate(t)
         PROVE  Goal
    BY <2>4, <2>0, Moves, Places DEF Recreate, Runs, CreateBusy, OwnBusy, KindsKept, TurnsOnly,
       Leaving, Ended
  <2>5. ASSUME NEW t \in Tasks, WriteBusy(t)
         PROVE  Goal
    BY <2>5, <2>0, Moves, Places DEF WriteBusy, OwnBusy, Runs, Mark, KindsKept, TurnsOnly,
       Leaving, Ended
  <2>6. ASSUME NEW t \in Tasks, Enter(t)
         PROVE  Goal
    BY <2>6, <2>0, Moves, Places DEF Enter, Runs, Mark, Unlocked, Entry, KindsKept,
       TurnsOnly, Leaving, Ended
  <2>7. ASSUME NEW t \in Tasks, Load(t)
         PROVE  Goal
    BY <2>7, <2>0, Moves, Places DEF Load, Runs, KindsKept, TurnsOnly, Leaving, Ended
  <2>8. ASSUME NEW t \in Tasks, EndTurn(t)
         PROVE  Goal
    BY <2>8, <2>0, Moves, Places DEF EndTurn, Runs, Unlocked, Entry, Commits, Merged,
       KindsKept, TurnsOnly, Leaving, Ended
  <2>9. ASSUME NEW t \in Tasks, ReleaseBusy(t)
         PROVE  Goal
    BY <2>9, <2>0, Moves, Places DEF ReleaseBusy, Runs, Mark, Leaving, KindsKept,
       TurnsOnly, Ended
  <2>10. ASSUME NEW t \in Tasks, Panic(t)
         PROVE  Goal
    BY <2>10, <2>0, Moves, Places DEF Panic, Runs, KindsKept, TurnsOnly, Leaving, Ended
  <2>11. ASSUME NEW t \in Tasks, Update(t)
         PROVE  Goal
    BY <2>11, <2>0, Moves, Places DEF Update, Runs, Mark, Unlocked, Entry, Adjusted,
       KindsKept, TurnsOnly, Leaving, Ended
  <2>12. ASSUME NEW t \in Tasks, UpdateCold(t)
         PROVE  Goal
    BY <2>12, <2>0, Moves, Places DEF UpdateCold, Runs, Adjusted, KindsKept, TurnsOnly,
       Leaving, Ended
  <2>13. ASSUME NEW t \in Tasks, Stage(t)
         PROVE  Goal
    BY <2>13, <2>0, Moves, Places, StoreAssumption DEF Stage, Runs, Mark, PersistFails,
       KindsKept, TurnsOnly, Leaving, Ended
  <2>14. ASSUME NEW t \in Tasks, Replace(t)
         PROVE  Goal
    BY <2>14, <2>0, Moves, Places, StoreAssumption DEF Replace, Runs, PersistFails,
       Entry, KindsKept, TurnsOnly, Leaving, Ended
  <2>15. ASSUME NEW t \in Tasks, Get(t)
         PROVE  Goal
    BY <2>15, <2>0, Moves, Places DEF Get, Runs, KindsKept, TurnsOnly, Leaving, Ended
  <2>16. ASSUME NEW t \in Tasks, GetFetch(t)
         PROVE  Goal
    BY <2>16, <2>0, Moves, Places DEF GetFetch, Runs, KindsKept, TurnsOnly, Leaving,
       Ended
  <2>17. ASSUME NEW t \in Tasks, GetFill(t)
         PROVE  Goal
    BY <2>17, <2>0, Moves, Places DEF GetFill, Runs, Mark, Entry, Unlocked, KindsKept,
       TurnsOnly, Leaving, Ended
  <2>18. ASSUME NEW t \in Tasks, Forget(t)
         PROVE  Goal
    BY <2>18, <2>0, Moves, Places DEF Forget, Runs, Overlap, Unlocked, KindsKept,
       TurnsOnly, Leaving, Ended
  <2>19. ASSUME NEW t \in Tasks, RemoveFile(t)
         PROVE  Goal
    BY <2>19, <2>0, Moves, Places DEF RemoveFile, Runs, Overlap, KindsKept, TurnsOnly,
       Leaving, Ended
  <2>20. ASSUME NEW t \in Tasks, RemoveBusy(t)
         PROVE  Goal
    BY <2>20, <2>0, Moves, Places DEF RemoveBusy, Runs, Overlap, KindsKept, TurnsOnly,
       Leaving, Ended
  <2>21. ASSUME NEW p \in Procs, Crash(p)
         PROVE  Goal
    BY <2>21, <2>0, Moves, Places DEF Crash, KindsKept, TurnsOnly, Leaving, Ended
  <2>22. ASSUME NEW p \in Procs, Start(p)
         PROVE  Goal
    BY <2>22, <2>0, Moves, Places DEF Start, KindsKept, TurnsOnly, Leaving, Ended
  <2>23. ASSUME NEW p \in Procs, Scan(p)
         PROVE  Goal
    BY <2>23, <2>0, Moves, Places DEF Scan, KindsKept, TurnsOnly, Leaving, Ended
  <2>24. ASSUME NEW p \in Procs, Clean(p)
         PROVE  Goal
    BY <2>24, <2>0, Moves, Places DEF Clean, Mark, KindsKept, TurnsOnly, Leaving, Ended
  <2>25. CASE UNCHANGED vars
    BY <2>25, <2>0, Moves, Places DEF KindsKept, TurnsOnly, Leaving, Ended, vars, files,
       memory, procs, history
  <2>26. QED
    BY <1>2, <2>1, <2>2, <2>3, <2>4, <2>5, <2>6, <2>7, <2>8, <2>9, <2>10, <2>11, <2>12,
       <2>13, <2>14, <2>15, <2>16, <2>17, <2>18, <2>19, <2>20, <2>21, <2>22, <2>23,
       <2>24, <2>25 DEF Next, TaskStep, ProcStep
<1>3. QED
  BY <1>1, <1>2

LEMMA OneUnderLock ==
  ASSUME LockKept, NEW t \in Tasks, Unlocked(t) \/ pc[t] \in Locking
  PROVE  \A o \in Tasks : o # t /\ Home[o] = Home[t] => pc[o] \notin Locking
BY StoreAssumption DEF LockKept, Unlocked

LEMMA LockInductive ==
  /\ Init => LockKept
  /\ TypeOK /\ LockKept /\ [Next]_vars => LockKept'
<1>1. Init => LockKept
  BY DEF Init, LockKept, Locking
<1>2. ASSUME TypeOK, LockKept, [Next]_vars
      PROVE  LockKept'
  <2> DEFINE Goal == LockKept'
  <2>0. /\ TypeOK /\ LockKept /\ NoTask \notin Tasks
        /\ \A t \in Tasks : Home[t] \in Procs
    BY <1>2, StoreAssumption
  <2>1. ASSUME NEW t \in Tasks, AcquireBusy(t)
         PROVE  Goal
    BY <2>1, <2>0, Moves, Places DEF AcquireBusy, Runs, CreateBusy, OwnBusy, LockKept, Locking,
       Leaving, Ended, Entry, memory
  <2>2. ASSUME NEW t \in Tasks, Probe(t)
         PROVE  Goal
    BY <2>2, <2>0, Moves, Places DEF Probe, Runs, LockKept, Locking, Leaving, Ended,
       Entry, memory
  <2>3. ASSUME NEW t \in Tasks, Steal(t)
         PROVE  Goal
    BY <2>3, <2>0, Moves, Places DEF Steal, Runs, Mark, LockKept, Locking, Leaving,
       Ended, Entry, memory
  <2>4. ASSUME NEW t \in Tasks, Recreate(t)
         PROVE  Goal
    BY <2>4, <2>0, Moves, Places DEF Recreate, Runs, CreateBusy, OwnBusy, LockKept, Locking,
       Leaving, Ended, Entry, memory
  <2>5. ASSUME NEW t \in Tasks, WriteBusy(t)
         PROVE  Goal
    BY <2>5, <2>0, Moves, Places DEF WriteBusy, OwnBusy, Runs, Mark, LockKept, Locking, Leaving,
       Ended, Entry, memory
  <2>6. ASSUME NEW t \in Tasks, Enter(t)
         PROVE  Goal
    <3>1. /\ OthersKept(t) /\ Unlocked(t)
          /\ \/ pc'[t] = "working" /\ lock' = lock
             \/ pc'[t] = "load" /\ Entry(t) = NoEntry /\ lock'[Home[t]] = t /\ live' = live
      BY <2>6, <2>0, EnterEffect
    <3>2. \A o \in Tasks : o # t /\ Home[o] = Home[t] => pc[o] \notin Locking
      BY <2>6, <2>0, <3>1, OneUnderLock
    <3>3. QED
      BY <2>6, <2>0, <3>1, <3>2 DEF LockKept, Locking, OthersKept, Entry
  <2>7. ASSUME NEW t \in Tasks, Load(t)
         PROVE  Goal
    BY <2>7, <2>0, LoadEffect, OneUnderLock
       DEF LockKept, Locking, OthersKept, Entry, memory
  <2>8. ASSUME NEW t \in Tasks, EndTurn(t)
         PROVE  Goal
    BY <2>8, <2>0, Moves, Places DEF EndTurn, Runs, Unlocked, Entry, Commits, Merged,
       LockKept, Locking, Leaving, Ended, memory
  <2>9. ASSUME NEW t \in Tasks, ReleaseBusy(t)
         PROVE  Goal
    BY <2>9, <2>0, Moves, Places DEF ReleaseBusy, Runs, Mark, Leaving, LockKept,
       Locking, Ended, Entry, memory
  <2>10. ASSUME NEW t \in Tasks, Panic(t)
         PROVE  Goal
    BY <2>10, <2>0, Moves, Places DEF Panic, Runs, LockKept, Locking, Leaving, Ended,
       Entry, memory
  <2>11. ASSUME NEW t \in Tasks, Update(t)
         PROVE  Goal
    BY <2>11, <2>0, Moves, Places DEF Update, Runs, Mark, Unlocked, Entry, Adjusted,
       LockKept, Locking, Leaving, Ended, memory
  <2>12. ASSUME NEW t \in Tasks, UpdateCold(t)
         PROVE  Goal
    BY <2>12, <2>0, Moves, Places DEF UpdateCold, Runs, Adjusted, LockKept, Locking,
       Leaving, Ended, Entry, memory
  <2>13. ASSUME NEW t \in Tasks, Stage(t)
         PROVE  Goal
    BY <2>13, <2>0, Moves, Places DEF Stage, Runs, Mark, PersistFails, LockKept,
       Locking, Leaving, Ended, Entry, memory
  <2>14. ASSUME NEW t \in Tasks, Replace(t)
         PROVE  Goal
    <3>1. OthersKept(t) /\ pc[t] = "replace" /\ pc'[t] \in {"release", "done", "drop_io", "failed"}
      BY <2>14, <2>0, ReplaceEffect
    <3>2. \A o \in Tasks : o # t /\ Home[o] = Home[t] => pc[o] \notin Locking
      BY <2>14, <2>0, <3>1, OneUnderLock DEF Locking
    <3>3. QED
      BY <2>14, <2>0, <3>1, <3>2 DEF LockKept, Locking, OthersKept, Entry
  <2>15. ASSUME NEW t \in Tasks, Get(t)
         PROVE  Goal
    BY <2>15, <2>0, Moves, Places DEF Get, Runs, LockKept, Locking, Leaving, Ended,
       Entry, memory
  <2>16. ASSUME NEW t \in Tasks, GetFetch(t)
         PROVE  Goal
    BY <2>16, <2>0, Moves, Places DEF GetFetch, Runs, LockKept, Locking, Leaving, Ended,
       Entry, memory
  <2>17. ASSUME NEW t \in Tasks, GetFill(t)
         PROVE  Goal
    BY <2>17, <2>0, FillEffect, OneUnderLock
       DEF LockKept, Locking, OthersKept, Entry, memory
  <2>18. ASSUME NEW t \in Tasks, Forget(t)
         PROVE  Goal
    BY <2>18, <2>0, Moves, Places DEF Forget, Runs, Overlap, Unlocked, LockKept,
       Locking, Leaving, Ended, Entry, memory
  <2>19. ASSUME NEW t \in Tasks, RemoveFile(t)
         PROVE  Goal
    BY <2>19, <2>0, Moves, Places DEF RemoveFile, Runs, Overlap, LockKept, Locking,
       Leaving, Ended, Entry, memory
  <2>20. ASSUME NEW t \in Tasks, RemoveBusy(t)
         PROVE  Goal
    BY <2>20, <2>0, Moves, Places DEF RemoveBusy, Runs, Overlap, LockKept, Locking,
       Leaving, Ended, Entry, memory
  <2>21. ASSUME NEW p \in Procs, Crash(p)
         PROVE  Goal
    BY <2>21, <2>0, Moves, Places DEF Crash, LockKept, Locking, Leaving, Ended, Entry,
       memory
  <2>22. ASSUME NEW p \in Procs, Start(p)
         PROVE  Goal
    BY <2>22, <2>0, Moves, Places DEF Start, LockKept, Locking, Leaving, Ended, Entry,
       memory
  <2>23. ASSUME NEW p \in Procs, Scan(p)
         PROVE  Goal
    BY <2>23, <2>0, Moves, Places DEF Scan, LockKept, Locking, Leaving, Ended, Entry,
       memory
  <2>24. ASSUME NEW p \in Procs, Clean(p)
         PROVE  Goal
    BY <2>24, <2>0, Moves, Places DEF Clean, Mark, LockKept, Locking, Leaving, Ended,
       Entry, memory
  <2>25. CASE UNCHANGED vars
    BY <2>25, <2>0, Moves, Places DEF LockKept, Locking, Leaving, Ended, Entry, memory,
       vars, files, memory, procs, history
  <2>26. QED
    BY <1>2, <2>1, <2>2, <2>3, <2>4, <2>5, <2>6, <2>7, <2>8, <2>9, <2>10, <2>11, <2>12,
       <2>13, <2>14, <2>15, <2>16, <2>17, <2>18, <2>19, <2>20, <2>21, <2>22, <2>23,
       <2>24, <2>25 DEF Next, TaskStep, ProcStep
<1>3. QED
  BY <1>1, <1>2

-----------------------------------------------------------------------------
(* The sentinel and its writer.                                            *)
LEMMA SentinelInductive ==
  /\ Init => WriterKept /\ SentinelNotLeaked
  /\ TypeOK /\ KindsKept /\ WriterKept /\ SentinelNotLeaked /\ [Next]_vars =>
       WriterKept' /\ SentinelNotLeaked'
<1>1. Init => WriterKept /\ SentinelNotLeaked
  BY DEF Init, WriterKept, SentinelNotLeaked
<1>2. ASSUME TypeOK, KindsKept, WriterKept, SentinelNotLeaked, [Next]_vars
      PROVE  WriterKept' /\ SentinelNotLeaked'
  <2> DEFINE Goal == WriterKept' /\ SentinelNotLeaked'
  <2>0. /\ TypeOK /\ KindsKept /\ WriterKept /\ SentinelNotLeaked
        /\ \A t \in Tasks : Home[t] \in Procs /\ life[Home[t]] \in Nat
        /\ busy # NoBusy => busy.task \in Tasks /\ busy.life \in Nat
    BY <1>2, StoreAssumption, SentinelTypes
  <2>1. ASSUME NEW t \in Tasks, AcquireBusy(t)
         PROVE  Goal
    BY <2>1, <2>0, Moves, Places DEF AcquireBusy, Runs, CreateBusy, OwnBusy, KindsKept,
       TurnsOnly, Owning, Leaving, Ended, WriterKept, SentinelNotLeaked, WriterAlive,
       procs
  <2>2. ASSUME NEW t \in Tasks, Probe(t)
         PROVE  Goal
    BY <2>2, <2>0, Moves, Places DEF Probe, Runs, KindsKept, TurnsOnly, Owning, Leaving,
       Ended, WriterKept, SentinelNotLeaked, WriterAlive, procs
  <2>3. ASSUME NEW t \in Tasks, Steal(t)
         PROVE  Goal
    BY <2>3, <2>0, Moves, Places, Removals DEF Steal, Runs, Mark, KindsKept, TurnsOnly, Owning,
       Leaving, Ended, WriterKept, SentinelNotLeaked, WriterAlive, procs
  <2>4. ASSUME NEW t \in Tasks, Recreate(t)
         PROVE  Goal
    BY <2>4, <2>0, Moves, Places DEF Recreate, Runs, CreateBusy, OwnBusy, KindsKept, TurnsOnly,
       Owning, Leaving, Ended, WriterKept, SentinelNotLeaked, WriterAlive, procs
  <2>5. ASSUME NEW t \in Tasks, WriteBusy(t)
         PROVE  Goal
    BY <2>5, <2>0, Moves, Places, Removals DEF WriteBusy, OwnBusy, Runs, Mark, KindsKept, TurnsOnly,
       Owning, Leaving, Ended, WriterKept, SentinelNotLeaked, WriterAlive, procs
  <2>6. ASSUME NEW t \in Tasks, Enter(t)
         PROVE  Goal
    BY <2>6, <2>0, Moves, Places DEF Enter, Runs, Mark, Unlocked, Entry, KindsKept,
       TurnsOnly, Owning, Leaving, Ended, WriterKept, SentinelNotLeaked, WriterAlive,
       procs
  <2>7. ASSUME NEW t \in Tasks, Load(t)
         PROVE  Goal
    BY <2>7, <2>0, Moves, Places DEF Load, Runs, KindsKept, TurnsOnly, Owning, Leaving,
       Ended, WriterKept, SentinelNotLeaked, WriterAlive, procs
  <2>8. ASSUME NEW t \in Tasks, EndTurn(t)
         PROVE  Goal
    BY <2>8, <2>0, Moves, Places DEF EndTurn, Runs, Unlocked, Entry, Commits, Merged,
       KindsKept, TurnsOnly, Owning, Leaving, Ended, WriterKept, SentinelNotLeaked,
       WriterAlive, procs
  <2>9. ASSUME NEW t \in Tasks, ReleaseBusy(t)
         PROVE  Goal
    BY <2>9, <2>0, Moves, Places, Removals DEF ReleaseBusy, Runs, Mark, Leaving, KindsKept,
       TurnsOnly, Owning, Ended, WriterKept, SentinelNotLeaked, WriterAlive, procs
  <2>10. ASSUME NEW t \in Tasks, Panic(t)
         PROVE  Goal
    BY <2>10, <2>0, Moves, Places DEF Panic, Runs, KindsKept, TurnsOnly, Owning,
       Leaving, Ended, WriterKept, SentinelNotLeaked, WriterAlive, procs
  <2>11. ASSUME NEW t \in Tasks, Update(t)
         PROVE  Goal
    BY <2>11, <2>0, Moves, Places DEF Update, Runs, Mark, Unlocked, Entry, Adjusted,
       KindsKept, TurnsOnly, Owning, Leaving, Ended, WriterKept, SentinelNotLeaked,
       WriterAlive, procs
  <2>12. ASSUME NEW t \in Tasks, UpdateCold(t)
         PROVE  Goal
    BY <2>12, <2>0, Moves, Places DEF UpdateCold, Runs, Adjusted, KindsKept, TurnsOnly,
       Owning, Leaving, Ended, WriterKept, SentinelNotLeaked, WriterAlive, procs
  <2>13. ASSUME NEW t \in Tasks, Stage(t)
         PROVE  Goal
    BY <2>13, <2>0, Moves, Places DEF Stage, Runs, Mark, PersistFails, KindsKept,
       TurnsOnly, Owning, Leaving, Ended, WriterKept, SentinelNotLeaked, WriterAlive,
       procs
  <2>14. ASSUME NEW t \in Tasks, Replace(t)
         PROVE  Goal
    BY <2>14, <2>0, Moves, Places DEF Replace, Runs, PersistFails, Entry, KindsKept,
       TurnsOnly, Owning, Leaving, Ended, WriterKept, SentinelNotLeaked, WriterAlive,
       procs
  <2>15. ASSUME NEW t \in Tasks, Get(t)
         PROVE  Goal
    BY <2>15, <2>0, Moves, Places DEF Get, Runs, KindsKept, TurnsOnly, Owning, Leaving,
       Ended, WriterKept, SentinelNotLeaked, WriterAlive, procs
  <2>16. ASSUME NEW t \in Tasks, GetFetch(t)
         PROVE  Goal
    BY <2>16, <2>0, Moves, Places DEF GetFetch, Runs, KindsKept, TurnsOnly, Owning,
       Leaving, Ended, WriterKept, SentinelNotLeaked, WriterAlive, procs
  <2>17. ASSUME NEW t \in Tasks, GetFill(t)
         PROVE  Goal
    BY <2>17, <2>0, Moves, Places DEF GetFill, Runs, Mark, Entry, Unlocked, KindsKept,
       TurnsOnly, Owning, Leaving, Ended, WriterKept, SentinelNotLeaked, WriterAlive,
       procs
  <2>18. ASSUME NEW t \in Tasks, Forget(t)
         PROVE  Goal
    BY <2>18, <2>0, Moves, Places DEF Forget, Runs, Overlap, Unlocked, KindsKept,
       TurnsOnly, Owning, Leaving, Ended, WriterKept, SentinelNotLeaked, WriterAlive,
       procs
  <2>19. ASSUME NEW t \in Tasks, RemoveFile(t)
         PROVE  Goal
    BY <2>19, <2>0, Moves, Places DEF RemoveFile, Runs, Overlap, KindsKept, TurnsOnly,
       Owning, Leaving, Ended, WriterKept, SentinelNotLeaked, WriterAlive, procs
  <2>20. ASSUME NEW t \in Tasks, RemoveBusy(t)
         PROVE  Goal
    BY <2>20, <2>0, Moves, Places, Removals DEF RemoveBusy, Runs, Overlap, KindsKept, TurnsOnly,
       Owning, Leaving, Ended, WriterKept, SentinelNotLeaked, WriterAlive, procs
  <2>21. ASSUME NEW p \in Procs, Crash(p)
         PROVE  Goal
    <3>1. /\ life'[p] = life[p] + 1 /\ up'[p] = "down" /\ busy' = busy
          /\ \A r \in Procs : r # p => life'[r] = life[r] /\ up'[r] = up[r]
      BY <2>21, <2>0 DEF Crash, TypeOK
    <3>2. \A t \in Tasks : pc'[t] = pc[t] \/ (Home[t] = p /\ pc'[t] = "dead")
      BY <2>21 DEF Crash
    <3>3. life[p] \in Nat
      BY <2>21, <2>0, SentinelTypes
    <3>4. WriterKept'
      BY <2>21, <2>0, <3>1, <3>3 DEF WriterKept
    <3>5. SentinelNotLeaked'
      <4>1. ASSUME busy # NoBusy, WriterAlive(busy)'
            PROVE  Home[busy.task] # p /\ WriterAlive(busy)
        BY <2>21, <2>0, <3>1, <4>1 DEF WriterAlive
      <4>2. QED
        BY <2>21, <2>0, <3>1, <3>2, <4>1 DEF SentinelNotLeaked
    <3>6. QED
      BY <3>4, <3>5
  <2>22. ASSUME NEW p \in Procs, Start(p)
         PROVE  Goal
    BY <2>22, <2>0, Moves, Places DEF Start, KindsKept, TurnsOnly, Owning, Leaving,
       Ended, WriterKept, SentinelNotLeaked, WriterAlive, procs
  <2>23. ASSUME NEW p \in Procs, Scan(p)
         PROVE  Goal
    <3>1. /\ up[p] # "down" /\ up'[p] # "down" /\ UNCHANGED <<busy, life, pc>>
          /\ \A r \in Procs : r # p => up'[r] = up[r]
      BY <2>23, <2>0 DEF Scan, TypeOK
    <3>2. QED
      BY <2>0, <3>1 DEF WriterKept, SentinelNotLeaked, WriterAlive
  <2>24. ASSUME NEW p \in Procs, Clean(p)
         PROVE  Goal
    BY <2>24, <2>0, Moves, Places, Removals DEF Clean, Mark, KindsKept, TurnsOnly, Owning,
       Leaving, Ended, WriterKept, SentinelNotLeaked, WriterAlive, procs
  <2>25. CASE UNCHANGED vars
    BY <2>25, <2>0, Moves, Places DEF KindsKept, TurnsOnly, Owning, Leaving, Ended,
       WriterKept, SentinelNotLeaked, WriterAlive, procs, vars, files, memory, procs,
       history
  <2>26. QED
    BY <1>2, <2>1, <2>2, <2>3, <2>4, <2>5, <2>6, <2>7, <2>8, <2>9, <2>10, <2>11, <2>12,
       <2>13, <2>14, <2>15, <2>16, <2>17, <2>18, <2>19, <2>20, <2>21, <2>22, <2>23,
       <2>24, <2>25 DEF Next, TaskStep, ProcStep
<1>3. QED
  BY <1>1, <1>2

(* A turn that has the session has the sentinel, until it is taken.        *)
LEMMA HolderInductive ==
  /\ Init => HolderKept
  /\ TypeOK /\ KindsKept /\ HolderKept /\ [Next]_vars => HolderKept'
<1>1. Init => HolderKept
  BY DEF Init, HolderKept, Holders, Owning, Leaving
<1>2. ASSUME TypeOK, KindsKept, HolderKept, [Next]_vars
      PROVE  HolderKept'
  <2> DEFINE Goal == HolderKept'
  <2>0. /\ TypeOK /\ KindsKept /\ HolderKept
        /\ \A t \in Tasks :
             /\ [task |-> t, life |-> life[Home[t]], text |-> FALSE, kept |-> FALSE] # NoBusy
             /\ [task |-> t, life |-> life[Home[t]], text |-> TRUE, kept |-> FALSE] # NoBusy
             /\ [task |-> t, life |-> life[Home[t]], text |-> FALSE, kept |-> TRUE] # NoBusy
    BY <1>2, SentinelTypes, AbsenceAssumption
  <2>00. hazards' \intersect Seizures = {} => \A t \in Holders : busy # NoBusy /\ busy.task = t
    BY <1>2, HazardsGrow DEF HolderKept
  <2>1. ASSUME NEW t \in Tasks, AcquireBusy(t)
         PROVE  Goal
    <3>1. \/ /\ busy = NoBusy /\ pc'[t] = "write"
             /\ busy' = [task |-> t, life |-> life[Home[t]], text |-> FALSE, kept |-> FALSE]
          \/ busy' = busy /\ pc'[t] \in {"probe", "io_error"}
      BY <2>1, <2>0, Moves, Places DEF AcquireBusy, CreateBusy, OwnBusy
    <3>2. \A o \in Tasks : o # t => pc'[o] = pc[o]
      BY <2>1, <2>0, Moves, Places DEF AcquireBusy
    <3>3. QED
      BY <2>1, <2>0, <2>00, <3>1, <3>2 DEF HolderKept, Holders, Owning, Leaving
  <2>2. ASSUME NEW t \in Tasks, Probe(t)
         PROVE  Goal
    BY <2>2, <2>0, Moves, Places DEF Probe, Runs, KindsKept, TurnsOnly, Owning, Leaving,
       Ended, HolderKept, Holders, Seizures, history
  <2>3. ASSUME NEW t \in Tasks, Steal(t)
         PROVE  Goal
    <3>1. /\ pc'[t] = "recreate" /\ \A o \in Tasks : o # t => pc'[o] = pc[o]
          /\ ForeignBusy(t) => "steal_race" \in hazards'
      BY <2>3, <2>0, Moves, Places DEF Steal, Mark
    <3>2. SUFFICES ASSUME hazards' \intersect Seizures = {}, NEW o \in Holders'
                   PROVE  FALSE
      BY DEF HolderKept
    <3>3. o \in Holders /\ o # t
      BY <3>1, <3>2 DEF Holders, Owning, Leaving
    <3>4. ForeignBusy(t)
      BY <2>00, <3>2, <3>3 DEF ForeignBusy
    <3>5. QED
      BY <3>1, <3>2, <3>4 DEF Seizures
  <2>4. ASSUME NEW t \in Tasks, Recreate(t)
         PROVE  Goal
    <3>1. \/ /\ busy = NoBusy /\ pc'[t] = "write"
             /\ busy' = [task |-> t, life |-> life[Home[t]], text |-> FALSE, kept |-> FALSE]
          \/ busy' = busy /\ pc'[t] \in {"probe", "io_error"}
      BY <2>4, <2>0, Moves, Places DEF Recreate, CreateBusy, OwnBusy
    <3>2. \A o \in Tasks : o # t => pc'[o] = pc[o]
      BY <2>4, <2>0, Moves, Places DEF Recreate
    <3>3. QED
      BY <2>4, <2>0, <2>00, <3>1, <3>2 DEF HolderKept, Holders, Owning, Leaving
  <2>5. ASSUME NEW t \in Tasks, WriteBusy(t)
         PROVE  Goal
    <3>1. /\ pc[t] = "write" /\ \A o \in Tasks : o # t => pc'[o] = pc[o]
          /\ \/ /\ pc'[t] = "enter"
                /\ busy' = [task |-> t, life |-> life[Home[t]], text |-> TRUE, kept |-> FALSE]
             \/ pc'[t] = "io_error"
      BY <2>5, <2>0, Moves, Places DEF WriteBusy, OwnBusy, Runs
    <3>2. t \in Holders
      BY <2>0, <3>1 DEF Holders, KindsKept, TurnsOnly, Owning
    <3>3. QED
      BY <2>0, <2>00, <3>1, <3>2 DEF HolderKept, Holders, Owning, Leaving
  <2>6. ASSUME NEW t \in Tasks, Enter(t)
         PROVE  Goal
    BY <2>6, <2>0, Moves, Places DEF Enter, Runs, Mark, Unlocked, Entry, KindsKept,
       TurnsOnly, Owning, Leaving, Ended, HolderKept, Holders, Seizures, history
  <2>7. ASSUME NEW t \in Tasks, Load(t)
         PROVE  Goal
    BY <2>7, <2>0, Moves, Places DEF Load, Runs, KindsKept, TurnsOnly, Owning, Leaving,
       Ended, HolderKept, Holders, Seizures, history
  <2>8. ASSUME NEW t \in Tasks, EndTurn(t)
         PROVE  Goal
    BY <2>8, <2>0, Moves, Places DEF EndTurn, Runs, Unlocked, Entry, Commits, Merged,
       KindsKept, TurnsOnly, Owning, Leaving, Ended, HolderKept, Holders, Seizures,
       history
  <2>9. ASSUME NEW t \in Tasks, ReleaseBusy(t)
         PROVE  Goal
    BY <2>9, <2>0, Moves, Places DEF ReleaseBusy, Runs, Mark, Leaving, KindsKept,
       TurnsOnly, Owning, Ended, HolderKept, Holders, Seizures, history
  <2>10. ASSUME NEW t \in Tasks, Panic(t)
         PROVE  Goal
    BY <2>10, <2>0, Moves, Places DEF Panic, Runs, KindsKept, TurnsOnly, Owning,
       Leaving, Ended, HolderKept, Holders, Seizures, history
  <2>11. ASSUME NEW t \in Tasks, Update(t)
         PROVE  Goal
    BY <2>11, <2>0, Moves, Places DEF Update, Runs, Mark, Unlocked, Entry, Adjusted,
       KindsKept, TurnsOnly, Owning, Leaving, Ended, HolderKept, Holders, Seizures,
       history
  <2>12. ASSUME NEW t \in Tasks, UpdateCold(t)
         PROVE  Goal
    BY <2>12, <2>0, Moves, Places DEF UpdateCold, Runs, Adjusted, KindsKept, TurnsOnly,
       Owning, Leaving, Ended, HolderKept, Holders, Seizures, history
  <2>13. ASSUME NEW t \in Tasks, Stage(t)
         PROVE  Goal
    BY <2>13, <2>0, Moves, Places DEF Stage, Runs, Mark, PersistFails, KindsKept,
       TurnsOnly, Owning, Leaving, Ended, HolderKept, Holders, Seizures, history
  <2>14. ASSUME NEW t \in Tasks, Replace(t)
         PROVE  Goal
    BY <2>14, <2>0, Moves, Places DEF Replace, Runs, PersistFails, Entry, KindsKept,
       TurnsOnly, Owning, Leaving, Ended, HolderKept, Holders, Seizures, history
  <2>15. ASSUME NEW t \in Tasks, Get(t)
         PROVE  Goal
    BY <2>15, <2>0, Moves, Places DEF Get, Runs, KindsKept, TurnsOnly, Owning, Leaving,
       Ended, HolderKept, Holders, Seizures, history
  <2>16. ASSUME NEW t \in Tasks, GetFetch(t)
         PROVE  Goal
    BY <2>16, <2>0, Moves, Places DEF GetFetch, Runs, KindsKept, TurnsOnly, Owning,
       Leaving, Ended, HolderKept, Holders, Seizures, history
  <2>17. ASSUME NEW t \in Tasks, GetFill(t)
         PROVE  Goal
    BY <2>17, <2>0, Moves, Places DEF GetFill, Runs, Mark, Entry, Unlocked, KindsKept,
       TurnsOnly, Owning, Leaving, Ended, HolderKept, Holders, Seizures, history
  <2>18. ASSUME NEW t \in Tasks, Forget(t)
         PROVE  Goal
    BY <2>18, <2>0, Moves, Places DEF Forget, Runs, Overlap, Unlocked, KindsKept,
       TurnsOnly, Owning, Leaving, Ended, HolderKept, Holders, Seizures, history
  <2>19. ASSUME NEW t \in Tasks, RemoveFile(t)
         PROVE  Goal
    BY <2>19, <2>0, Moves, Places DEF RemoveFile, Runs, Overlap, KindsKept, TurnsOnly,
       Owning, Leaving, Ended, HolderKept, Holders, Seizures, history
  <2>20. ASSUME NEW t \in Tasks, RemoveBusy(t)
         PROVE  Goal
    BY <2>20, <2>0, Moves, Places DEF RemoveBusy, Runs, Overlap, KindsKept, TurnsOnly,
       Owning, Leaving, Ended, HolderKept, Holders, Seizures, history
  <2>21. ASSUME NEW p \in Procs, Crash(p)
         PROVE  Goal
    BY <2>21, <2>0, Moves, Places DEF Crash, KindsKept, TurnsOnly, Owning, Leaving,
       Ended, HolderKept, Holders, Seizures, history
  <2>22. ASSUME NEW p \in Procs, Start(p)
         PROVE  Goal
    BY <2>22, <2>0, Moves, Places DEF Start, KindsKept, TurnsOnly, Owning, Leaving,
       Ended, HolderKept, Holders, Seizures, history
  <2>23. ASSUME NEW p \in Procs, Scan(p)
         PROVE  Goal
    BY <2>23, <2>0, Moves, Places DEF Scan, KindsKept, TurnsOnly, Owning, Leaving,
       Ended, HolderKept, Holders, Seizures, history
  <2>24. ASSUME NEW p \in Procs, Clean(p)
         PROVE  Goal
    BY <2>24, <2>0, Moves, Places DEF Clean, Mark, KindsKept, TurnsOnly, Owning,
       Leaving, Ended, HolderKept, Holders, Seizures, history
  <2>25. CASE UNCHANGED vars
    BY <2>25, <2>0, Moves, Places DEF KindsKept, TurnsOnly, Owning, Leaving, Ended,
       HolderKept, Holders, Seizures, history, vars, files, memory, procs, history
  <2>26. QED
    BY <1>2, <2>1, <2>2, <2>3, <2>4, <2>5, <2>6, <2>7, <2>8, <2>9, <2>10, <2>11, <2>12,
       <2>13, <2>14, <2>15, <2>16, <2>17, <2>18, <2>19, <2>20, <2>21, <2>22, <2>23,
       <2>24, <2>25 DEF Next, TaskStep, ProcStep
<1>3. QED
  BY <1>1, <1>2

-----------------------------------------------------------------------------
(* The generation of the turn at work, and the deleted file.               *)
LEMMA GenerationInductive ==
  /\ Init => GenerationKept
  /\ TypeOK /\ KindsKept /\ HolderKept /\ GenerationKept /\ [Next]_vars => GenerationKept'
<1>1. Init => GenerationKept
  BY DEF Init, GenerationKept
<1>2. ASSUME TypeOK, KindsKept, HolderKept, GenerationKept, [Next]_vars
      PROVE  GenerationKept'
  <2> DEFINE Goal == GenerationKept'
             Calm == hazards \intersect ({"stale_fill"} \union Seizures) = {}
             Held(t) == Entry(t) # NoEntry /\ Entry(t).generation = gen[t]
  <2>0. TypeOK /\ KindsKept /\ \A t \in Tasks : Home[t] \in Procs
    BY <1>2, StoreAssumption
  <2>00. Calm' => /\ Calm
                  /\ \A t \in Tasks :
                       /\ pc[t] \notin {"drop_deleted", "drop_stale", "deleted", "stale"}
                       /\ pc[t] = "working" => Held(t)
                  /\ \A t, o \in Holders : t = o
    <3>1. Calm' => Calm
      BY <1>2, HazardsGrow
    <3>2. QED
      BY <1>2, <3>1 DEF GenerationKept, HolderKept
  <2>000. /\ \A t \in Tasks : pc[t] \in {"enter", "load", "working"} => t \in Holders
          /\ (Calm' => \A t \in Tasks :
                /\ pc'[t] \notin {"drop_deleted", "drop_stale", "deleted", "stale"}
                /\ pc'[t] = "working" => Held(t)') => GenerationKept'
    BY <2>0 DEF Holders, Owning, KindsKept, TurnsOnly, GenerationKept
  <2>1. ASSUME NEW t \in Tasks, AcquireBusy(t)
         PROVE  Goal
    BY <2>1, <2>0, <2>00, <2>000, Moves, Places DEF AcquireBusy, Runs, CreateBusy, OwnBusy,
       Entry, Leaving, memory, history
  <2>2. ASSUME NEW t \in Tasks, Probe(t)
         PROVE  Goal
    BY <2>2, <2>0, <2>00, <2>000, Moves, Places DEF Probe, Runs, Entry, Leaving, memory,
       history
  <2>3. ASSUME NEW t \in Tasks, Steal(t)
         PROVE  Goal
    BY <2>3, <2>0, <2>00, <2>000, Moves, Places DEF Steal, Runs, Mark, Entry, Leaving,
       memory, history
  <2>4. ASSUME NEW t \in Tasks, Recreate(t)
         PROVE  Goal
    BY <2>4, <2>0, <2>00, <2>000, Moves, Places DEF Recreate, Runs, CreateBusy, OwnBusy, Entry,
       Leaving, memory, history
  <2>5. ASSUME NEW t \in Tasks, WriteBusy(t)
         PROVE  Goal
    BY <2>5, <2>0, <2>00, <2>000, Moves, Places DEF WriteBusy, OwnBusy, Runs, Mark, Entry,
       Leaving, memory, history
  <2>6. ASSUME NEW t \in Tasks, Enter(t)
         PROVE  Goal
    <3>1. /\ OthersKept(t) /\ pc[t] = "enter" /\ pc'[t] \in {"working", "load"}
          /\ pc'[t] = "working" =>
               /\ live'[Home[t]] \in Entries /\ live'[Home[t]].generation = gen'[t]
          /\ pc'[t] = "load" => live' = live /\ gen' = gen
          /\ \A o \in Tasks : o # t => gen'[o] = gen[o]
      <4>1. CASE Entry(t) = NoEntry
        BY <2>6, <2>0, <4>1, EnterEffect
      <4>2. CASE Entry(t) # NoEntry
        <5> DEFINE n == Entry(t).generation + 1
        <5>1. /\ OthersKept(t) /\ pc[t] = "enter" /\ pc'[t] = "working"
              /\ Entry(t).generation \in Nat
              /\ live'[Home[t]] = [session |-> Entry(t).session, generation |-> n]
              /\ live'[Home[t]] \in Entries /\ gen' = [gen EXCEPT ![t] = n]
          BY <2>6, <2>0, <4>2, EnterEffect
        <5>2. n \in Nat
          BY <5>1
        <5> HIDE DEF n
        <5>3. gen'[t] = n /\ \A o \in Tasks : o # t => gen'[o] = gen[o]
          BY <2>0, <5>1, <5>2, Copies
        <5>4. QED
          BY <5>1, <5>3
      <4>3. QED
        BY <4>1, <4>2
    <3>2. Calm' => \A o \in Tasks : o # t => pc[o] # "working"
      BY <2>00, <2>000, <3>1
    <3>3. QED
      BY <2>0, <2>00, <2>000, <3>1, <3>2, AbsenceAssumption DEF OthersKept, Entry
  <2>7. ASSUME NEW t \in Tasks, Load(t)
         PROVE  Goal
    <3>1. /\ OthersKept(t) /\ pc[t] = "load" /\ pc'[t] \in {"working", "abandon"}
          /\ pc'[t] = "working" =>
               /\ live'[Home[t]] \in Entries /\ live'[Home[t]].generation = gen'[t]
          /\ \A o \in Tasks : o # t => gen'[o] = gen[o]
      BY <2>7, <2>0, LoadEffect, Copies
    <3>2. Calm' => \A o \in Tasks : o # t => pc[o] # "working"
      BY <2>00, <2>000, <3>1
    <3>3. QED
      BY <2>0, <2>00, <2>000, <3>1, <3>2, AbsenceAssumption DEF OthersKept, Entry
  <2>8. ASSUME NEW t \in Tasks, EndTurn(t)
         PROVE  Goal
    BY <2>8, <2>0, <2>00, <2>000, Moves, Places DEF EndTurn, Runs, Unlocked, Entry,
       Commits, Merged, Leaving, memory, history
  <2>9. ASSUME NEW t \in Tasks, ReleaseBusy(t)
         PROVE  Goal
    BY <2>9, <2>0, <2>00, <2>000, Moves, Places DEF ReleaseBusy, Runs, Mark, Leaving,
       Entry, memory, history
  <2>10. ASSUME NEW t \in Tasks, Panic(t)
         PROVE  Goal
    BY <2>10, <2>0, <2>00, <2>000, Moves, Places DEF Panic, Runs, Entry, Leaving,
       memory, history
  <2>11. ASSUME NEW t \in Tasks, Update(t)
         PROVE  Goal
    BY <2>11, <2>0, <2>00, <2>000, Moves, Places DEF Update, Runs, Mark, Unlocked,
       Entry, Adjusted, Leaving, memory, history
  <2>12. ASSUME NEW t \in Tasks, UpdateCold(t)
         PROVE  Goal
    BY <2>12, <2>0, <2>00, <2>000, Moves, Places DEF UpdateCold, Runs, Adjusted, Entry,
       Leaving, memory, history
  <2>13. ASSUME NEW t \in Tasks, Stage(t)
         PROVE  Goal
    BY <2>13, <2>0, <2>00, <2>000, Moves, Places DEF Stage, Runs, Mark, PersistFails,
       Entry, Leaving, memory, history
  <2>14. ASSUME NEW t \in Tasks, Replace(t)
         PROVE  Goal
    <3>1. /\ OthersKept(t) /\ pc'[t] \in {"release", "done", "drop_io", "failed"}
          /\ gen' = gen
          /\ \/ live'[Home[t]] = Entry(t)
             \/ /\ Entry(t) # NoEntry
                /\ live'[Home[t]] = [session |-> copy[t], generation |-> Entry(t).generation]
      BY <2>14, <2>0, ReplaceEffect DEF Entry
    <3>2. [session |-> copy[t], generation |-> Entry(t).generation] \in Entries
            \/ Entry(t) = NoEntry
      BY <2>0, EntryTypes
    <3>3. QED
      BY <2>0, <2>00, <2>000, <3>1, <3>2, AbsenceAssumption DEF OthersKept, Entry
  <2>15. ASSUME NEW t \in Tasks, Get(t)
         PROVE  Goal
    BY <2>15, <2>0, <2>00, <2>000, Moves, Places DEF Get, Runs, Entry, Leaving, memory,
       history
  <2>16. ASSUME NEW t \in Tasks, GetFetch(t)
         PROVE  Goal
    BY <2>16, <2>0, <2>00, <2>000, Moves, Places DEF GetFetch, Runs, Entry, Leaving,
       memory, history
  <2>17. ASSUME NEW t \in Tasks, GetFill(t)
         PROVE  Goal
    <3>1. /\ OthersKept(t) /\ pc'[t] = "done" /\ gen' = gen
          /\ Entry(t) # NoEntry => "stale_fill" \in hazards'
      BY <2>17, <2>0, FillEffect
    <3>2. QED
      BY <2>0, <2>00, <2>000, <3>1 DEF OthersKept, Entry
  <2>18. ASSUME NEW t \in Tasks, Forget(t)
         PROVE  Goal
    <3>1. /\ pc'[t] \in {"remove_file", "remove_busy"} /\ gen' = gen
          /\ \A o \in Tasks : o # t => pc'[o] = pc[o]
          /\ Holders # {} => "overlap" \in hazards'
      BY <2>18, <2>0, Moves, Places DEF Forget, Overlap
    <3>2. Calm' => \A o \in Tasks : pc[o] # "working"
      BY <2>000, <3>1 DEF Seizures
    <3>3. QED
      BY <2>0, <2>00, <2>000, <3>1, <3>2
  <2>19. ASSUME NEW t \in Tasks, RemoveFile(t)
         PROVE  Goal
    BY <2>19, <2>0, <2>00, <2>000, Moves, Places DEF RemoveFile, Runs, Overlap, Entry,
       Leaving, memory, history
  <2>20. ASSUME NEW t \in Tasks, RemoveBusy(t)
         PROVE  Goal
    BY <2>20, <2>0, <2>00, <2>000, Moves, Places DEF RemoveBusy, Runs, Overlap, Entry,
       Leaving, memory, history
  <2>21. ASSUME NEW p \in Procs, Crash(p)
         PROVE  Goal
    <3>1. /\ gen' = gen /\ \A r \in Procs : r # p => live'[r] = live[r]
          /\ \A t \in Tasks : pc'[t] = pc[t] \/ (Home[t] = p /\ pc'[t] = "dead")
          /\ \A t \in Tasks : Home[t] = p => pc'[t] # "working"
      BY <2>21, <2>0 DEF Crash, TypeOK, Ended
    <3>2. QED
      BY <2>0, <2>00, <2>000, <3>1 DEF Entry
  <2>22. ASSUME NEW p \in Procs, Start(p)
         PROVE  Goal
    BY <2>22, <2>0, <2>00, <2>000, Moves, Places DEF Start, Entry, Leaving, memory,
       history
  <2>23. ASSUME NEW p \in Procs, Scan(p)
         PROVE  Goal
    BY <2>23, <2>0, <2>00, <2>000, Moves, Places DEF Scan, Entry, Leaving, memory,
       history
  <2>24. ASSUME NEW p \in Procs, Clean(p)
         PROVE  Goal
    BY <2>24, <2>0, <2>00, <2>000, Moves, Places DEF Clean, Mark, Entry, Leaving,
       memory, history
  <2>25. CASE UNCHANGED vars
    BY <2>25, <2>0, <2>00, <2>000, Moves, Places DEF Entry, Leaving, memory, history,
       vars, files, memory, procs, history
  <2>26. QED
    BY <1>2, <2>1, <2>2, <2>3, <2>4, <2>5, <2>6, <2>7, <2>8, <2>9, <2>10, <2>11, <2>12,
       <2>13, <2>14, <2>15, <2>16, <2>17, <2>18, <2>19, <2>20, <2>21, <2>22, <2>23,
       <2>24, <2>25 DEF Next, TaskStep, ProcStep
<1>3. QED
  BY <1>1, <1>2

LEMMA DeletionInductive ==
  /\ Init => DeletionKept
  /\ TypeOK /\ KindsKept /\ DeletionKept /\ [Next]_vars => DeletionKept'
<1>1. Init => DeletionKept
  BY DEF Init, DeletionKept, Writing
<1>2. ASSUME TypeOK, KindsKept, DeletionKept, [Next]_vars
      PROVE  DeletionKept'
  <2> DEFINE Goal == DeletionKept'
             Calm == hazards \intersect {"overlap", "stale_cache"} = {}
  <2>0. /\ TypeOK /\ KindsKept /\ NoSession \notin SessionValues
    BY <1>2, AbsenceAssumption
  <2>00. Calm' => /\ Calm /\ (deleted => disk = NoSession)
                  /\ \A t \in Tasks : pc[t] \in Writing => disk # NoSession
    <3>1. Calm' => Calm
      BY <1>2, HazardsGrow
    <3>2. QED
      BY <1>2, <3>1 DEF DeletionKept
  <2>000. (Calm' => /\ deleted' => disk' = NoSession
                    /\ \A t \in Tasks : pc'[t] \in Writing => disk' # NoSession)
            => DeletionKept'
    BY DEF DeletionKept
  <2> USE DEF Writing
  <2>1. ASSUME NEW t \in Tasks, AcquireBusy(t)
         PROVE  Goal
    BY <2>1, <2>0, <2>00, <2>000, Moves, Places DEF AcquireBusy, Runs, CreateBusy, OwnBusy,
       Leaving, Ended, files, history
  <2>2. ASSUME NEW t \in Tasks, Probe(t)
         PROVE  Goal
    BY <2>2, <2>0, <2>00, <2>000, Moves, Places DEF Probe, Runs, Leaving, Ended, files,
       history
  <2>3. ASSUME NEW t \in Tasks, Steal(t)
         PROVE  Goal
    BY <2>3, <2>0, <2>00, <2>000, Moves, Places DEF Steal, Runs, Mark, Leaving, Ended,
       files, history
  <2>4. ASSUME NEW t \in Tasks, Recreate(t)
         PROVE  Goal
    BY <2>4, <2>0, <2>00, <2>000, Moves, Places DEF Recreate, Runs, CreateBusy, OwnBusy, Leaving,
       Ended, files, history
  <2>5. ASSUME NEW t \in Tasks, WriteBusy(t)
         PROVE  Goal
    BY <2>5, <2>0, <2>00, <2>000, Moves, Places DEF WriteBusy, OwnBusy, Runs, Mark, Leaving,
       Ended, files, history
  <2>6. ASSUME NEW t \in Tasks, Enter(t)
         PROVE  Goal
    <3>1. /\ OthersKept(t) /\ disk' = disk /\ deleted' = deleted
          /\ \/ pc'[t] = "load"
             \/ /\ Entry(t).session \in SessionValues
                /\ Entry(t).session # disk => "stale_cache" \in hazards'
      BY <2>6, <2>0, EnterEffect DEF files
    <3>2. QED
      BY <2>0, <2>00, <2>000, <3>1 DEF OthersKept
  <2>7. ASSUME NEW t \in Tasks, Load(t)
         PROVE  Goal
    <3>1. /\ OthersKept(t) /\ disk' = disk /\ deleted' = deleted
          /\ pc'[t] = "abandon" \/ disk # NoSession
      BY <2>7, <2>0, LoadEffect DEF files, history
    <3>2. QED
      BY <2>0, <2>00, <2>000, <3>1 DEF OthersKept
  <2>8. ASSUME NEW t \in Tasks, EndTurn(t)
         PROVE  Goal
    BY <2>8, <2>0, <2>00, <2>000, Moves, Places DEF EndTurn, Runs, Unlocked, Entry,
       Commits, Merged, Leaving, Ended, files, history
  <2>9. ASSUME NEW t \in Tasks, ReleaseBusy(t)
         PROVE  Goal
    BY <2>9, <2>0, <2>00, <2>000, Moves, Places DEF ReleaseBusy, Runs, Mark, Leaving,
       Ended, files, history
  <2>10. ASSUME NEW t \in Tasks, Panic(t)
         PROVE  Goal
    BY <2>10, <2>0, <2>00, <2>000, Moves, Places DEF Panic, Runs, Leaving, Ended, files,
       history
  <2>11. ASSUME NEW t \in Tasks, Update(t)
         PROVE  Goal
    <3>1. /\ disk' = disk /\ deleted' = deleted /\ \A o \in Tasks : o # t => pc'[o] = pc[o]
          /\ \/ pc'[t] = "cold"
             \/ /\ Entry(t) # NoEntry
                /\ Entry(t).session # disk => "stale_cache" \in hazards'
      BY <2>11, <2>0, Moves, Places DEF Update, Mark, files, history
    <3>2. Entry(t) # NoEntry => Entry(t).session \in SessionValues
      BY <2>0, EntryTypes
    <3>3. QED
      BY <2>0, <2>00, <2>000, <3>1, <3>2
  <2>12. ASSUME NEW t \in Tasks, UpdateCold(t)
         PROVE  Goal
    BY <2>12, <2>0, <2>00, <2>000, Moves, Places DEF UpdateCold, Runs, Adjusted,
       Leaving, Ended, files, history
  <2>13. ASSUME NEW t \in Tasks, Stage(t)
         PROVE  Goal
    BY <2>13, <2>0, <2>00, <2>000, Moves, Places DEF Stage, Runs, Mark, PersistFails,
       Leaving, Ended, files, history
  <2>14. ASSUME NEW t \in Tasks, Replace(t)
         PROVE  Goal
    <3>1. /\ OthersKept(t) /\ pc[t] = "replace" /\ deleted' = deleted
          /\ pc'[t] \in {"release", "done", "drop_io", "failed"}
          /\ disk' = disk \/ disk' \in SessionValues
      BY <2>14, <2>0, ReplaceEffect
    <3>2. QED
      BY <2>0, <2>00, <2>000, <3>1 DEF OthersKept
  <2>15. ASSUME NEW t \in Tasks, Get(t)
         PROVE  Goal
    BY <2>15, <2>0, <2>00, <2>000, Moves, Places DEF Get, Runs, Leaving, Ended, files,
       history
  <2>16. ASSUME NEW t \in Tasks, GetFetch(t)
         PROVE  Goal
    BY <2>16, <2>0, <2>00, <2>000, Moves, Places DEF GetFetch, Runs, Leaving, Ended,
       files, history
  <2>17. ASSUME NEW t \in Tasks, GetFill(t)
         PROVE  Goal
    BY <2>17, <2>0, <2>00, <2>000, Moves, Places DEF GetFill, Runs, Mark, Entry,
       Unlocked, Leaving, Ended, files, history
  <2>18. ASSUME NEW t \in Tasks, Forget(t)
         PROVE  Goal
    <3>1. /\ pc'[t] \in {"remove_file", "remove_busy"} /\ disk' = disk /\ deleted' = deleted
          /\ \A o \in Tasks : o # t => pc'[o] = pc[o]
      BY <2>18, <2>0, Moves, Places DEF Forget, files
    <3>2. QED
      BY <2>0, <2>00, <2>000, <3>1
  <2>19. ASSUME NEW t \in Tasks, RemoveFile(t)
         PROVE  Goal
    <3>1. /\ pc'[t] = "remove_busy" /\ \A o \in Tasks : o # t => pc'[o] = pc[o]
          /\ disk' = NoSession \/ UNCHANGED <<disk, deleted>>
          /\ Modifying # {} => "overlap" \in hazards'
      BY <2>19, <2>0, Moves, Places DEF RemoveFile, Overlap
    <3>2. \A o \in Tasks : pc[o] \in Writing => o \in Modifying
      BY <2>0 DEF KindsKept, TurnsOnly, Modifying, Owners, Owning
    <3>3. QED
      BY <2>0, <2>00, <2>000, <3>1, <3>2
  <2>20. ASSUME NEW t \in Tasks, RemoveBusy(t)
         PROVE  Goal
    BY <2>20, <2>0, <2>00, <2>000, Moves, Places DEF RemoveBusy, Runs, Overlap, Leaving,
       Ended, files, history
  <2>21. ASSUME NEW p \in Procs, Crash(p)
         PROVE  Goal
    BY <2>21, <2>0, <2>00, <2>000, Moves, Places DEF Crash, Leaving, Ended, files,
       history
  <2>22. ASSUME NEW p \in Procs, Start(p)
         PROVE  Goal
    BY <2>22, <2>0, <2>00, <2>000, Moves, Places DEF Start, Leaving, Ended, files,
       history
  <2>23. ASSUME NEW p \in Procs, Scan(p)
         PROVE  Goal
    BY <2>23, <2>0, <2>00, <2>000, Moves, Places DEF Scan, Leaving, Ended, files,
       history
  <2>24. ASSUME NEW p \in Procs, Clean(p)
         PROVE  Goal
    BY <2>24, <2>0, <2>00, <2>000, Moves, Places DEF Clean, Mark, Leaving, Ended, files,
       history
  <2>25. CASE UNCHANGED vars
    BY <2>25, <2>0, <2>00, <2>000, Moves, Places DEF Leaving, Ended, files, history,
       vars, files, memory, procs, history
  <2>26. QED
    BY <1>2, <2>1, <2>2, <2>3, <2>4, <2>5, <2>6, <2>7, <2>8, <2>9, <2>10, <2>11, <2>12,
       <2>13, <2>14, <2>15, <2>16, <2>17, <2>18, <2>19, <2>20, <2>21, <2>22, <2>23,
       <2>24, <2>25 DEF Next, TaskStep, ProcStep
<1>3. QED
  BY <1>1, <1>2

-----------------------------------------------------------------------------
(* What is told Ok is in the file.                                         *)

(* A step that touches no task at work on the session, and not the file.   *)
LEMMA NeutralKeeps ==
  ASSUME CommitsOnFile, disk' = disk, tmp' \in {tmp, NoSession}, committed' = committed,
         \A o \in Tasks : pc'[o] \in Writing =>
           /\ pc[o] = pc'[o] /\ copy'[o] = copy[o] /\ gen'[o] = gen[o]
           /\ live'[Home[o]] = live[Home[o]]
  PROVE  CommitsOnFile'
<1>1. WorkKept'
  BY DEF CommitsOnFile, WorkKept, Entry, Writing
<1>2. WriteKept'
  BY DEF CommitsOnFile, WriteKept, Entry, Writing, Records
<1>3. GenerationsDiffer'
  BY DEF CommitsOnFile, GenerationsDiffer
<1>4. QED
  BY <1>1, <1>2, <1>3 DEF CommitsOnFile, Records

(* An update adds its change to what the file holds.                       *)
LEMMA AdjustedKeeps ==
  ASSUME TypeOK, CommitsOnFile, NEW t \in Tasks, Kind[t] = "update",
         disk \in SessionValues, disk # NoSession, pc'[t] = "stage",
         UNCHANGED <<disk, tmp, live, gen, committed>>,
         copy' = [copy EXCEPT ![t] = Adjusted(t, disk)],
         \A o \in Tasks : o # t => pc'[o] = pc[o]
  PROVE  CommitsOnFile'
<1>1. /\ copy'[t] = Adjusted(t, disk) /\ \A o \in Tasks : o # t => copy'[o] = copy[o]
      /\ Adjusted(t, disk).turns = disk.turns
      /\ Adjusted(t, disk).config = disk.config \union {t}
  BY SessionTypes DEF TypeOK
<1>2. WorkKept'
  BY <1>1 DEF CommitsOnFile, WorkKept, Entry
<1>3. WriteKept'
  BY <1>1 DEF CommitsOnFile, WriteKept, Entry, Records
<1>4. GenerationsDiffer'
  BY DEF CommitsOnFile, GenerationsDiffer
<1>5. QED
  BY <1>2, <1>3, <1>4 DEF CommitsOnFile, Records

LEMMA CommitInductive ==
  /\ Init => CommitKept
  /\ TypeOK /\ KindsKept /\ LockKept /\ CommitKept /\ [Next]_vars => CommitKept'
<1>1. Init => CommitKept
  BY DEF Init, CommitKept, CommitsOnFile, WorkKept, WriteKept, GenerationsDiffer, Writing
<1>2. ASSUME TypeOK, KindsKept, LockKept, CommitKept, [Next]_vars
      PROVE  CommitKept'
  <2> DEFINE Goal == CommitKept'
             Calm == hazards \intersect {"overlap", "stale_cache", "stale_fill"} = {}
  <2>0. /\ TypeOK /\ KindsKept /\ LockKept /\ NoSession \notin SessionValues
        /\ \A t \in Tasks : Home[t] \in Procs
    BY <1>2, StoreAssumption, AbsenceAssumption
  <2>00. Calm' => Calm /\ CommitsOnFile
    BY <1>2, HazardsGrow DEF CommitKept
  <2>000. (Calm' => CommitsOnFile') => CommitKept'
    BY DEF CommitKept
  <2>1. ASSUME NEW t \in Tasks, AcquireBusy(t)
         PROVE  Goal
    <3>1. /\ disk' = disk /\ tmp' \in {tmp, NoSession} /\ committed' = committed
          /\ \A o \in Tasks : pc'[o] \in Writing =>
               /\ pc[o] = pc'[o] /\ copy'[o] = copy[o] /\ gen'[o] = gen[o]
               /\ live'[Home[o]] = live[Home[o]]
      BY <2>1, <2>0, Moves, Places DEF AcquireBusy, Runs, CreateBusy, OwnBusy, Writing, files,
         memory, history
    <3>2. QED
      BY <2>00, <2>000, <3>1, NeutralKeeps
  <2>2. ASSUME NEW t \in Tasks, Probe(t)
         PROVE  Goal
    <3>1. /\ disk' = disk /\ tmp' \in {tmp, NoSession} /\ committed' = committed
          /\ \A o \in Tasks : pc'[o] \in Writing =>
               /\ pc[o] = pc'[o] /\ copy'[o] = copy[o] /\ gen'[o] = gen[o]
               /\ live'[Home[o]] = live[Home[o]]
      BY <2>2, <2>0, Moves, Places DEF Probe, Runs, Writing, files, memory, history
    <3>2. QED
      BY <2>00, <2>000, <3>1, NeutralKeeps
  <2>3. ASSUME NEW t \in Tasks, Steal(t)
         PROVE  Goal
    <3>1. /\ disk' = disk /\ tmp' \in {tmp, NoSession} /\ committed' = committed
          /\ \A o \in Tasks : pc'[o] \in Writing =>
               /\ pc[o] = pc'[o] /\ copy'[o] = copy[o] /\ gen'[o] = gen[o]
               /\ live'[Home[o]] = live[Home[o]]
      BY <2>3, <2>0, Moves, Places DEF Steal, Runs, Mark, Writing, files, memory, history
    <3>2. QED
      BY <2>00, <2>000, <3>1, NeutralKeeps
  <2>4. ASSUME NEW t \in Tasks, Recreate(t)
         PROVE  Goal
    <3>1. /\ disk' = disk /\ tmp' \in {tmp, NoSession} /\ committed' = committed
          /\ \A o \in Tasks : pc'[o] \in Writing =>
               /\ pc[o] = pc'[o] /\ copy'[o] = copy[o] /\ gen'[o] = gen[o]
               /\ live'[Home[o]] = live[Home[o]]
      BY <2>4, <2>0, Moves, Places DEF Recreate, Runs, CreateBusy, OwnBusy, Writing, files, memory,
         history
    <3>2. QED
      BY <2>00, <2>000, <3>1, NeutralKeeps
  <2>5. ASSUME NEW t \in Tasks, WriteBusy(t)
         PROVE  Goal
    <3>1. /\ disk' = disk /\ tmp' \in {tmp, NoSession} /\ committed' = committed
          /\ \A o \in Tasks : pc'[o] \in Writing =>
               /\ pc[o] = pc'[o] /\ copy'[o] = copy[o] /\ gen'[o] = gen[o]
               /\ live'[Home[o]] = live[Home[o]]
      BY <2>5, <2>0, Moves, Places DEF WriteBusy, OwnBusy, Runs, Mark, Writing, files, memory,
         history
    <3>2. QED
      BY <2>00, <2>000, <3>1, NeutralKeeps
  <2>6. ASSUME NEW t \in Tasks, Enter(t)
         PROVE  Goal
    <3>1. CASE Entry(t) = NoEntry
      <4>1. /\ pc'[t] = "load" /\ OthersKept(t) /\ UNCHANGED <<disk, tmp, committed>>
            /\ UNCHANGED <<live, gen, copy>>
        BY <2>6, <2>0, <3>1, EnterEffect DEF files
      <4>2. QED
        BY <2>00, <2>000, <4>1, NeutralKeeps DEF OthersKept, Writing
    <3>2. CASE Entry(t) # NoEntry
      <4> DEFINE n == Entry(t).generation + 1
      <4>1. /\ pc[t] = "enter" /\ pc'[t] = "working" /\ OthersKept(t) /\ Unlocked(t)
            /\ disk' = disk /\ tmp' = tmp /\ committed' = committed
            /\ Entry(t).session \in SessionValues /\ Entry(t).generation \in Nat
            /\ live'[Home[t]] \in Entries
            /\ live'[Home[t]] = [session |-> Entry(t).session, generation |-> n]
            /\ gen' = [gen EXCEPT ![t] = n] /\ copy' = [copy EXCEPT ![t] = Entry(t).session]
            /\ Entry(t).session # disk => "stale_cache" \in hazards'
        BY <2>6, <2>0, <3>2, EnterEffect DEF files
      <4>2. n \in Nat /\ n > Entry(t).generation
        BY <4>1
      <4> HIDE DEF n
      <4>3. /\ gen'[t] = n /\ copy'[t] = Entry(t).session
            /\ \A o \in Tasks : o # t => gen'[o] = gen[o] /\ copy'[o] = copy[o]
        BY <2>0, <4>1, <4>2, Copies
      <4>4. SUFFICES ASSUME Calm'
                     PROVE  CommitsOnFile'
        BY <2>000
      <4>5. CommitsOnFile /\ Entry(t).session = disk /\ disk # NoSession
        BY <2>0, <2>00, <4>1, <4>4
      <4>6. \A o \in Tasks : o # t /\ Home[o] = Home[t] =>
              /\ pc[o] \notin {"stage", "replace"}
              /\ pc[o] = "working" => gen[o] < n
        <5>1. \A o \in Tasks : o # t /\ Home[o] = Home[t] => pc[o] \notin {"stage", "replace"}
          BY <2>0, <4>1, OneUnderLock DEF Locking
        <5>2. ASSUME NEW o \in Tasks, Home[o] = Home[t], pc[o] = "working"
              PROVE  gen[o] < n
          <6>1. gen[o] <= Entry(t).generation /\ gen[o] \in Nat
            BY <2>0, <4>5, <5>2, EntryTypes DEF CommitsOnFile, WorkKept, Entry
          <6>2. QED
            BY <4>1, <4>2, <6>1
        <5>3. QED
          BY <5>1, <5>2
      <4>7. WorkKept'
        <5>1. SUFFICES ASSUME NEW o \in Tasks, pc'[o] = "working"
                       PROVE  /\ Entry(o)' # NoEntry /\ gen'[o] <= Entry(o)'.generation
                              /\ gen'[o] = Entry(o)'.generation =>
                                   Entry(o)'.session = disk' /\ copy'[o].turns = disk'.turns
          BY DEF WorkKept
        <5>2. CASE o = t
          BY <4>1, <4>2, <4>3, <4>5, <5>2, AbsenceAssumption DEF Entry
        <5>3. CASE o # t /\ Home[o] = Home[t]
          <6>1. pc[o] = "working" /\ gen'[o] = gen[o] /\ gen[o] < n /\ gen[o] \in Nat
            BY <2>0, <4>1, <4>3, <4>6, <5>1, <5>3, EntryTypes DEF OthersKept
          <6>2. Entry(o)' # NoEntry /\ Entry(o)'.generation = n
            BY <4>1, <5>3, AbsenceAssumption DEF Entry
          <6>3. QED
            BY <4>2, <6>1, <6>2
        <5>4. CASE Home[o] # Home[t]
          <6>1. pc[o] = "working" /\ gen'[o] = gen[o] /\ copy'[o] = copy[o] /\ Entry(o)' = Entry(o)
            BY <2>0, <4>1, <4>3, <5>1, <5>4 DEF OthersKept, Entry
          <6>2. QED
            BY <4>1, <4>5, <6>1 DEF CommitsOnFile, WorkKept
        <5>5. QED
          BY <5>2, <5>3, <5>4
      <4>8. WriteKept'
        <5>1. \A o \in Tasks : pc'[o] \in {"stage", "replace"} =>
                /\ o # t /\ pc[o] = pc'[o] /\ copy'[o] = copy[o] /\ gen'[o] = gen[o]
                /\ live'[Home[o]] = live[Home[o]]
          BY <2>0, <4>1, <4>3, <4>6 DEF OthersKept
        <5>2. QED
          BY <4>1, <4>5, <5>1 DEF CommitsOnFile, WriteKept, Entry, Records
      <4>9. GenerationsDiffer'
        <5>1. \A o \in Tasks : o # t /\ Home[o] = Home[t] /\ pc'[o] \in Writing => gen'[o] < n
          BY <4>1, <4>3, <4>6 DEF OthersKept, Writing
        <5>2. \A o \in Tasks : o # t => pc'[o] = pc[o] /\ gen'[o] = gen[o]
          BY <4>1, <4>3 DEF OthersKept
        <5>3. \A o \in Tasks : gen[o] \in Nat
          BY <2>0, EntryTypes
        <5>4. QED
          BY <4>2, <4>3, <4>5, <5>1, <5>2, <5>3 DEF CommitsOnFile, GenerationsDiffer
      <4>10. QED
        BY <4>1, <4>5, <4>7, <4>8, <4>9 DEF CommitsOnFile, Records
    <3>3. QED
      BY <3>1, <3>2
  <2>7. ASSUME NEW t \in Tasks, Load(t)
         PROVE  Goal
    <3>1. /\ pc[t] = "load" /\ OthersKept(t) /\ Entry(t) = NoEntry
          /\ disk' = disk /\ tmp' = tmp /\ committed' = committed
      BY <2>7, <2>0, LoadEffect DEF files, history, LockKept
    <3>2. CASE pc'[t] = "abandon"
      <4>1. UNCHANGED <<live, gen, copy>>
        BY <2>7, <2>0, <3>2, LoadEffect
      <4>2. QED
        BY <2>00, <2>000, <3>1, <3>2, <4>1, NeutralKeeps DEF OthersKept, Writing
    <3>3. CASE pc'[t] # "abandon"
      <4>1. /\ pc'[t] = "working" /\ disk \in SessionValues /\ disk # NoSession
            /\ live'[Home[t]] \in Entries
            /\ live'[Home[t]] = [session |-> disk, generation |-> 1]
            /\ gen' = [gen EXCEPT ![t] = 1] /\ copy' = [copy EXCEPT ![t] = disk]
        BY <2>7, <2>0, <3>3, LoadEffect
      <4>2. /\ gen'[t] = 1 /\ copy'[t] = disk
            /\ \A o \in Tasks : o # t => gen'[o] = gen[o] /\ copy'[o] = copy[o]
        BY <2>0, <4>1, Copies
      <4>3. SUFFICES ASSUME Calm'
                     PROVE  CommitsOnFile'
        BY <2>000
      <4>4. CommitsOnFile
        BY <2>00, <4>3
      <4>5. \A o \in Tasks : o # t /\ Home[o] = Home[t] => pc[o] \notin Writing
        <5>1. \A o \in Tasks : o # t /\ Home[o] = Home[t] => pc[o] \notin {"stage", "replace"}
          BY <2>0, <3>1, OneUnderLock DEF Locking
        <5>2. \A o \in Tasks : Home[o] = Home[t] => pc[o] # "working"
          BY <3>1, <4>4 DEF CommitsOnFile, WorkKept, Entry
        <5>3. QED
          BY <5>1, <5>2 DEF Writing
      <4>6. \A o \in Tasks : o # t /\ pc'[o] \in Writing =>
              /\ Home[o] # Home[t] /\ pc[o] = pc'[o] /\ copy'[o] = copy[o] /\ gen'[o] = gen[o]
              /\ live'[Home[o]] = live[Home[o]]
        BY <2>0, <3>1, <4>2, <4>5 DEF OthersKept
      <4>7. WorkKept'
        BY <3>1, <4>1, <4>2, <4>4, <4>6, AbsenceAssumption
           DEF CommitsOnFile, WorkKept, Entry, Writing
      <4>8. WriteKept'
        BY <3>1, <4>1, <4>4, <4>6 DEF CommitsOnFile, WriteKept, Entry, Records, Writing
      <4>9. GenerationsDiffer'
        BY <4>4, <4>6 DEF CommitsOnFile, GenerationsDiffer
      <4>10. QED
        BY <3>1, <4>1, <4>4, <4>7, <4>8, <4>9 DEF CommitsOnFile, Records
    <3>4. QED
      BY <3>2, <3>3
  <2>8. ASSUME NEW t \in Tasks, EndTurn(t)
         PROVE  Goal
    <3>1. /\ pc[t] = "working" /\ Unlocked(t) /\ Kind[t] = "turn"
          /\ UNCHANGED <<disk, tmp, live, gen, committed>>
          /\ \A o \in Tasks : o # t => pc'[o] = pc[o]
          /\ \/ pc'[t] \in {"drop_deleted", "drop_stale"} /\ copy' = copy
             \/ /\ Entry(t) # NoEntry /\ Entry(t).generation = gen[t]
                /\ pc'[t] = "stage" /\ copy' = [copy EXCEPT ![t] = Merged(t)]
      BY <2>8, <2>0, Moves, Places
         DEF EndTurn, Runs, Commits, files, history, KindsKept, TurnsOnly
    <3>2. CASE pc'[t] \in {"drop_deleted", "drop_stale"} /\ copy' = copy
      BY <2>00, <2>000, <3>1, <3>2, NeutralKeeps DEF Writing
    <3>3. CASE /\ Entry(t) # NoEntry /\ Entry(t).generation = gen[t]
               /\ pc'[t] = "stage" /\ copy' = [copy EXCEPT ![t] = Merged(t)]
      <4>1. SUFFICES ASSUME Calm'
                     PROVE  CommitsOnFile'
        BY <2>000
      <4>2. /\ CommitsOnFile /\ Entry(t).session = disk /\ copy[t].turns = disk.turns
            /\ disk # NoSession
        BY <2>00, <3>1, <3>3, <4>1 DEF CommitsOnFile, WorkKept, Writing
      <4>3. copy'[t] = Merged(t) /\ \A o \in Tasks : o # t => copy'[o] = copy[o]
        BY <2>0, <3>3 DEF TypeOK
      <4>4. Merged(t).turns = disk.turns \union {t} /\ Merged(t).config = disk.config
        BY <4>2 DEF Merged
      <4>5. WorkKept'
        BY <3>1, <3>3, <4>2, <4>3 DEF CommitsOnFile, WorkKept, Entry
      <4>6. WriteKept'
        BY <3>1, <3>3, <4>2, <4>3, <4>4 DEF CommitsOnFile, WriteKept, Entry, Records
      <4>7. GenerationsDiffer'
        BY <3>1, <3>3, <4>2 DEF CommitsOnFile, GenerationsDiffer, Writing
      <4>8. QED
        BY <3>1, <4>2, <4>5, <4>6, <4>7 DEF CommitsOnFile, Records
    <3>4. QED
      BY <3>1, <3>2, <3>3
  <2>9. ASSUME NEW t \in Tasks, ReleaseBusy(t)
         PROVE  Goal
    <3>1. /\ disk' = disk /\ tmp' \in {tmp, NoSession} /\ committed' = committed
          /\ \A o \in Tasks : pc'[o] \in Writing =>
               /\ pc[o] = pc'[o] /\ copy'[o] = copy[o] /\ gen'[o] = gen[o]
               /\ live'[Home[o]] = live[Home[o]]
      BY <2>9, <2>0, Moves, Places DEF ReleaseBusy, Runs, Mark, Leaving, Writing, files,
         memory, history
    <3>2. QED
      BY <2>00, <2>000, <3>1, NeutralKeeps
  <2>10. ASSUME NEW t \in Tasks, Panic(t)
         PROVE  Goal
    <3>1. /\ disk' = disk /\ tmp' \in {tmp, NoSession} /\ committed' = committed
          /\ \A o \in Tasks : pc'[o] \in Writing =>
               /\ pc[o] = pc'[o] /\ copy'[o] = copy[o] /\ gen'[o] = gen[o]
               /\ live'[Home[o]] = live[Home[o]]
      BY <2>10, <2>0, Moves, Places DEF Panic, Runs, Writing, files, memory, history
    <3>2. QED
      BY <2>00, <2>000, <3>1, NeutralKeeps
  <2>11. ASSUME NEW t \in Tasks, Update(t)
         PROVE  Goal
    <3>1. /\ Kind[t] = "update" /\ pc[t] = "idle"
          /\ UNCHANGED <<disk, tmp, live, gen, committed>>
          /\ \A o \in Tasks : o # t => pc'[o] = pc[o]
          /\ \/ pc'[t] = "cold" /\ copy' = copy
             \/ /\ Entry(t) # NoEntry /\ (Entry(t).session # disk => "stale_cache" \in hazards')
                /\ pc'[t] = "stage" /\ copy' = [copy EXCEPT ![t] = Adjusted(t, Entry(t).session)]
      BY <2>11, <2>0, Moves, Places DEF Update, Runs, Mark, files, history
    <3>2. CASE pc'[t] = "cold" /\ copy' = copy
      BY <2>00, <2>000, <3>1, <3>2, NeutralKeeps DEF Writing
    <3>3. CASE pc'[t] = "stage"
      <4>1. SUFFICES ASSUME Calm'
                     PROVE  CommitsOnFile'
        BY <2>000
      <4>2. CommitsOnFile /\ disk \in SessionValues /\ disk # NoSession
            /\ copy' = [copy EXCEPT ![t] = Adjusted(t, disk)]
        BY <2>0, <2>00, <3>1, <3>3, <4>1, EntryTypes
      <4>3. QED
        BY <2>0, <3>1, <3>3, <4>2, AdjustedKeeps
    <3>4. QED
      BY <3>1, <3>2, <3>3
  <2>12. ASSUME NEW t \in Tasks, UpdateCold(t)
         PROVE  Goal
    <3>1. /\ Kind[t] = "update" /\ pc[t] = "cold"
          /\ UNCHANGED <<disk, tmp, live, gen, committed>>
          /\ \A o \in Tasks : o # t => pc'[o] = pc[o]
          /\ \/ pc'[t] = "failed" /\ copy' = copy
             \/ /\ disk # NoSession
                /\ pc'[t] = "stage" /\ copy' = [copy EXCEPT ![t] = Adjusted(t, disk)]
      BY <2>12, <2>0, Moves, Places DEF UpdateCold, Runs, files, history, KindsKept
    <3>2. CASE pc'[t] = "failed" /\ copy' = copy
      BY <2>00, <2>000, <3>1, <3>2, NeutralKeeps DEF Writing
    <3>3. CASE pc'[t] = "stage"
      <4>1. SUFFICES ASSUME Calm'
                     PROVE  CommitsOnFile'
        BY <2>000
      <4>2. CommitsOnFile /\ disk \in SessionValues /\ disk # NoSession
            /\ copy' = [copy EXCEPT ![t] = Adjusted(t, disk)]
        BY <2>0, <2>00, <3>1, <3>3, <4>1 DEF TypeOK
      <4>3. QED
        BY <2>0, <3>1, <3>3, <4>2, AdjustedKeeps
    <3>4. QED
      BY <3>1, <3>2, <3>3
  <2>13. ASSUME NEW t \in Tasks, Stage(t)
         PROVE  Goal
    <3>1. /\ pc[t] = "stage" /\ UNCHANGED <<disk, live, gen, copy, committed>>
          /\ \A o \in Tasks : o # t => pc'[o] = pc[o]
          /\ \/ pc'[t] \in {"drop_io", "failed"} /\ tmp' = tmp
             \/ /\ pc'[t] = "replace" /\ tmp' = copy[t]
                /\ WriteOverlaps(t) => "overlap" \in hazards'
      BY <2>13, <2>0, Moves, Places DEF Stage, Runs, Mark, PersistFails, memory, history
    <3>2. CASE pc'[t] \in {"drop_io", "failed"} /\ tmp' = tmp
      BY <2>00, <2>000, <3>1, <3>2, NeutralKeeps DEF Writing
    <3>3. CASE pc'[t] = "replace"
      <4>1. SUFFICES ASSUME Calm'
                     PROVE  CommitsOnFile'
        BY <2>000
      <4>2. CommitsOnFile /\ ~WriteOverlaps(t)
        BY <2>00, <3>1, <3>3, <4>1
      <4>3. \A o \in Tasks : o # t => pc[o] \notin {"stage", "replace"}
        BY <2>0, <3>1, <4>2, OneUnderLock DEF WriteOverlaps, Modifying, Locking
      <4>4. WorkKept'
        BY <3>1, <3>3, <4>2 DEF CommitsOnFile, WorkKept, Entry
      <4>5. WriteKept'
        BY <3>1, <3>3, <4>2, <4>3 DEF CommitsOnFile, WriteKept, Entry, Records
      <4>6. GenerationsDiffer'
        BY <3>1, <3>3, <4>2 DEF CommitsOnFile, GenerationsDiffer, Writing
      <4>7. QED
        BY <3>1, <4>2, <4>4, <4>5, <4>6 DEF CommitsOnFile, Records, Writing
    <3>4. QED
      BY <3>1, <3>2, <3>3
  <2>14. ASSUME NEW t \in Tasks, Replace(t)
         PROVE  Goal
    <3>1. /\ pc[t] = "replace" /\ OthersKept(t) /\ UNCHANGED <<copy, gen>>
          /\ pc'[t] \in {"release", "done", "drop_io", "failed"}
          /\ \/ UNCHANGED <<disk, tmp, live, committed>>
             \/ /\ tmp # NoSession /\ disk' = tmp /\ committed' = committed \union {t}
                /\ WriteOverlaps(t) => "overlap" \in hazards'
                /\ Entry(t) = NoEntry => live' = live
                /\ Entry(t) # NoEntry =>
                     live'[Home[t]] = [session |-> copy[t], generation |-> Entry(t).generation]
      BY <2>14, <2>0, ReplaceEffect
    <3>2. CASE UNCHANGED <<disk, tmp, live, committed>>
      BY <2>00, <2>000, <3>1, <3>2, NeutralKeeps DEF Writing, OthersKept
    <3>3. CASE /\ tmp # NoSession /\ disk' = tmp /\ committed' = committed \union {t}
               /\ WriteOverlaps(t) => "overlap" \in hazards'
               /\ Entry(t) = NoEntry => live' = live
               /\ Entry(t) # NoEntry =>
                    live'[Home[t]] = [session |-> copy[t], generation |-> Entry(t).generation]
      <4>1. SUFFICES ASSUME Calm'
                     PROVE  CommitsOnFile'
        BY <2>000
      <4>2. CommitsOnFile /\ ~WriteOverlaps(t) /\ disk # NoSession
        BY <2>00, <3>1, <3>3, <4>1 DEF CommitsOnFile, Writing
      <4>3. /\ disk.turns \subseteq copy[t].turns /\ disk.config \subseteq copy[t].config
            /\ Records(copy[t], t) /\ disk' = copy[t]
            /\ Kind[t] = "update" => copy[t].turns = disk.turns
            /\ Kind[t] = "turn" => Entry(t) # NoEntry /\ Entry(t).generation = gen[t]
            /\ Kind[t] \in {"turn", "update"} /\ copy[t] \in SessionValues
        BY <2>0, <3>1, <3>3, <4>2, EntryTypes DEF CommitsOnFile, WriteKept, KindsKept
      <4>4. \A o \in Tasks : pc'[o] \in Writing =>
              /\ o # t /\ pc'[o] = "working" /\ pc[o] = "working"
              /\ Home[o] = Home[t] /\ Kind[o] = "turn"
        <5>1. \A o \in Tasks : pc'[o] \in Writing => o # t /\ pc'[o] = pc[o]
          BY <3>1 DEF OthersKept, Writing
        <5>2. \A o \in Tasks : pc[o] \in Writing => o \in Modifying
          BY <2>0 DEF KindsKept, TurnsOnly, Modifying, Owners, Owning, Writing
        <5>3. \A o \in Tasks : o # t => pc[o] \notin {"stage", "replace"}
          BY <2>0, <3>1, <4>2, OneUnderLock DEF WriteOverlaps, Modifying, Locking
        <5>4. QED
          BY <2>0, <4>2, <5>1, <5>2, <5>3 DEF WriteOverlaps, Writing, KindsKept, TurnsOnly
      <4>5. ASSUME NEW o \in Tasks, pc'[o] = "working"
            PROVE  /\ Entry(o)' # NoEntry /\ gen'[o] <= Entry(o)'.generation
                   /\ gen'[o] = Entry(o)'.generation =>
                        Entry(o)'.session = disk' /\ copy'[o].turns = disk'.turns
        <5>1. /\ o # t /\ pc[o] = "working" /\ Home[o] = Home[t] /\ Kind[o] = "turn"
              /\ Entry(o) = Entry(t)
          BY <4>4, <4>5 DEF Writing, Entry
        <5>2. /\ Entry(t) # NoEntry /\ gen[o] <= Entry(t).generation
              /\ gen[o] = Entry(t).generation => copy[o].turns = disk.turns
          BY <4>2, <5>1 DEF CommitsOnFile, WorkKept
        <5>3. Kind[t] = "turn" => gen[o] # gen[t]
          BY <3>1, <4>2, <5>1 DEF CommitsOnFile, GenerationsDiffer, Writing
        <5>4. /\ Entry(o)' = [session |-> copy[t], generation |-> Entry(t).generation]
              /\ Entry(o)' \in Entries
          BY <2>0, <3>3, <4>3, <5>1, <5>2, EntryTypes DEF Entry
        <5>5. Entry(o)' # NoEntry /\ gen'[o] <= Entry(o)'.generation
          BY <3>1, <5>2, <5>4, AbsenceAssumption
        <5>6. ASSUME gen'[o] = Entry(o)'.generation
              PROVE  Entry(o)'.session = disk' /\ copy'[o].turns = disk'.turns
          <6>1. gen[o] = Entry(t).generation
            BY <3>1, <5>4, <5>6
          <6>2. Kind[t] = "update"
            BY <4>3, <5>3, <6>1
          <6>3. QED
            BY <3>1, <4>3, <5>2, <5>4, <6>1, <6>2
        <5>7. QED
          BY <5>5, <5>6
      <4>6. WorkKept'
        BY <4>5 DEF WorkKept
      <4>7. WriteKept'
        BY <4>4 DEF WriteKept, Writing
      <4>8. GenerationsDiffer'
        BY <3>1, <4>2, <4>4 DEF CommitsOnFile, GenerationsDiffer, Writing
      <4>9. \A c \in committed' : Records(disk', c)
        BY <3>3, <4>2, <4>3 DEF CommitsOnFile, Records
      <4>10. disk' # NoSession
        BY <3>3
      <4>11. QED
        BY <4>6, <4>7, <4>8, <4>9, <4>10 DEF CommitsOnFile, Records
    <3>4. QED
      BY <3>1, <3>2, <3>3
  <2>15. ASSUME NEW t \in Tasks, Get(t)
         PROVE  Goal
    <3>1. /\ disk' = disk /\ tmp' \in {tmp, NoSession} /\ committed' = committed
          /\ \A o \in Tasks : pc'[o] \in Writing =>
               /\ pc[o] = pc'[o] /\ copy'[o] = copy[o] /\ gen'[o] = gen[o]
               /\ live'[Home[o]] = live[Home[o]]
      BY <2>15, <2>0, Moves, Places DEF Get, Runs, Writing, files, memory, history
    <3>2. QED
      BY <2>00, <2>000, <3>1, NeutralKeeps
  <2>16. ASSUME NEW t \in Tasks, GetFetch(t)
         PROVE  Goal
    <3>1. /\ disk' = disk /\ tmp' \in {tmp, NoSession} /\ committed' = committed
          /\ \A o \in Tasks : pc'[o] \in Writing =>
               /\ pc[o] = pc'[o] /\ copy'[o] = copy[o] /\ gen'[o] = gen[o]
               /\ live'[Home[o]] = live[Home[o]]
      BY <2>16, <2>0, Moves, Places DEF GetFetch, Runs, Writing, files, memory, history,
         TypeOK
    <3>2. QED
      BY <2>00, <2>000, <3>1, NeutralKeeps
  <2>17. ASSUME NEW t \in Tasks, GetFill(t)
         PROVE  Goal
    <3>1. /\ Unlocked(t) /\ OthersKept(t) /\ pc'[t] = "done"
          /\ UNCHANGED <<disk, tmp, copy, gen, committed>>
          /\ Entry(t) # NoEntry => "stale_fill" \in hazards'
      BY <2>17, <2>0, FillEffect DEF files
    <3>2. SUFFICES ASSUME Calm'
                   PROVE  CommitsOnFile'
      BY <2>000
    <3>3. CommitsOnFile /\ Entry(t) = NoEntry
      BY <2>00, <3>1, <3>2
    <3>4. \A o \in Tasks : pc'[o] \in Writing => pc[o] = pc'[o] /\ Home[o] # Home[t]
      <4>1. \A o \in Tasks : o # t /\ Home[o] = Home[t] => pc[o] \notin {"stage", "replace"}
        BY <2>0, <3>1, OneUnderLock DEF Locking
      <4>2. \A o \in Tasks : Home[o] = Home[t] => pc[o] # "working"
        BY <3>3 DEF CommitsOnFile, WorkKept, Entry
      <4>3. QED
        BY <3>1, <4>1, <4>2 DEF OthersKept, Writing
    <3>5. QED
      BY <2>0, <3>1, <3>3, <3>4, NeutralKeeps DEF OthersKept
  <2>18. ASSUME NEW t \in Tasks, Forget(t)
         PROVE  Goal
    <3>1. /\ pc'[t] \in {"remove_file", "remove_busy"}
          /\ UNCHANGED <<disk, tmp, copy, gen, committed>>
          /\ \A o \in Tasks : o # t => pc'[o] = pc[o]
          /\ Modifying # {} => "overlap" \in hazards'
      BY <2>18, <2>0, Moves, Places DEF Forget, Overlap, files
    <3>2. Calm' => \A o \in Tasks : pc'[o] \notin Writing
      <4>1. \A o \in Tasks : pc[o] \in Writing => o \in Modifying
        BY <2>0 DEF KindsKept, TurnsOnly, Modifying, Owners, Owning, Writing
      <4>2. QED
        BY <3>1, <4>1 DEF Writing
    <3>3. QED
      BY <2>00, <2>000, <3>1, <3>2, NeutralKeeps
  <2>19. ASSUME NEW t \in Tasks, RemoveFile(t)
         PROVE  Goal
    <3>1. /\ pc'[t] = "remove_busy" /\ disk' \in {disk, NoSession}
          /\ UNCHANGED committed
          /\ \A o \in Tasks : o # t => pc'[o] = pc[o]
          /\ Modifying # {} => "overlap" \in hazards'
      BY <2>19, <2>0, Moves, Places DEF RemoveFile, Overlap
    <3>2. Calm' => \A o \in Tasks : pc'[o] \notin Writing
      <4>1. \A o \in Tasks : pc[o] \in Writing => o \in Modifying
        BY <2>0 DEF KindsKept, TurnsOnly, Modifying, Owners, Owning, Writing
      <4>2. QED
        BY <3>1, <4>1 DEF Writing
    <3>3. QED
      BY <2>00, <2>000, <3>1, <3>2
         DEF CommitsOnFile, WorkKept, WriteKept, GenerationsDiffer, Writing
  <2>20. ASSUME NEW t \in Tasks, RemoveBusy(t)
         PROVE  Goal
    <3>1. /\ disk' = disk /\ tmp' \in {tmp, NoSession} /\ committed' = committed
          /\ \A o \in Tasks : pc'[o] \in Writing =>
               /\ pc[o] = pc'[o] /\ copy'[o] = copy[o] /\ gen'[o] = gen[o]
               /\ live'[Home[o]] = live[Home[o]]
      BY <2>20, <2>0, Moves, Places DEF RemoveBusy, Runs, Overlap, Writing, files, memory,
         history
    <3>2. QED
      BY <2>00, <2>000, <3>1, NeutralKeeps
  <2>21. ASSUME NEW p \in Procs, Crash(p)
         PROVE  Goal
    <3>1. /\ disk' = disk /\ tmp' \in {tmp, NoSession} /\ committed' = committed
          /\ \A o \in Tasks : pc'[o] \in Writing =>
               /\ pc[o] = pc'[o] /\ copy'[o] = copy[o] /\ gen'[o] = gen[o]
               /\ live'[Home[o]] = live[Home[o]]
      BY <2>21, <2>0, Moves, Places DEF Crash, Writing, files, memory, history, TypeOK,
         Ended
    <3>2. QED
      BY <2>00, <2>000, <3>1, NeutralKeeps
  <2>22. ASSUME NEW p \in Procs, Start(p)
         PROVE  Goal
    <3>1. /\ disk' = disk /\ tmp' \in {tmp, NoSession} /\ committed' = committed
          /\ \A o \in Tasks : pc'[o] \in Writing =>
               /\ pc[o] = pc'[o] /\ copy'[o] = copy[o] /\ gen'[o] = gen[o]
               /\ live'[Home[o]] = live[Home[o]]
      BY <2>22, <2>0, Moves, Places DEF Start, Writing, files, memory, history
    <3>2. QED
      BY <2>00, <2>000, <3>1, NeutralKeeps
  <2>23. ASSUME NEW p \in Procs, Scan(p)
         PROVE  Goal
    <3>1. /\ disk' = disk /\ tmp' \in {tmp, NoSession} /\ committed' = committed
          /\ \A o \in Tasks : pc'[o] \in Writing =>
               /\ pc[o] = pc'[o] /\ copy'[o] = copy[o] /\ gen'[o] = gen[o]
               /\ live'[Home[o]] = live[Home[o]]
      BY <2>23, <2>0, Moves, Places DEF Scan, Writing, files, memory, history
    <3>2. QED
      BY <2>00, <2>000, <3>1, NeutralKeeps
  <2>24. ASSUME NEW p \in Procs, Clean(p)
         PROVE  Goal
    <3>1. /\ disk' = disk /\ tmp' \in {tmp, NoSession} /\ committed' = committed
          /\ \A o \in Tasks : pc'[o] \in Writing =>
               /\ pc[o] = pc'[o] /\ copy'[o] = copy[o] /\ gen'[o] = gen[o]
               /\ live'[Home[o]] = live[Home[o]]
      BY <2>24, <2>0, Moves, Places DEF Clean, Mark, Writing, files, memory, history
    <3>2. QED
      BY <2>00, <2>000, <3>1, NeutralKeeps
  <2>25. CASE UNCHANGED vars
    BY <2>00, <2>000, <2>25, NeutralKeeps DEF vars, files, memory, history
  <2>26. QED
    BY <1>2, <2>1, <2>2, <2>3, <2>4, <2>5, <2>6, <2>7, <2>8, <2>9, <2>10, <2>11, <2>12,
       <2>13, <2>14, <2>15, <2>16, <2>17, <2>18, <2>19, <2>20, <2>21, <2>22, <2>23,
       <2>24, <2>25 DEF Next, TaskStep, ProcStep
<1>3. QED
  BY <1>1, <1>2

-----------------------------------------------------------------------------
(* The theorems.                                                           *)

LEMMA StoreInvInductive ==
  /\ Init => StoreInv
  /\ StoreInv /\ [Next]_vars => StoreInv'
<1>1. Init => StoreInv
  BY TypeInductive, KindsInductive, LockInductive, SentinelInductive, HolderInductive,
     GenerationInductive, DeletionInductive, CommitInductive DEF StoreInv
<1>2. ASSUME StoreInv, [Next]_vars
      PROVE  StoreInv'
  <2>1. /\ TypeOK /\ KindsKept /\ LockKept /\ WriterKept /\ SentinelNotLeaked
        /\ HolderKept /\ GenerationKept /\ DeletionKept /\ CommitKept
    BY <1>2 DEF StoreInv
  <2>2. TypeOK' /\ KindsKept' /\ LockKept'
    BY <1>2, <2>1, TypeInductive, KindsInductive, LockInductive
  <2>3. WriterKept' /\ SentinelNotLeaked' /\ HolderKept'
    BY <1>2, <2>1, SentinelInductive, HolderInductive
  <2>4. GenerationKept' /\ DeletionKept' /\ CommitKept'
    BY <1>2, <2>1, GenerationInductive, DeletionInductive, CommitInductive
  <2>5. QED
    BY <2>2, <2>3, <2>4 DEF StoreInv
<1>3. QED
  BY <1>1, <1>2

(* What the store keeps true in every reachable state: who has the lock,   *)
(* the sentinel and the generation, and what the file holds, each until    *)
(* one of the interleavings that break it has happened.                    *)
THEOREM Invariance == Spec => []StoreInv
<1>1. QED
  BY StoreInvInductive, PTL DEF Spec

(* The store's file, sentinel, map, lock and calls only take values of     *)
(* their types, whichever steps of tasks and crashes interleave.           *)
THEOREM TypeCorrect == Spec => []TypeOK
<1>1. StoreInv => TypeOK
  BY DEF StoreInv
<1>2. QED
  BY <1>1, Invariance, PTL

(* begin_turn gives the session to one turn at a time (busy.rs), unless a  *)
(* sentinel was taken from a turn in progress: by a second thief, by a     *)
(* starting process, or by delete or close.                                *)
THEOREM OneTurnOwns == Spec => []SoleOwner
<1>1. ASSUME StoreInv, hazards \intersect Seizures = {}
      PROVE  Cardinality(Owners) <= 1
  <2>1. Owners \subseteq {busy.task}
    BY <1>1 DEF StoreInv, HolderKept, Holders, Owners
  <2>2. IsFiniteSet({busy.task}) /\ Cardinality({busy.task}) = 1
    BY FS_Singleton
  <2>3. QED
    BY <2>1, <2>2, FS_Subset
<1>2. ASSUME StoreInv
      PROVE  SoleOwner
  <2>1. CASE hazards \intersect Seizures = {}
    <3>1. Owners \subseteq {busy.task}
      BY <1>2, <2>1 DEF StoreInv, HolderKept, Holders, Owners
    <3>2. IsFiniteSet(Owners)
      BY <3>1, FS_Singleton, FS_Subset
    <3>3. Cardinality(Owners) \in Nat
      BY <3>2, FS_CardinalityType
    <3>4. QED
      BY <1>1, <1>2, <2>1, <3>3 DEF SoleOwner
  <2>2. CASE hazards \intersect Seizures # {}
    BY <2>2 DEF SoleOwner
  <2>3. QED
    BY <2>1, <2>2
<1>3. StoreInv => SoleOwner
  BY <1>2
<1>4. QED
  BY <1>3, Invariance, PTL

(* What end_turn and update_session told their callers is on disk as long  *)
(* as the session is, unless a process worked from an entry older than the *)
(* file, a get put an old value back, or the session had two owners.       *)
THEOREM CommitsAreKept == Spec => []CommitsKept
<1>1. ASSUME StoreInv
      PROVE  CommitsKept
  <2>1. CASE hazards \intersect {"overlap", "stale_cache", "stale_fill"} = {}
    <3>1. disk # NoSession => \A t \in committed : Records(disk, t)
      BY <1>1, <2>1 DEF StoreInv, CommitKept, CommitsOnFile
    <3>2. disk # NoSession => \A t \in committed : t \in disk.turns \union disk.config
      BY <3>1 DEF Records
    <3>3. QED
      BY <3>2 DEF CommitsKept
  <2>2. CASE hazards \intersect {"overlap", "stale_cache", "stale_fill"} # {}
    BY <2>2 DEF CommitsKept
  <2>3. QED
    BY <2>1, <2>2
<1>2. StoreInv => CommitsKept
  BY <1>1
<1>3. QED
  BY <1>2, Invariance, PTL

(* delete is final (mod.rs): no turn, update or get in flight writes the   *)
(* session's file again, unless it worked while the session was deleted or *)
(* from an entry its process still kept.                                   *)
THEOREM DeletionsAreFinal == Spec => []DeletedStaysDeleted
<1>1. StoreInv => DeletedStaysDeleted
  BY DEF StoreInv, DeletionKept, DeletedStaysDeleted
<1>2. QED
  BY <1>1, Invariance, PTL

(* end_turn finds the entry of the generation begin_turn gave it: it loses *)
(* the turn's work to StaleGeneration or SessionDeleted only after a get   *)
(* filled the map over that entry, or the session was taken, deleted or    *)
(* closed meanwhile.                                                       *)
THEOREM TurnsFindTheirEntry == Spec => []TurnsCommit
<1>1. StoreInv => TurnsCommit
  BY DEF StoreInv, GenerationKept, TurnsCommit
<1>2. QED
  BY <1>1, Invariance, PTL

(* A sentinel that names a living process is that of a turn in progress    *)
(* there, of one that panicked or of one whose own removal of it failed:   *)
(* release_busy is on every other path of a turn.                          *)
THEOREM SentinelsAreReleased == Spec => []SentinelNotLeaked
<1>1. StoreInv => SentinelNotLeaked
  BY DEF StoreInv
<1>2. QED
  BY <1>1, Invariance, PTL
=============================================================================
