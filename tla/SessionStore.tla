----------------------------- MODULE SessionStore -----------------------------
(***************************************************************************)
(* agent-runtime's Store, seen from one session id: the JSON file, its     *)
(* temporary file and the busy sentinel that every server process shares,  *)
(* and the live map, with its lock and its generations, that each process  *)
(* keeps to itself.                                                        *)
(*                                                                         *)
(* A task is one call: a turn (begin_turn ... end_turn), update_session,   *)
(* get, delete or close.  A step is the code between two awaits at which   *)
(* another task or process may act: one file operation, or one stretch     *)
(* under the live map's write lock, which is held across file operations   *)
(* where the code does.  Processes crash and restart at any step.          *)
(***************************************************************************)
EXTENDS Integers, FiniteSets

CONSTANTS
  Procs,      (* server processes sharing the state directory *)
  Tasks,      (* calls of the store *)
  Home,       (* task -> its process *)
  Kind,       (* task -> which operation it is *)
  Workloads,  (* the sets of tasks that come to be called *)
  Faults,     (* the kinds of file operation that may fail *)
  StartTimes, (* the platform knows when a process started: Linux does *)
  NoTask, NoEntry, NoSession, NoBusy,
  MaxCrashes  (* bound: process -> how often it crashes *)

ASSUME StoreAssumption ==
  /\ Home \in [Tasks -> Procs]
  /\ Kind \in [Tasks -> {"turn", "update", "get", "delete", "close"}]
  /\ Workloads \subseteq SUBSET Tasks
  /\ Faults \subseteq {"write", "remove", "read"}
  /\ StartTimes \in BOOLEAN
  /\ NoTask \notin Tasks
  /\ MaxCrashes \in [Procs -> Nat]

VARIABLES
  disk,       (* the session's file, or NoSession *)
  tmp,        (* its temporary file, or NoSession *)
  busy,       (* the sentinel's file, or NoBusy *)
  live,       (* process -> its live entry, or NoEntry *)
  lock,       (* process -> the task holding the write lock, or NoTask *)
  up,         (* process -> down, scan or clean (Store::open), up *)
  life,       (* process -> incarnation (pid and start time) *)
  pc,         (* task -> progress *)
  copy,       (* task -> the session value it holds *)
  gen,        (* task -> the generation begin_turn returned *)
  committed,  (* history: turns and updates that were told Ok *)
  deleted,    (* history: the file has been removed by a delete *)
  hazards     (* history: the dangerous interleavings that have happened *)

files   == <<disk, tmp>>
memory  == <<live, lock>>
procs   == <<up, life>>
history == <<committed, deleted, hazards>>
vars    == <<files, busy, memory, procs, pc, copy, gen, history>>

(* Incarnations. *)
Lives == UNION {0..MaxCrashes[p] : p \in Procs}

(* A session is what turns added to its history and updates to its         *)
(* settings.                                                               *)
SessionValues == [turns : SUBSET Tasks, config : SUBSET Tasks]
Fresh == [turns |-> {}, config |-> {}]

(* A sentinel: the turn that wrote it, its process's incarnation, whether  *)
(* its text has been written yet and, for the properties, whether that     *)
(* turn has failed to remove it.                                           *)
Sentinels == [task : Tasks, life : Lives, text : BOOLEAN, kept : BOOLEAN]

Entries == [session : SessionValues, generation : Nat]

(* An absent file or entry is none of the values one could hold.           *)
ASSUME AbsenceAssumption ==
  NoSession \notin SessionValues /\ NoBusy \notin Sentinels /\ NoEntry \notin Entries

Owning  == {"write", "enter", "load", "working", "stage", "replace"}
Leaving == {"abandon", "release", "drop_deleted", "drop_stale", "drop_io"}
Ended   == {"done", "refused", "io_error", "not_found", "deleted", "stale",
            "failed", "panicked", "dead", "uncalled"}
Progress == {"idle", "probe", "steal", "recreate", "cold", "fetch", "fill",
             "remove_file", "remove_busy"} \union Owning \union Leaving \union Ended

Hazards == {"steal_race", "sweep", "overlap", "late_release", "stale_cache",
            "stale_fill"}

TypeOK ==
  /\ disk \in SessionValues \union {NoSession}
  /\ tmp \in SessionValues \union {NoSession}
  /\ busy \in Sentinels \union {NoBusy}
  /\ live \in [Procs -> Entries \union {NoEntry}]
  /\ lock \in [Procs -> Tasks \union {NoTask}]
  /\ up \in [Procs -> {"down", "scan", "clean", "up"}]
  /\ life \in [Procs -> Lives]
  /\ pc \in [Tasks -> Progress]
  /\ copy \in [Tasks -> SessionValues]
  /\ gen \in [Tasks -> Nat]
  /\ committed \subseteq Tasks
  /\ deleted \in BOOLEAN
  /\ hazards \subseteq Hazards

(* The session exists on disk; processes start at any time, and the tasks  *)
(* of one workload are called.                                             *)
Init ==
  /\ disk = Fresh
  /\ tmp = NoSession
  /\ busy = NoBusy
  /\ live = [p \in Procs |-> NoEntry]
  /\ lock = [p \in Procs |-> NoTask]
  /\ up = [p \in Procs |-> "down"]
  /\ life = [p \in Procs |-> 0]
  /\ \E calls \in Workloads :
       pc = [t \in Tasks |-> IF t \in calls THEN "idle" ELSE "uncalled"]
  /\ copy = [t \in Tasks |-> Fresh]
  /\ gen = [t \in Tasks |-> 0]
  /\ committed = {}
  /\ deleted = FALSE
  /\ hazards = {}

-----------------------------------------------------------------------------
Entry(t)       == live[Home[t]]
SetEntry(t, e) == live' = [live EXCEPT ![Home[t]] = e]

(* The write lock of the task's process is free, taken, given back.        *)
Unlocked(t)  == lock[Home[t]] = NoTask
TakeLock(t)  == lock' = [lock EXCEPT ![Home[t]] = t]
GiveLock(t)  == lock' = [lock EXCEPT ![Home[t]] = NoTask]

Goto(t, l)   == pc' = [pc EXCEPT ![t] = l]
Runs(t, l)   == pc[t] = l /\ up[Home[t]] = "up"

MayFail(operation) == operation \in Faults

(* The process that wrote the sentinel still runs ...                      *)
WriterAlive(b) == up[Home[b.task]] # "down" /\ life[Home[b.task]] = b.life

(* ... which process_start_time can tell on Linux; elsewhere it knows no   *)
(* start time, and every sentinel passes for one of a dead process.        *)
SeemsDead(b) == ~StartTimes \/ ~WriterAlive(b)

-----------------------------------------------------------------------------
(* History: which dangerous interleavings have happened.                   *)

Owners == {t \in Tasks : Kind[t] = "turn" /\ pc[t] \in Owning}

(* Turns that acquired the sentinel and have not released it yet.          *)
Holders == {t \in Tasks : Kind[t] = "turn" /\ pc[t] \in Owning \union Leaving}

(* Tasks between reading the session and writing it back.                  *)
Modifying == Owners \union {t \in Tasks : pc[t] \in {"cold", "stage", "replace"}}

Mark(h, condition) ==
  /\ hazards' = IF condition THEN hazards \union {h} ELSE hazards
  /\ UNCHANGED <<committed, deleted>>

(* The sentinel of some other turn that has yet to release it.             *)
ForeignBusy(t) ==
  /\ busy # NoBusy
  /\ busy.task \in Holders \ {t}

(* The session is written while another process modifies it.               *)
WriteOverlaps(t) == \E o \in Modifying : Home[o] # Home[t]

-----------------------------------------------------------------------------
(* begin_turn *)

(* What a turn writes over whatever sentinel is there.                     *)
OwnBusy(t, text) ==
  busy' = [task |-> t, life |-> life[Home[t]], text |-> text, kept |-> FALSE]

CreateBusy(t) == OwnBusy(t, FALSE)

(* remove_file names the sentinel, whoever's it is by now, and its failure *)
(* is ignored.                                                             *)
RemoveSentinel == busy' = NoBusy \/ (MayFail("remove") /\ UNCHANGED busy)

ReleaseSentinel(t) ==
  \/ busy' = NoBusy
  \/ /\ MayFail("remove")
     /\ busy' = IF busy # NoBusy /\ busy.task = t THEN [busy EXCEPT !.kept = TRUE] ELSE busy

(* Mutant: create in place of create_new: an existing sentinel is opened.  *)
AcquireBusyShared(t) ==
  /\ Kind[t] = "turn" /\ Runs(t, "idle")
  /\ \/ CreateBusy(t) /\ Goto(t, "write")
     \/ MayFail("write") /\ UNCHANGED busy /\ Goto(t, "io_error")
  /\ UNCHANGED <<files, memory, procs, copy, gen, history>>

(* create_new: the sentinel is created empty, or it exists, or the file    *)
(* system fails.                                                           *)
AcquireBusy(t) ==
  /\ Kind[t] = "turn" /\ Runs(t, "idle")
  /\ \/ busy = NoBusy /\ CreateBusy(t) /\ Goto(t, "write")
     \/ busy # NoBusy /\ UNCHANGED busy /\ Goto(t, "probe")
     \/ MayFail("write") /\ UNCHANGED busy /\ Goto(t, "io_error")
  /\ UNCHANGED <<files, memory, procs, copy, gen, history>>

(* stale_busy_sentinel: only a finished sentinel of a dead process is      *)
(* stale; one that vanished, is still empty or cannot be read is not.      *)
Probe(t) ==
  /\ Runs(t, "probe")
  /\ \/ Goto(t, IF busy # NoBusy /\ busy.text /\ SeemsDead(busy)
                THEN "steal" ELSE "refused")
     \/ MayFail("read") /\ Goto(t, "refused")
  /\ UNCHANGED <<files, busy, memory, procs, copy, gen, history>>

Steal(t) ==
  /\ Runs(t, "steal")
  /\ Mark("steal_race", ForeignBusy(t))
  /\ RemoveSentinel
  /\ Goto(t, "recreate")
  /\ UNCHANGED <<files, memory, procs, copy, gen>>

(* A sentinel created meanwhile is reported as a storage fault.            *)
Recreate(t) ==
  /\ Runs(t, "recreate")
  /\ \/ busy = NoBusy /\ CreateBusy(t) /\ Goto(t, "write")
     \/ /\ busy # NoBusy \/ MayFail("write")
        /\ UNCHANGED busy
        /\ Goto(t, "io_error")
  /\ UNCHANGED <<files, memory, procs, copy, gen, history>>

(* fs::write truncates or recreates the file; a failed write removes it,   *)
(* and when that fails too what was there, or an empty file, is left.      *)
WriteBusy(t) ==
  /\ Runs(t, "write")
  /\ \/ OwnBusy(t, TRUE) /\ Goto(t, "enter")
     \/ /\ MayFail("write")
        /\ \/ ReleaseSentinel(t)
           \/ /\ MayFail("remove")
              /\ busy' = [task |-> t, life |-> life[Home[t]], text |-> FALSE, kept |-> TRUE]
        /\ Goto(t, "io_error")
  /\ Mark("late_release", ForeignBusy(t))
  /\ UNCHANGED <<files, memory, procs, copy, gen>>

(* Mutant: begin_turn returns the generation it found.                     *)
EnterOldGeneration(t) ==
  /\ Runs(t, "enter") /\ Unlocked(t)
  /\ \/ /\ Entry(t) # NoEntry
        /\ SetEntry(t, [Entry(t) EXCEPT !.generation = @ + 1])
        /\ gen' = [gen EXCEPT ![t] = Entry(t).generation]
        /\ copy' = [copy EXCEPT ![t] = Entry(t).session]
        /\ Mark("stale_cache", Entry(t).session # disk)
        /\ Goto(t, "working")
        /\ UNCHANGED lock
     \/ /\ Entry(t) = NoEntry
        /\ TakeLock(t)
        /\ Goto(t, "load")
        /\ UNCHANGED <<live, gen, copy, history>>
  /\ UNCHANGED <<files, busy, procs>>

(* Under the lock: a live entry starts a new generation; without one the   *)
(* lock is kept while the file is read.                                    *)
Enter(t) ==
  /\ Runs(t, "enter") /\ Unlocked(t)
  /\ \/ /\ Entry(t) # NoEntry
        /\ SetEntry(t, [Entry(t) EXCEPT !.generation = @ + 1])
        /\ gen' = [gen EXCEPT ![t] = Entry(t).generation + 1]
        /\ copy' = [copy EXCEPT ![t] = Entry(t).session]
        /\ Mark("stale_cache", Entry(t).session # disk)
        /\ Goto(t, "working")
        /\ UNCHANGED lock
     \/ /\ Entry(t) = NoEntry
        /\ TakeLock(t)
        /\ Goto(t, "load")
        /\ UNCHANGED <<live, gen, copy, history>>
  /\ UNCHANGED <<files, busy, procs>>

(* A file that cannot be read or parsed is no session.                     *)
Load(t) ==
  /\ Runs(t, "load")
  /\ GiveLock(t)
  /\ \/ /\ disk # NoSession
        /\ SetEntry(t, [session |-> disk, generation |-> 1])
        /\ gen' = [gen EXCEPT ![t] = 1]
        /\ copy' = [copy EXCEPT ![t] = disk]
        /\ Goto(t, "working")
     \/ /\ disk = NoSession \/ MayFail("read")
        /\ Goto(t, "abandon")
        /\ UNCHANGED <<live, gen, copy>>
  /\ UNCHANGED <<files, busy, procs, history>>

-----------------------------------------------------------------------------
(* end_turn *)

(* Mutant: the turn's own settings are written back.                       *)
MergedOwn(t) == [copy[t] EXCEPT !.turns = @ \union {t}]

(* The history of the turn with the settings of the live entry.            *)
Merged(t) ==
  [turns |-> copy[t].turns \union {t}, config |-> Entry(t).session.config]

Commits(t, session) ==
  /\ copy' = [copy EXCEPT ![t] = session]
  /\ TakeLock(t)
  /\ Goto(t, "stage")

(* The entry must still be there, at the generation of the turn; then the  *)
(* merged session is written under the lock.                               *)
EndTurn(t) ==
  /\ Runs(t, "working") /\ Unlocked(t)
  /\ \/ Entry(t) = NoEntry /\ Goto(t, "drop_deleted") /\ UNCHANGED <<lock, copy>>
     \/ /\ Entry(t) # NoEntry /\ Entry(t).generation # gen[t]
        /\ Goto(t, "drop_stale")
        /\ UNCHANGED <<lock, copy>>
     \/ /\ Entry(t) # NoEntry /\ Entry(t).generation = gen[t]
        /\ Commits(t, Merged(t))
  /\ UNCHANGED <<files, busy, live, procs, gen, history>>

(* Mutant: a failed finalization keeps the sentinel.                       *)
ReleaseBusyOnSuccess(t) ==
  /\ \E l \in Leaving : Runs(t, l)
  /\ Mark("late_release", ForeignBusy(t))
  /\ IF pc[t] = "release" THEN ReleaseSentinel(t) ELSE UNCHANGED busy
  /\ Goto(t, CASE pc[t] = "abandon"      -> "not_found"
               [] pc[t] = "release"      -> "done"
               [] pc[t] = "drop_deleted" -> "deleted"
               [] pc[t] = "drop_stale"   -> "stale"
               [] pc[t] = "drop_io"      -> "failed")
  /\ UNCHANGED <<files, memory, procs, copy, gen>>

(* release_busy ends every path on which the turn got the sentinel; it     *)
(* removes whatever sentinel is there, and does not tell when it cannot.   *)
ReleaseBusy(t) ==
  /\ \E l \in Leaving : Runs(t, l)
  /\ Mark("late_release", ForeignBusy(t))
  /\ ReleaseSentinel(t)
  /\ Goto(t, CASE pc[t] = "abandon"      -> "not_found"
               [] pc[t] = "release"      -> "done"
               [] pc[t] = "drop_deleted" -> "deleted"
               [] pc[t] = "drop_stale"   -> "stale"
               [] pc[t] = "drop_io"      -> "failed")
  /\ UNCHANGED <<files, memory, procs, copy, gen>>

(* The work of the turn panics: end_turn is never called.                  *)
Panic(t) ==
  /\ Kind[t] = "turn" /\ Runs(t, "working")
  /\ Goto(t, "panicked")
  /\ UNCHANGED <<files, busy, memory, procs, copy, gen, history>>

-----------------------------------------------------------------------------
(* update_session *)

Adjusted(t, session) == [session EXCEPT !.config = @ \union {t}]

Update(t) ==
  /\ Kind[t] = "update" /\ Runs(t, "idle") /\ Unlocked(t)
  /\ TakeLock(t)
  /\ \/ /\ Entry(t) # NoEntry
        /\ copy' = [copy EXCEPT ![t] = Adjusted(t, Entry(t).session)]
        /\ Mark("stale_cache", Entry(t).session # disk)
        /\ Goto(t, "stage")
     \/ Entry(t) = NoEntry /\ Goto(t, "cold") /\ UNCHANGED <<copy, history>>
  /\ UNCHANGED <<files, busy, live, procs, gen>>

(* Mutant: a session that cannot be read is started afresh.                *)
UpdateColdFresh(t) ==
  /\ Runs(t, "cold")
  /\ copy' = [copy EXCEPT ![t] =
       Adjusted(t, IF disk = NoSession THEN Fresh ELSE disk)]
  /\ Goto(t, "stage")
  /\ UNCHANGED <<files, busy, memory, procs, gen, history>>

UpdateCold(t) ==
  /\ Runs(t, "cold")
  /\ \/ /\ disk # NoSession
        /\ copy' = [copy EXCEPT ![t] = Adjusted(t, disk)]
        /\ Goto(t, "stage")
        /\ UNCHANGED lock
     \/ /\ disk = NoSession \/ MayFail("read")
        /\ GiveLock(t)
        /\ Goto(t, "failed")
        /\ UNCHANGED copy
  /\ UNCHANGED <<files, busy, live, procs, gen, history>>

-----------------------------------------------------------------------------
(* write_atomic, called under the lock by end_turn and update_session *)

PersistFails(t) ==
  /\ GiveLock(t)
  /\ Goto(t, IF Kind[t] = "turn" THEN "drop_io" ELSE "failed")
  /\ UNCHANGED <<disk, live, history>>

Stage(t) ==
  /\ Runs(t, "stage")
  /\ \/ /\ tmp' = copy[t]
        /\ Goto(t, "replace")
        /\ Mark("overlap", WriteOverlaps(t))
        /\ UNCHANGED <<disk, memory>>
     \/ MayFail("write") /\ PersistFails(t) /\ UNCHANGED tmp
  /\ UNCHANGED <<busy, procs, copy, gen>>

(* The rename moves whatever the temporary file holds; it fails if that    *)
(* file is gone.  Then the live entry, if there is one, follows.           *)
Replace(t) ==
  /\ Runs(t, "replace")
  /\ \/ /\ tmp # NoSession
        /\ disk' = tmp
        /\ tmp' = NoSession
        /\ live' = IF Entry(t) = NoEntry THEN live
                   ELSE [live EXCEPT ![Home[t]].session = copy[t]]
        /\ GiveLock(t)
        /\ committed' = committed \union {t}
        /\ hazards' = hazards \union (IF WriteOverlaps(t) THEN {"overlap"} ELSE {})
        /\ Goto(t, IF Kind[t] = "turn" THEN "release" ELSE "done")
        /\ UNCHANGED deleted
     \/ /\ tmp = NoSession \/ MayFail("write")
        /\ PersistFails(t)
        /\ UNCHANGED tmp
  /\ UNCHANGED <<busy, procs, copy, gen>>

-----------------------------------------------------------------------------
(* get *)

Get(t) ==
  /\ Kind[t] = "get" /\ Runs(t, "idle") /\ Unlocked(t)
  /\ Goto(t, IF Entry(t) = NoEntry THEN "fetch" ELSE "done")
  /\ UNCHANGED <<files, busy, memory, procs, copy, gen, history>>

(* The file is read without any lock ...                                   *)
GetFetch(t) ==
  /\ Runs(t, "fetch")
  /\ \/ disk # NoSession /\ Goto(t, "fill") /\ copy' = [copy EXCEPT ![t] = disk]
     \/ /\ disk = NoSession \/ MayFail("read")
        /\ Goto(t, "done")
        /\ UNCHANGED copy
  /\ UNCHANGED <<files, busy, memory, procs, gen, history>>

(* ... and inserted at generation 0 over whatever entry is there by then.  *)
GetFill(t) ==
  /\ Runs(t, "fill") /\ Unlocked(t)
  /\ Mark("stale_fill", Entry(t) # NoEntry)
  /\ SetEntry(t, [session |-> copy[t], generation |-> 0])
  /\ Goto(t, "done")
  /\ UNCHANGED <<files, busy, lock, procs, copy, gen>>

-----------------------------------------------------------------------------
(* delete and close *)

Overlap ==
  hazards' = IF Modifying \union Holders # {} THEN hazards \union {"overlap"}
             ELSE hazards

(* The lock covers the removal from the map only.                          *)
Forget(t) ==
  /\ Kind[t] \in {"delete", "close"} /\ Runs(t, "idle") /\ Unlocked(t)
  /\ SetEntry(t, NoEntry)
  /\ Goto(t, IF Kind[t] = "delete" THEN "remove_file" ELSE "remove_busy")
  /\ Overlap
  /\ UNCHANGED <<files, busy, lock, procs, copy, gen, committed, deleted>>

(* A file that cannot be removed stays, and delete reports success.        *)
RemoveFile(t) ==
  /\ Runs(t, "remove_file")
  /\ \/ disk' = NoSession /\ deleted' = TRUE
     \/ MayFail("remove") /\ UNCHANGED <<disk, deleted>>
  /\ Goto(t, "remove_busy")
  /\ Overlap
  /\ UNCHANGED <<tmp, busy, memory, procs, copy, gen, committed>>

RemoveBusy(t) ==
  /\ Runs(t, "remove_busy")
  /\ RemoveSentinel
  /\ Goto(t, "done")
  /\ Overlap
  /\ UNCHANGED <<files, memory, procs, copy, gen, committed, deleted>>

-----------------------------------------------------------------------------
(* Processes *)

(* A crash takes the live map, the lock and the tasks with it.             *)
Crash(p) ==
  /\ up[p] # "down"
  /\ life[p] < MaxCrashes[p]
  /\ up' = [up EXCEPT ![p] = "down"]
  /\ life' = [life EXCEPT ![p] = @ + 1]
  /\ live' = [live EXCEPT ![p] = NoEntry]
  /\ lock' = [lock EXCEPT ![p] = NoTask]
  /\ pc' = [t \in Tasks |->
              IF Home[t] = p /\ pc[t] \notin Ended \union {"idle"}
              THEN "dead" ELSE pc[t]]
  /\ UNCHANGED <<files, busy, copy, gen, history>>

(* Store::open removes every temporary file it can ...                     *)
Start(p) ==
  /\ up[p] = "down"
  /\ \/ tmp' = NoSession
     \/ (MayFail("remove") \/ MayFail("read")) /\ UNCHANGED tmp
  /\ up' = [up EXCEPT ![p] = "scan"]
  /\ UNCHANGED <<disk, busy, memory, life, pc, copy, gen, history>>

(* recoverable_busy_sentinel: at start-up an empty sentinel counts as left *)
(* by a crash, like that of a dead process.                                *)
Recoverable == busy # NoBusy /\ (~busy.text \/ SeemsDead(busy))

(* ... and the sentinels that can be recovered, an unreadable one among    *)
(* them; a directory that cannot be read is left alone.                    *)
Scan(p) ==
  /\ up[p] = "scan"
  /\ \/ up' = [up EXCEPT ![p] = IF Recoverable THEN "clean" ELSE "up"]
     \/ MayFail("read") /\ busy # NoBusy /\ up' = [up EXCEPT ![p] = "clean"]
     \/ MayFail("read") /\ up' = [up EXCEPT ![p] = "up"]
  /\ UNCHANGED <<files, busy, memory, life, pc, copy, gen, history>>

Clean(p) ==
  /\ up[p] = "clean"
  /\ Mark("sweep", busy # NoBusy /\ busy.task \in Holders)
  /\ RemoveSentinel
  /\ up' = [up EXCEPT ![p] = "up"]
  /\ UNCHANGED <<files, memory, life, pc, copy, gen>>

-----------------------------------------------------------------------------
TaskStep(t) ==
  \/ AcquireBusy(t) \/ Probe(t) \/ Steal(t) \/ Recreate(t) \/ WriteBusy(t)
  \/ Enter(t) \/ Load(t)
  \/ EndTurn(t) \/ ReleaseBusy(t) \/ Panic(t)
  \/ Update(t) \/ UpdateCold(t)
  \/ Stage(t) \/ Replace(t)
  \/ Get(t) \/ GetFetch(t) \/ GetFill(t)
  \/ Forget(t) \/ RemoveFile(t) \/ RemoveBusy(t)

ProcStep(p) == Crash(p) \/ Start(p) \/ Scan(p) \/ Clean(p)

Next == (\E t \in Tasks : TaskStep(t)) \/ (\E p \in Procs : ProcStep(p))

Spec == Init /\ [][Next]_vars

-----------------------------------------------------------------------------
(* Properties *)

Seizures == {"steal_race", "sweep", "overlap"}

(* Two turns own the session at once only after a sentinel was taken from  *)
(* a turn in progress: by a second thief, by a starting process, or by     *)
(* delete or close.  Releasing late is never the first cause.              *)
SoleOwner == Cardinality(Owners) > 1 => hazards \intersect Seizures # {}

(* What a caller was told Ok is on disk as long as the session is, unless  *)
(* a process worked from a cached entry older than the file, a get put an  *)
(* old value back, or the session had two owners.                          *)
CommitsKept ==
  disk # NoSession /\ ~(committed \subseteq disk.turns \union disk.config) =>
    hazards \intersect {"overlap", "stale_cache", "stale_fill"} # {}

(* A session deleted while nobody works on it stays deleted.               *)
DeletedStaysDeleted ==
  deleted /\ disk # NoSession =>
    hazards \intersect {"overlap", "stale_cache"} # {}

(* A turn loses its work to StaleGeneration or SessionDeleted only after a *)
(* get filled the map over its entry, or the session had a second owner or *)
(* was deleted or closed meanwhile.                                        *)
TurnsCommit ==
  (\E t \in Tasks : pc[t] \in {"stale", "deleted"}) =>
    hazards \intersect ({"stale_fill"} \union Seizures) # {}

(* A sentinel that names a living process is that of a turn still in       *)
(* progress there, of one that panicked, or of one whose own removal of it *)
(* failed: nothing else leaves a session refused until the process ends.   *)
SentinelNotLeaked ==
  busy # NoBusy /\ WriterAlive(busy) /\ ~busy.kept =>
    pc[busy.task] \in Owning \union Leaving \union {"panicked"}

(* mod.rs:89-91: the final turn write cannot resurrect a deleted session.  *)
NoResurrection == deleted => disk = NoSession

(* mod.rs:25-26, busy.rs:5-6: the sentinel gives the session to one turn.  *)
OneOwner == Cardinality(Owners) <= 1
===============================================================================
