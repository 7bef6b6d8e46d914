# Verification of ny-gemini-acp

ny-gemini-acp is a Rust ACP agent server: a client (an editor) sends
`session/*` requests over stdio, a Gemini model is driven in rounds, the tools
it asks for are executed, and everything that happens is streamed back as
notifications.  This directory holds TLA+ modules for the parts whose
correctness depends on order, interleaving and failure, the TLC instances that
check them, and TLAPS proofs for every value of the constants.

Paths below are relative to the repository; `ar` is `crates/agent-runtime/src`,
`acp` is `crates/acp-adaptor/src`, `llm` is `crates/llm-provider/src` and
`tp` is `crates/tools-provider/src`.

## 1. Inventory

| Component | Code | State | Operations | What makes it correct |
|---|---|---|---|---|
| Turn manager | `ar/execution/turn_manager.rs`, `turn.rs`, `cancellation.rs` | the `active` map of handles; per turn its `TurnState` and its cancellation flag | start, cancel, cancel_and_wait, cancel_all_and_wait, state | one turn per session, always cancellable; every entry is removed, panics included; waiting callers return only when the work has left; terminal states are final |
| Event integrity, emitter, bus | `ar/events/` | turn phase, open scopes, phase of each tool call, sequence number, per-turn channel | one emission method per event | no illegal sequence of events reaches a consumer; no gap in the numbers; exactly one terminal event |
| Agent loop, turn service, prompt handler | `ar/execution/agent_loop.rs`, `turn_service.rs`, `model_projection.rs`, `acp/prompt/turn.rs`, `handler.rs` | round, tool budget, ids seen, history, the leased session | one `session/prompt` | the session is handed back exactly once; the stop reason agrees with the events; the history pairs calls and results; cancellation is prompt; the client is answered |
| ACP projection | `acp/prompt/projection.rs`, `notify.rs` | next expected number, card states | one handler per event | cards only advance; nothing moves after the answer |
| Session store | `ar/state/` | session file, temporary file, busy sentinel (shared by processes); live map with generations, write lock (per process) | open, create, get, list, fork, begin_turn, end_turn, update_session, delete, close | one owner; committed work is not lost; deleted sessions stay deleted; no sentinel outlives its turn without cause |
| History | `ar/state/history.rs`, `acp/prompt/build.rs`, `acp/handlers/session.rs` (replay) | structured entries, their text form, a dirty flag | push, normalise, save, load, compact, prompt window, replay | the prompt says what happened, in order; the newest turns are kept; a reload shows each call with its own result (it does not always: section 4) |
| Actions and permissions | `acp/prompt/turn/permission.rs`, `follow_up.rs`, `tp/tools/executor/permission.rs` | rules remembered per session | needs_permission, request, FollowUp | a denied call is never executed; a remembered rule covers what was shown |
| ACP handlers | `acp/handlers/` | none of their own; one message is handled at a time | initialize, new, load, resume, fork, delete, close, config, cancel | a session is not read, bound or removed under a running turn; the connection never waits for ever |
| Runtime and shutdown | `ar/runtime.rs`, `ar/session.rs`, `acp/bin/main.rs` | - | start, serve, shut down | shutdown leaves no turn behind |
| MCP client | `tp/tools/mcp/`, `tp/tools/contracts.rs` | per server: a mutex with its queue, the next request id, two pipes, its dialect; per call a cancellation watcher; per session a catalogue | discover, call | an answer goes to its own request; an abandoned call does not hurt the next; a hung call does not hold the server for ever; a qualified name reaches the server that listed it; discovery ends |
| Gemini client, semantic stream | `llm/client/`, `core/frames.rs`, `llm/semantic_stream/`, `tool_calling/` | text sent so far, ids sent, attempt, two bounded channels, parser state | open, retry, next line, next event, hang up | no text twice and none mixed; an end without an error has sent everything; a call once, no call syntax and no echoed result shown (each holds in part: section 4); splitting the text differently gives the same events, within limits |
| Tool registry, executor | `tp/tools/registry.rs`, `executor/`, `lifecycle.rs` | the registry bound to each session | bind, unbind, look up, dispatch | a session works with its own tools and leaves none behind |
| Sandbox, builtin tools | `tp/tools/sandbox/`, `builtin/` | none | classify a command, file and web operations | - |
| Tool presentation | `tp/tools/tool_ux/` | none | cards, previews | - |
| web2api server | `llm/web2api/` | none between requests | OpenAI and Google facades | - |
| Image uploads | `acp/prompt/turn/uploads.rs`, `llm/client/upload.rs` | progress of a batch | upload | a failed upload fails the turn |

How they interact.  A `session/prompt` enters the handler, which starts a turn
in the **turn manager**; the turn's work calls `begin_turn` on the **store**,
runs the **loop** against the model stream, the tools and the client's
permission dialogs, and emits through the **emitter**; a **projector** task
receives the events over an unbounded channel and sends notifications; when the
work has called `end_turn` and the projector has seen the terminal event (or has
failed), the handler answers.  `session/cancel` and the other session operations
go through the turn manager's `cancel` family and, afterwards, the store.  A
`session/new` or `session/load` that lists MCP servers discovers them inside its
handler and binds the resulting registry to the session.  One task reads the
model's HTTP body, a second one parses what the first sends, and the loop
listens to the second.  Shared state is: the `active` map and each turn's
`inner` (mutexes), the flag (atomic and watch channel), the store's live map
(async RwLock), the MCP servers (a mutex and two pipes each, shared by all
turns), and the files, which other processes of the same server also use.

What is hard.  Interleavings (cancel against start, end and panic; delete
against begin_turn; two processes against one file), failure in the middle (a
rejected event, a failed notification, a failed write, a panic, a crash),
ordering (events against answer, terminal event against stop reason), stale
state (cached sessions, ids polled after the turn changed, rules copied at the
start of a turn), progress (the answer waits for two tasks; a handler waits for
a turn that waits for the user whose reply waits for the handler), and input
that arrives in pieces (snapshots, retries, markers cut in two).  `PROJECT.json`
lists each hazard at its line with the properties that watch it.

## 2. Modules

| Module | Models | Interface to the rest |
|---|---|---|
| `TurnManager` | the manager, `AgentTurn`, `Cancellation` | the work of a turn may return, fail or panic at any time |
| `TurnManagerProofs` | theorems about it | - |
| `TurnIntegrity` | `events/integrity.rs` as operators on a record | used by `TurnPipeline` |
| `TurnPipeline` | one prompt: handler, service, loop, emitter, projection | model, tools, store, client give any answer their interface allows |
| `TurnPipelineProofs` | theorems about it, its refinement among them | - |
| `PromptContract` | what the client may rely on (abstract) | implemented by `TurnPipeline` |
| `SessionStore` | the store for one session id, several processes | a turn is begin_turn, work, end_turn |
| `SessionStoreProofs` | theorems about it | - |
| `McpClient` | one stdio MCP server: calls, mutex, ids, pipes, cancellation | the server is external: it answers late, out of order, or never |
| `McpClientProofs` | theorems about it | - |
| `SessionLifecycle` | one connection: handlers, turns, bindings, permissions, signals, restart | the store and the manager seen from outside |
| `SessionLifecycleProofs` | theorems about it | - |
| `McpDiscovery` | from a list of MCP servers to the session's tools, and the routing of a call | servers answer anything; `McpClient` is the exchange of one request |
| `McpDiscoveryProofs` | theorems about it | - |
| `CallIds` | the ids of tool calls | used by the next two |
| `GeminiStream` | one streamed request: attempts, lines, snapshots, the first channel | the upstream answers anything |
| `SemanticStream` | the incremental detectors of calls, results and reasoning, as operators on a record | - |
| `ModelStream` | `GeminiStream`, the relaying task that runs `SemanticStream`, the second channel and the listener | what `TurnPipeline` calls the model |
| `ModelStreamProofs` | theorems about `GeminiStream`, `SemanticStream` and `ModelStream` | - |
| `History` | a session's history through turns, compaction, commits and files | the turn is the one of `TurnPipeline`, the commit the one of `SessionStore` |
| `HistoryProofs` | theorems about it | - |
| `MC*` | TLC instances | - |

**TurnManager.**  `active`, `state`, `signal` are the code's; `call` and `task`
are the program counters of a `start` call and of its spawned task, `pc`,
`kind`, `pending`, `waiting`, `handle` are the locals of a task inside one of
the cancel operations.  A step is one critical section or one store of the
flag.  So `start` is `Claim` (first section: look and insert), `Launch` or
`Refuse` (`AgentTurn::start` under the turn's lock), then for a refusal
`Unwind` (the closure is destroyed and its guard runs) and `DefensiveRemove`
(the removal of turn_manager.rs:81).  The guard removes by key, as
`ActiveGuard::drop` does.  `WorkPanics` runs the guard and never sets the
state.  `cancel` is `Lookup`/`LookupMiss`, `SendSignal`, `MarkCancelling`: flag
first, state second, in separate steps.  The polls of the waiting operations
test absence of the *session id*, as the code does.

**TurnIntegrity** translates `TurnIntegrity`'s transition functions: `Admits`
is when a transition is legal, `After` what it leaves.

**TurnPipeline.**  `pc` runs through the handler, the service and the loop.  An
emission is one step and appends one event with its number; a rejected one
follows the code's path (ignored, turn failed, scopes closed).  A check of the
flag is a step of its own, so the flag may rise between any two.  `Project` is
one iteration of the projector; a failed notification breaks it, closes the
channel and cancels the turn.  Before the loop a turn may fail in
`FailBeforeExecution` (session busy, uploads), `Precheck` (limits that
`AgentLoop::new` refuses) or `Run` (`validate_session`, agent_loop.rs:174, which
emits nothing).  `upload`, `running` (a tool's own code, `AskUserQuestion` among
it) and `unheard` are where the flag is not looked at; `unheard` is a permission
dialog whose listener missed the wake-up (contracts.rs:47-50).  Text is one of
empty, blank, words (what `NoProgress` distinguishes); a card is what the client
shows of a call. `asked`/`answered` are the calls and results in the history.
`late`, counting the executions begun with the flag up, is history.

**PromptContract** has two variables, `card` and `answer`, and says only what
the client sees: cards appear and advance, one answer, nothing afterwards, and
`end_turn` leaves no unfinished card.  `TurnPipeline` implements it under the
mapping `answer <- response`.

**SessionStore.**  A task is one call in one process.  A step is one file
operation, or one stretch under the write lock; the lock is held across file
operations exactly where the code holds it (`begin_turn`'s cold load,
`end_turn`'s and `update_session`'s write).  `write_atomic` is `Stage` (the
temporary file, whose name depends on the session only) and `Replace` (the
rename, then the live entry).  A session value is the set of turns in its
history and the set of updates in its settings, which is what a merge can lose.
A sentinel carries its writer's incarnation (pid and start time) and whether its
text has been written, since it is created empty; `kept` (history) says its own
turn failed to remove it.  `Faults` are the kinds of file operation that may
fail: a write, a removal (`ReleaseBusy` goes on and tells nobody, busy.rs:59-61;
`RemoveFile` too, and delete reports success, persistence.rs:129), a read (a
file that does not parse, persistence.rs:92-95).  Whether a sentinel is stale is
a matter of the platform: on Linux (`StartTimes`) it is when its writer is dead;
elsewhere every finished sentinel passes for a dead one's (busy.rs:132-135).
`hazards` records which of six interleavings *the code does not exclude* have
happened:

- `steal_race`: a sentinel taken for stale is by then that of a turn in progress;
- `sweep`: a starting process removes the sentinel of a turn in progress;
- `overlap`: the session is written, deleted or closed while another process
  (for delete and close: anybody) works on it;
- `late_release`: a turn releases or rewrites a sentinel that is another's;
- `stale_cache`: a process works from a live entry that differs from the file;
- `stale_fill`: a `get` puts what it read over an entry made meanwhile.

The properties then say that nothing *else* costs ownership, a commit or a
deletion.  Two of the hazards contradict the documentation outright and are
findings.

**McpClient.**  A step is the code between two awaits, or between two accesses
to what threads share.  `queue` is the tokio mutex of the server: its holder,
then the waiters in order of arrival.  A call goes `Call` (registry check, then
the mutex), `Lock`, `Request` (validation, id, serialisation), `Write`, `Read`
until a line ends it.  `stdin` is a set, since the server may answer in any
order, `stdout` a sequence of lines, each classified by what the parser makes
of it: a result, an error object, a result under the right id that is not one
(`malformed`), what fails before an id is compared (`broken`: no JSON, no
UTF-8, too long, a null id), a request of the server's own (`ask`), a
notification (`notice`).  `Forms` are the kinds an answer may take, `noise`
counts the lines that answer nothing.  A call that is cancelled or timed out is
dropped at its await; neither `write_all` nor `read_line` gives back what it
has moved, so `Drop` may leave a piece of a request in stdin (`cutIn`) or have
taken the beginning of the next line (`cutOut`).  `signal`, `watcher` and `ear`
are `ToolCancellation`: the flag, the task of `from_receiver` that calls the
listeners once, and the two steps of `cancelled()` (look at the flag, then
listen).  `spoilt` and `cutters` are history.  Three limits of the code are
visible as provisos of the properties:

- a watcher that calls between the look and the listening is not heard
  (contracts.rs:47-50), and such a call waits for its answer or its deadline
  (`Deaf`);
- a call dropped inside a line can spoil the line of the next one, or make it
  fail, although catalog.rs:459-462 counts on id correlation alone;
- a call that waits for the mutex does not watch its cancellation
  (catalog.rs:463).

**SessionLifecycle.**  `inbox` is what the client has sent and the library has
not delivered; `handler` is the one handler being awaited, with its position
(`create`, `wait`, `settled`, `configure`).  `new` is `DeliverNew`, `Create`,
`Configure` or `ConfigureFails`; load, fork, close and delete are
`DeliverWaiting` (which raises the flag), `TurnGone` or `Deadline`, then
`ReadSession`/`Configure`, `Fork` or `Remove`.  `turn` goes through `begin`,
`begun` (it has its copy of mode and rules), `running` (it has its tools, once),
`permission`, `executing`, `question`, `settling` (the loop is over), `answered`
(the response is sent, the map still holds the turn).  `rules` is what the
store holds, `turn[s].rules` the copy, `turn[s].memory` what `remember()` adds
during the turn, `chosen` (history) the user's last recorded answer.  `Signal`
drops the handler and takes the snapshot of `cancel_all_and_wait`; `Dies` is
the end of input or a crash.  External: the protocol library delivers one
message at a time and awaits its handler, replies included; an error returned
by a handler is reported and the connection goes on.

**McpDiscovery.**  `pc` follows `configure_session` (`Normalize`, `TakeConfig`),
`connect_and_discover` (`Connect`, `Backoff`), `list_tools` (`ListTools`, one
page at a time), `initialize_legacy` (`Initialize`, `Notify`) and
`from_configs` (`AddServer`, `Finish`).  `client` is `McpServerClient` with the
locals of `list_tools`; `session` is the server's side of the dialect.  What
an answer is taken for depends on the transport (`StdioRequest`,
`HttpRequest`).  A server may send any cursor; `astray` (history) remembers
that one sent a wrong one.  `Route` is the way of a call: registry, catalogue
index, server.

**GeminiStream.**  `attempt`, `lines`, `line` (events of the line at hand),
`emitted`, `tools`, `diverged`, `decoder` are the locals of `run_turn`,
`attempt_http` and the decoder; `channel` is the first bounded channel,
`dropped` says its receiver is gone.  A failed attempt is `Fail`, which makes
another one or not (`MayRetry`).  `shown`, `delivered` and `cuts` (where the
deltas end in `delivered`) are history.

**SemanticStream** translates both detectors and `GeminiSemanticStream` as
operators on a record, over tokens: a token is a piece at whose ends the
upstream may cut.  Markers that begin alike share the tokens of their beginning
(`[`, then `t` or `T`, then `ool_`), because that is what a detector holds back
without knowing which it will be: a call, a thought in one of three spellings, a
result in one of three, which nothing holds back, or the name of a speaker.
`DrainStep` is one iteration of the protocol detector's loop; `Drain` allows one
iteration more than there are tokens pending, which is proved to be enough
(`DrainEnds`).

**ModelStream** composes the two with the relaying task (`Feed`, `FeedError`,
`Flush`, `Send`, `Return`) and the listener (`HangUp`).

**History.**  `live` is the committed history of the live entry, `file` what a
load returns, `mine` the running turn's copy: each with `canonical`, `legacy`,
`dirty`, as in the code.  `kept` and `said` (history) are the entries actually
said.  A turn is `StartTurn`, then per round `BuildPrompt` (compaction and
window), `ContextError`, `Calls` with `Result`s, `FollowUp` or `FinalText`, and
`Commit` or `CommitLost` from anywhere.  Text is a sequence of lines; a line is
plain, known by its length, or one of those the two call grammars consist of. A
JSON header is a record; a trailing newline is left out.  `Turns` groups either
form as `compact_messages` and `build_prompt` do: a turn starts at the first
item and at every user item.  `Texts` and `Files` have assumptions, which TLC
evaluates: a model text starts no call and is not empty, and a file is one that
turns have written, so each of its turns can be read on its own and its results
find their calls there.  The first is a limit of the model and not a fact about
the code: blank text is not pushed (agent_loop.rs:316; a blank answer to a
follow-up pushes nothing here either), but call syntax is taken out per event
while the history gets the events joined (model_projection.rs:118), and two
events can join to a call (section 4).  Rounds with such a text are not
modelled.  User texts are any lines, call grammar included: a user message is
not parsed.

## 3. Runs

| Run | Instance | States | Shows |
|---|---|---|---|
| `turn_manager` | 2 sessions, 3 turns (two on one session), 1 caller, fair | 77 k | all TurnManager properties |
| `turn_pipeline` | 2 tools and 1 action, 2 rounds, 2 calls per round and per turn, 2 stream events, projector up to 2 events behind, fair | 468 k | safety, the contract, the answer to cancelled prompts |
| `turn_pipeline_skipped` | the same | - | finding 1 |
| `session_store` | 2 processes, one of which may crash once, file operations that fail, 8 workloads of 3 or 4 calls, Linux | 1.7 M | the store's properties |
| `session_store_deleted` | one process: a turn and a delete | - | finding 2 |
| `session_store_owners` | two processes, one turn each | - | finding 3 |
| `session_lifecycle` | 2 session ids, requests for one, modes default and accept, lists of servers that work or do not, 1 message in the inbox, fair | 225 k | all SessionLifecycle properties |
| `remembered_reject` | the same | - | finding 4 |
| `mcp_client` | 2 calls, answers that are results, malformed or broken, 1 line of noise, fair | 453 k | all McpClient properties |
| `mcp_discovery` | 9 lists of up to 3 servers, 3 attempts, 3 pages, fair | 6.5 k | all McpDiscovery properties |
| `model_stream` | 7 texts with each marker that is held back and each piece `clean_text` removes, an upstream that knows the text and one or two of its beginnings; 2 attempts, 2 lines of 2 events, channel of 1 | 6.9 M | all ModelStream properties |
| `history` | 1 user text that quotes a call, 1 model text with a stray fence, 2 ids (symmetric), 3 files, 2 rounds of 2 calls, 7 entries | 871 k | all History properties |

Why the bounds suffice.  *Turn manager:* the hardest case needs three turns on
two of which the same session contends (one refused, one that takes the key, one
bystander) and one caller in the middle of its three steps; a second caller only
repeats marks that are idempotent, and the proofs cover any number. *Pipeline:*
two rounds and two calls give one round that continues and one that ends, a
first and a second call with the flag rising in between, and each limit both met
and exceeded; two stream events are text before a call, or two calls; a lag of 2
separates the turn from its projector, and the channel is unbounded in the code,
so `MaxLag` only withholds interleavings in which the projector is further
behind, never an emission for good.  *Store:* two processes, three turns where
the question is ownership (owner, first and second thief), one turn or two with
each operation that does not take the sentinel.  *Lifecycle:* sessions meet only
in `fork` and in the one handler, so one session with traffic and one id for a
fork show what there is; `bypass` behaves like `accept` for a call of low risk;
a second message in the inbox only delays what the first already delays.  *MCP
client:* an abandoned call and its successor are what every hazard needs, and
the proofs cover any number; one line out of turn is enough to fail a call.  The
instance leaves error objects out of `Forms`, which only saves states: such an
answer ends its call, and the proofs cover it. The server is followed only while
a call is left to notice it (`Noticed`), and chooses its own ids among the
current and the next of the client, since no other can be mistaken.
*Discovery:* three servers are one left out between two that are kept, which is
where an index could slip; the lists hold each defect, the page limit met and
exceeded, and two names that become one.  *Model stream:* an upstream knows a
text and one of its beginnings (or the two shortest), as snapshots it may send
in any order, so every cut and every loss of an end is among the behaviours; two
attempts are one retry, two lines over a channel of one make the producer wait.
The conditions under which `SplitInvariant` holds were found with a larger
instance, of the parser alone and not kept here: every arrangement of three
pieces (each marker, a fence, an object, a word, a newline) cut twice at any
place.  *History:* three turns against a compaction that preserves one and a
window of two, so that both drop something; two ids that every round and turn
may use again; files of the older format with and without ids. `session_store`,
`turn_manager` and `mcp_client` use no symmetry: their instances are asymmetric
or check liveness.  `CHECK_DEADLOCK FALSE` where turns, calls or workloads end
and nothing has to follow; `model_stream` and `session_lifecycle` check
deadlock.

What the properties say, beyond types:

- `SoleCancellableWork`: two works of one session never overlap, and the one
  running is the one `cancel` reaches.  Proviso: no refused start has run its
  second removal on that session.
- `EntryHasGuard`: no zombie entry, whatever path a turn takes (the regression
  the code calls D-06).
- `WaitedTurnsLeft`: success of cancel_and_wait means the cancelled work left.
- `CancellingEndsCancelled`: what `state` may report.
- `SessionReleased` (liveness): a turn that claimed its session gives it back on
  each of the three paths (return, panic, refused start), unless its work never
  ends, which nothing in the code excludes.
- `SequenceUnbroken`: the projector's gap detection never fires; silent scope
  changes and rejected emissions consume no number.
- `LeaseSettled`: one `end_turn` per successful `begin_turn`, on every path.
- `ResponseAgrees`: stop reason and terminal event agree.
- `HistoryPaired`: the model is never asked again, and a turn never completes,
  with a call that has no result.
- `OneExecutionAfterCancel`: at most one tool starts after the flag rose.
- `KeepsContract`: the refinement of `PromptContract`.
- `CancelledTurnAnswered` (liveness): a cancelled prompt is answered, unless it is
  `Stranded` or stays for ever where the flag is not looked at: in a batch of
  uploads, in a tool's own code (agent_loop.rs:426 awaits `tools.call`
  alone, and `AskUserQuestion` is such a tool, interactive.rs:125, 172), or in a
  dialog that missed the wake-up (contracts.rs:47-50).  `Stranded`: the terminal
  event comes before `turn_started` and is rejected, so that the handler waits
  for a projection nothing ends.  This happens when the flag rises between the
  checks of turn_service.rs:97 and agent_loop.rs:175, or when `validate_session`
  refuses the session (174).
- `SoleOwner`, `CommitsKept`, `DeletedStaysDeleted`, `TurnsCommit`,
  `SentinelNotLeaked`: see the module; each names what can break it.  A sentinel
  that outlives its turn in a living process is that of a turn that panicked or
  whose removal of it failed.
- `OwnAnswer`: a successful call returns the answer to its own request.
- `GarbledExplained`: a call fails over a line that is its own answer and
  malformed, that fails before ids are compared (a notification among them), that
  is a request of the server's under the call's id, or that a dropped call has
  taken the beginning of.  Late answers as such never fail a call.
- `AwaitedAnswerKept`: no other call's end loses the answer of the one that
  reads; whatever is in the pipe outlives the call that was reading it.
- `CancelledCallAborts` (liveness): a cancelled call ends without its deadline,
  unless it is deaf.
- `QueueMoves` (liveness): every waiting call gets the server and ends.
- `SettledFirst`: load, fork, close and delete touch a session only when no turn
  of it is in flight, and give up otherwise.
- `BindingsSound`: no tools stay bound to a session that is gone, and a turn's
  tools are those of its session as long as it runs.
- `RulesHonoured`: an "always" answer holds through the turn, its commit, later
  turns and a restart, in the modes that ask.
- `ShutdownComplete`: a graceful exit leaves no turn, although
  `cancel_all_and_wait` takes one snapshot: the connection is dropped first.
- `DispatchMoves` (liveness): the one handler always ends, although it may wait
  for a turn that waits for a reply behind it.
- `CallsReachTheirServer`, `OmittedForCause`, `OneDialect`, `DiscoveryEnds`
  (liveness): see the module.
- `OneText`: the text sent is that of one snapshot, over retries and divergence.
- `CleanEndComplete`: a request that ends without an error has sent the whole of
  the last snapshot of its last attempt.
- `SplitInvariant`: cuts inside the opening of a call, if it is the only one of the
  text and no echoed result follows, or inside the marker that opens or closes a
  thought, in a text without calls, change nothing: the listener gets the words,
  thoughts and calls of the text in one piece.  Other cuts do change things: see
  Observations.  Together with the deadlock check, and since no behaviour of
  `ModelStream` is infinite but by its stuttering end, a request that is not
  stuck ends.
- `PromptFaithful`: the two forms of the history never disagree with what was
  said, through re-parsing, compaction, commit and reload.
- `WindowRight`, `CompactionRight`: which turns a prompt and a compaction keep.

Each property of a passing run has a mutant in its module: an operator that
changes one action the way a plausible bug would, under which TLC finds the
property violated.

**Fairness.**  `TurnManager`: a started call, a task that has left its work and
a caller past its first step proceed (they wait for locks held over short
synchronous sections only), and the deadline comes (a timer).  No work has to
end, cancelled or not.  `TurnPipeline`: steps that wait for nobody are weakly
fair, and so is the projector; steps that wait for the model, a tool or the client
are fair only with the flag up and only where the code races them against it.
`Unraced` names the three places where it does not; nothing is assumed of a turn
that is there.
`McpClient`: the code's own steps are weakly fair, so is the watcher, and the
deadline of a call that is not cancelled (`Timeout`, a tokio timer).  `Write` is
not: it waits for the server to take the line, and the server owes nothing.
The deadline of a *cancelled* call is not counted on, or `CancelledCallAborts`
would say only that the two minutes of REQUEST_TIMEOUT pass.
`SessionLifecycle`: the handlers alone are weakly fair, the deadline of a wait
among them (a tokio timer); neither the user, the model nor a turn owes a step,
so `DispatchMoves` rests on the deadline only.  `McpDiscovery`: its one task is
weakly fair; every request has a deadline, whose expiry is one of the answers.
`ModelStream` and `History` state no liveness.

## 4. Findings and observations

Each finding is a `violation` run; the trace TLC prints is the scenario.

1. *Outstanding calls of a terminal action are not recorded*
   (agent_loop.rs:279-300): the integrity layer rejects a result for a call in
   its requested phase, so the turn fails.
2. *A deleted session can be resurrected within one process*
   (persistence.rs:128, against mod.rs:89-91).
3. *Two owners after a start-up sweep* (persistence.rs:186, against
   busy.rs:5-6).
4. *A remembered refusal executes the call* in a mode that asks for no
   permission: `needs_permission` looks at the mode before the rules, and nothing
   else looks at them, although the comment in acp `prompt/turn/permission.rs`
   says a refusal routes through `request_permission`.

Observations, met while modelling, without a run of their own.

*Turns.*  A refused start removes the session's entry by key once more
(turn_manager.rs:79-84); another start may have inserted its own in between.
Calls aborted with their turn leave their cards pending (emitter.rs:493,
integrity.rs:11-16).

*Store.*  Away from Linux a turn takes the sentinel of a living process for stale
(busy.rs:132-135), against busy.rs:104-105; the runs take `StartTimes` for granted,
the proofs do not.  A session whose file cannot be removed is reported deleted and
is back with the next get (persistence.rs:129).

*MCP.*  A line without an id fails the call that waits (transport.rs:131 skips
only errors that say "id mismatch"), although transport.rs:90-93 says such lines
are skipped.  A call dropped inside its answer leaves the rest of the line to the
next call, which fails over it (transport.rs:101), although catalog.rs:459-462 says
that the abandoned response cannot poison it.  `GarbledExplained` has both as
excuses (`notice`, `cutters`): neither comment holds without them.  As to the first,
during discovery the same holds for a notification before the
response, on the pipe or as first event of an HTTP stream.  A duplicate
qualified name or one invalid entry costs a session all its MCP tools, while a
server that cannot be reached is left out.  Qualified names are not injective
("a/b" and "a_2fb" are one), although a test is named
`qualified_names_are_collision_safe` (catalog.rs:511); the collision is
detected.  The cache of `list_tools` is never read, since each client lists once.

*Lifecycle.*  `AskUserQuestion` does not watch the cancellation
(interactive.rs:125, 172-176), so a handler that waits for such a turn is freed
by its deadline only.  Slow discovery holds up every message of the connection,
`session/cancel` included.  A failed load unbinds the tools the session had.  A
fork inherits neither rules nor tools.  The end of input drops running turns
uncommitted.  A change of mode or configuration reaches the next turn only.  The
user is asked for permission even when tools are disabled.  A prompt sent right
after a response may be refused, because the turn leaves the map after the
response (handler.rs:92).

*Stream.*  What the detectors hold back is a beginning of a call or of a thought;
`SplitInvariant` excludes every other cut, and the following ones do change what
the listener is sent.

- Inside the marker of an echoed result, after `[T` or `[tool_r`: no detector
  waits for the rest (protocol.rs:179-210), and the payload is shown as the
  answer.  The test of tests.rs:176 cuts elsewhere.
- Inside `[Assistant]:`, whose pieces are shown, or in front of one within the
  text, which is then removed.
- Inside a closing fence: it is not seen, and the call and the text behind it
  are swallowed (protocol.rs:338-357).
- Behind a FollowUp tag: a whole tag takes all that is pending with it
  (protocol.rs:152-158), so it matters what has arrived by then.
- Around a bare object that opens the stream: it is a call only if it is all that
  is pending, and the first delta.
- Around several calls with a result marker behind them: in one delta, the text in
  front of the result leaves with the calls in it, and the second pass, whose
  counter starts at 0 again, gives them ids that other calls of the stream share,
  so that some are suppressed.
- Behind what the reasoning detector still holds when the answer begins: it leaves
  at the end, behind later text (reasoning.rs:63-71).

What is held back as the possible beginning of a call is lost when the stream ends
there (protocol.rs:45-50, 179-188).  A fence that opens inside an open block
belongs to its body.

The comment of mod.rs:96-101, that no known marker survives in a text event, does
not hold.  The second pass looks at each text before the reasoning detector joins
it to what it held: in `[`, `[tool_result x]\n`, `tool_call foo] {}` the `[` is
held as the beginning of `[Thinking]:`, the result is dropped, and `[tool_call foo]
{}` leaves as text; `<` and `FollowUp` join in the same way.  Even where no event
has a marker, the text as the user sees it, and as the history stores it
(model_projection.rs:118), can have one: the two parts of a fence around an echoed
result leave as two deltas.  No property about call syntax in the text is stated
for this reason.

Calls are suppressed by id (mod.rs:143), which mod.rs:24-26 calls at-most-once even
if a frame is replayed.  A structured call without an id gets a new one in every
frame (frames.rs:194) and is handed over, and executed, again.

*Requests.*  As to ids, the counters of the frame decoder, the detector and the
second pass all start at gemini_call_0, and two different calls may share an id.
The last unterminated line skips the checks for a block reason and for a
BardError (stream.rs:303-306).  An attempt after a divergence that brings no
text ends cleanly with the old text (stream.rs:318), and so does an answer
without lines. errors.rs:53-54 says a divergence cannot be retried, and it is.
After an error the parser is not flushed.  A hung-up listener is noticed at the
next send only. A reference block that spans two deltas is not removed.

*History.*  `Texts` are free of call grammar, which the stream does not
guarantee (above); a text line that opens a call fence would take the two lines
behind it at every re-parse.  A result without an id that belongs to no call is
attached to another call after a save and a load (excluded from `Files`).
Mid-turn, `canonical` lacks the user message and only the dirty flag hides it. A
follow-up's user message splits a turn in two for compaction. The replay of load
keeps one result per id for the whole session, the last (session.rs:247-259),
while ids are unique in a turn at most: the counters restart with every request,
so that `gemini_call_0` comes again.  An earlier card then shows the result of a
later turn, and a later call that has none shows an earlier one, although a
ToolCallId is to correlate an invocation with its result (identity.rs:100-101).
A call committed without a result whose id nobody shares is replayed as a card
that runs for ever.  The replay is not modelled.

## 5. Proofs

`TurnManagerProofs`, under `ManagerAssumption` only (targets are sessions,
`NoTurn` is no turn; sets of any size):

| Theorem | Property | From |
|---|---|---|
| `TypeCorrect` | `TypeOK` (proved only) | `TypeInv` |
| `MutualExclusion` | `SoleCancellableWork` | `MapInv` |
| `NoZombieEntry` | `EntryHasGuard` | `MapInv` |
| `WaitIsHonest` | `WaitedTurnsLeft` | `IInv` |
| `EndingsAreFinal` | `TerminalIsFinal` (proved only) | `StateInv` |
| `CancellationIsReported` | `CancellingEndsCancelled` | `StateInv` |

- `TypeInv` adds to `TypeOK` that a caller about to use a handle has one;
  without it `SendSignal` could index the flag with `NoTurn`.
- `MapInv` adds `TaskFollowsCall` and the converse of `EntryHasGuard`,
  `GuardHasEntry`: a turn that holds its guard on an undisturbed session is the
  one in the map.  `SoleCancellableWork` is not inductive alone: a claim is safe
  because the key is free, and a free key must mean that no guard is out.
- `CallersInv` says what a caller knows in each of its steps: the sessions of
  the turns it has cancelled stay in its waiting set until a poll finds them
  absent, and an absent session has no guard out (`AbsentMeansReleased`);
  released turns stay released (`ReleasedStays`).
- `StateInv` says the flag of a turn is up before anybody records Cancelling,
  and that a terminal state is set by the task's last step only.

`McpClientProofs`, under `ClientAssumption` only (`MaxNoise` is a natural
number; any set of calls):

| Theorem | Property | From |
|---|---|---|
| `TypeCorrect` | `TypeOK` (proved only) | `QueueInv` |
| `AnswersAreOwn` | `OwnAnswer` | `IdInv` |
| `FailuresAreExplained` | `GarbledExplained` | `LineInv` |
| `AnswersAreKept` | `AwaitedAnswerKept` | `IInv` |

- `QueueInv` adds to `TypeOK` that a call in flight is at the head of the queue
  and a waiting one in it: only one call at a time touches the pipes, and
  without it `End` could take the tail of an empty queue.
- `IdInv` says ids differ and stay below `next_id` (`IdsDiffer`), and what is in
  the pipes bears the id of its call, or none if the request was spoilt
  (`PipesBearIds`).  `OwnAnswer` follows when the reader compares ids.
- `LineInv` adds `CutInv`: a line without its beginning was cut by a call that has
  ended, so not by the reader.  `GarbledExplained` is then inductive.
- `IInv` adds `AwaitedAnswerKept` itself, which is inductive over these.

`SessionLifecycleProofs`, under `LifecycleAssumption` only (prompts go to
sessions of the model; any sessions, modes and lists of servers):

| Theorem | Property | From |
|---|---|---|
| `SettledBeforeWork` | `SettledFirst` | `LifeInv` |
| `BindingsAreSound` | `BindingsSound` | `LifeInv` |
| `ShutdownIsComplete` | `ShutdownComplete` | `LifeInv` |
| `AnswersAreHonoured` | `RulesHonoured` (an action property) | `RuleInv` |

- `LifeInv` adds to a type invariant that nothing is known of an id before its
  session is created (`FreshUnknown`), that the handler which binds tools found
  its session (`ConfiguresStored`), and that after a signal the turns in flight
  are those of the snapshot (`ClosingAwaits`).  `SettledFirst` is inductive
  because prompts are delivered by the dispatch that awaits the handler; without
  `FreshUnknown` a `session/new` could create the session of a running turn and
  bind other tools under it.
- `RuleInv` adds `AnswersKnown`: the store has the last answer recorded, and a
  turn past its `begin_turn` knows it, from its copy or from its memory.

`TurnPipelineProofs`, under `PipelineAssumption` only (the limits are
positive, actions are calls, `NoCall` is none; any number of calls, rounds,
stream events, any lag of the projector):

| Theorem | Property | From |
|---|---|---|
| `TypeCorrect` | `TypeOK` (proved only) | `TypeInv` |
| `NoGap` | `SequenceUnbroken` | `JournalInv` |
| `SessionHandedBack` | `LeaseSettled` | `ControlInv` |
| `StopReasonAgrees` | `ResponseAgrees` | `JournalInv` |
| `CallsAreAnswered` | `HistoryPaired` | `ControlInv` |
| `AtMostOneLate` | `OneExecutionAfterCancel` | `ControlInv` |
| `Refinement` | `KeepsContract`, that is `Spec => Contract!Spec` | `CardInv` |

- `ControlInv` says for each location what holds there: the phase of the journal
  (`PhaseKept`), the result (`ResultSet`), the lease (`LeaseKept`), which calls
  are recorded and answered (`HistoryKept`), and that a turn which began an
  execution with the flag up can only end (`LateOnce`).
- `JournalInv` adds the numbers in the channel and `TerminalLast`: the terminal
  event is the one of the result and the last of the channel, so the stop reason,
  which is computed from the result, agrees with what the projector will see.
- `CardInv` adds what the client was shown of each call *or will be* once the
  channel is empty (`Shown`): what is in the channel only advances a card, and a
  call answered in the journal is shown done.  This is what the refinement needs:
  the contract's `end_turn` requires that no card be left unfinished at a moment
  when the turn itself has long ended.  Each step maps to one of `PromptContract`
  or to a stutter.

`SessionStoreProofs`, under `StoreAssumption` and `AbsenceAssumption` (the values
for "none" are no sessions, entries or sentinels; any processes, tasks,
workloads and numbers of crashes):

| Theorem | Property | From |
|---|---|---|
| `TypeCorrect` | `TypeOK` (proved only) | `StoreInv` |
| `OneTurnOwns` | `SoleOwner` | `HolderKept` |
| `CommitsAreKept` | `CommitsKept` | `CommitKept` |
| `DeletionsAreFinal` | `DeletedStaysDeleted` | `DeletionKept` |
| `TurnsFindTheirEntry` | `TurnsCommit` | `GenerationKept` |
| `SentinelsAreReleased` | `SentinelNotLeaked` | `WriterKept` |

- `KindsKept` and `LockKept` say which operation is where and who has the lock;
  `WriterKept` that a sentinel names no incarnation to come, which is why a
  sentinel of a dead process stays stale.
- The other parts hold as long as their hazards have not happened.  `HolderKept`:
  a turn that has the session has the sentinel, hence one owner.
  `GenerationKept`: a turn at work finds the entry it began with.
  `DeletionKept`: nobody works on a session that is gone.  `CommitKept`: whoever
  is about to write adds to what the file holds, a turn that works on an older
  session has lost its generation, and two turns in one process never share one.
  `CommitsKept` speaks of the file only and is far from inductive: that the next
  write loses nothing depends on the copies every task holds.

`McpDiscoveryProofs`, under `DiscoveryAssumption` (the
client's lists are sequences of server configurations, as the protocol types
them; any lists, pages, answers and numbers of attempts):

| Theorem | Property | From |
|---|---|---|
| `DialectsAgree` | `OneDialect` | `DialectKept` |
| `OmissionsHaveCause` | `OmittedForCause` | `AttemptsKept`, `OutcomeKept` |
| `CallsAreRouted` | `CallsReachTheirServer` | `CatalogueKept`, `OutcomeKept` |

- `AttemptsKept` and `PositionsKept` say where the loop over servers is: every
  server behind the position is kept or left out, and one left out has used up
  its attempts.
- `ListingKept` ties the pages listed to the cursor: while a server's cursors are
  the ones it meant, the tools collected are those of the pages before the
  cursor.  `CatalogueKept`: an entry's server index points to the server that
  listed the tool, names are distinct, and no tool of a properly listed server is
  missing.  `CallsReachTheirServer` follows as `Route` chooses by a name that is
  distinct and, since the outcome is "bound", not a builtin's.

`ModelStreamProofs`, under `StreamAssumption` and `SemanticAssumption` (texts are
sequences of strings, the upstream's ids are its own, the limits are positive and
`MaxFollowUp` is below `MaxPending`; any texts, ids, attempts, capacities):

| Theorem | Property | From |
|---|---|---|
| `StreamInvariant` | `StreamInv` (proved only) | itself, inductive |
| `DrainEnds` | - (the loop of the protocol detector ends) | `DrainStepTakes` |
| `CleanEnd` | `CleanEndComplete` | `Sound`, `Blamed` |
| `OneTextSent` | `OneText` | `TextInv` |

- *The detectors* are pure, so most of the work is lemmas on their operators.
  `Advances` says that an iteration returns a well-formed detector and, unless it
  stops, leaves less pending (`DrainStepTakes`).  `DrainEnds` follows: the loop of
  protocol.rs:52-71 always ends.
- *`StreamInv`* is the types of both channels and the parser, and with them what the
  reasoning detector may hold back: the beginning of one of its markers
  (`HeldBack`), whatever the texts.
- *`CleanEndComplete`*: `ShownSent` says that without a divergence the last
  snapshot is what has been sent, and `Blamed` that a divergence that ended the
  request is an error that nobody has dropped on its way through two channels.
- *`OneText`*: `Prose` distributes over concatenation (`ProseJoin`), and cleaning a
  snapshot leaves its prose alone (`CleanProse`).  The latter needs a hypothesis
  that is not one on the constants, `BlocksHoldArtifacts`: a reference block holds
  nothing `OneText` counts as prose.  It says what `Prose` means, that the contents
  of blocks are none, and TLC's texts satisfy it.

`HistoryProofs`, under `LimitsAssumption`, `TextsAssumption` and
`FilesAssumption` (any texts, ids, names, files and limits of the kind described
in section 2; histories, rounds and calls of any length):

| Theorem | Property | From |
|---|---|---|
| `Invariant` | `IInv` (proved only) | itself, inductive |
| `HistoryFaithful` | `PromptFaithful` | `Tells`, `WindowIs` |
| `PromptWindow` | `WindowRight` | `Tells`, `WindowIs`, `PairedIndex` |
| `Compaction` | `CompactionRight` | `CompactsRight` |

- *Reading* is a loop over lines inside a loop over messages, with the calls still
  open as its memory.  `NormalizeConcat` says that text behind other text is read
  as it is alone if it leaves no result without its call, and `NormalizeOne` that
  the text of a settled entry is read as that entry.
- *`Tells`* is the heart of the invariant: the text form has as many turns as the
  entries, and the text of each turn *alone* is read as the entries of that turn.
  "The text is read as the entries" is what `PromptFaithful` needs and is not
  inductive: a compaction takes turns away, and a result without an id might have
  found its call in one of them.  `Tells` is kept by a push of an entry
  (`TellsPush`), by a compaction (`TellsCompact`, as a compaction takes the same
  turns from both forms), and by a save, which renders every entry anew
  (`TellsAsText`); and it implies that the whole is read right (`TellsNormalize`).
- `IInv` adds that a clean copy's structured form is what was said, that the copy
  is dirty when a prompt is built, and that a call that waits for its result is
  the last one of its id in the last turn (`Awaits`), so that results find their
  calls again in the text (`Paired`) and in a window (`PairedIndex`).
- *The window*: starts of turns are listed in order (`TurnStartsList`), what is
  left from a later start is smaller (`FitsUpward`), hence the binary search of
  build.rs:72-86 ends at the first start that fits (`FirstFittingIs`).
- *Compaction*: the turns that go are the beginning of the order of size and then
  of age (`EvictedClosed`).  The last of them was needed, the first of the others
  was not (`EvictedNeeded`, `EvictedEnough`).

The prover cannot instantiate the library's induction theorems, whose formula is
an operator parameter.  What is needed of `FlattenSeq`, which is recursive, and of
the recursive functions of the detectors is proved by least counterexample: the
set of the naturals at which the claim fails has a least element if it is not
empty (`LeastNatural`, from `WFMin`), and the step from its predecessor
contradicts it.  `HistoryProofs` makes two lemmas of this that take a set in the
formula's place, `InductionUpTo` and `SeqInduction`, and one for definitions by
recursion, `RecursionUpTo`.

The type invariants (`TypeOK`) and `TerminalIsFinal` are proved and no longer
run.  Every inductive invariant was checked by TLC as an invariant of the run of
its module before it was proved.

Only model-checked:

- `ModelStream`'s `SplitInvariant`: it compares two runs of the detectors, over
  the same text cut and whole, for the cuts it names.
- All liveness: fairness and ENABLED are out of the prover's reach.

## 6. What is left out, and why

*Not modelled.*  Sandbox and builtin tools: file, process and network I/O around
string heuristics; no state outlives a call, and its outcome is an input of the
turn.  Tool presentation: wording.  web2api: a stateless conversion of requests
and replies around the same client as above.

*Partly.*  ACP handlers: `set_config_option` is an `update_session` like
`set_mode`; `initialize` and `session/list` keep no state; what load replays to the
client is left out.  ACP projection: the
content of notifications.  Permissions: the texts of dialogs and the heuristic
that gives a command its risk (risk is an input).  MCP client: the rendering of
results; HTTP calls after discovery, which have a connection each and share
nothing.  Gemini client: cookies, page tokens, headers, and the decoding of
UTF-8 chunks (stream.rs:41-89), which is a function of bytes; by inspection,
bytes behind an invalid sequence wait for the next chunk, and `finish` decodes
the rest lossily.  Executor: validation of arguments.  Uploads: the
notifications of single images; success of the batch is an input of the turn.

*Abstracted.*  Text of prompts and messages and token estimates; the global
event broadcast (no subscriber); torn contents of the temporary file (`Stage`
writes it in one step: two processes writing the same temporary file at once is
seen as one replacing the other's); `list` (a read); the store's behaviour on
different ids (independent but for the lock, which only delays); saturation of
`next_id` at 2^64; `think` levels above 4, which are clamped.

## 7. Plan

Every safety property of the passing runs but `SplitInvariant` is proved.  What is
left, in order of worth:

1. `SplitInvariant` as a theorem, for texts and cuts of the kind it names.
2. The code that is only an input here: validation of arguments and the sandbox's
   path checks, as operators with a reference definition.
