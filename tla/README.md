# Verification of e

`e` is a terminal front end for coding agents, written in Rust. The front end
(`crates/e-tui`) knows no provider; an executable per provider adapts it: `pie`
(`crates/e-pi`) drives a Pi child process over JSON lines, and `e`
(`crates/e-dsh`) talks to a JavaScript bridge (`bridge/`) inside a DSH server.
This directory holds TLA+ modules of the parts where order, failure and
concurrency decide whether the program is right, TLC configurations that check
them on small instances, and TLAPS proofs that hold for every instance.

Contracts are quoted from `doco/specs/*.md`; every definition is translated from
the code, and `PROJECT.json` names the lines of each.

## Inventory

| Component | State it keeps | Operations | Interacts with | Hard parts |
|---|---|---|---|---|
| Pi adapter, request gate (`e-pi/src/adapter/{mod,request,response,prompt_state,queue}.rs`) | one id per barrier (configuration, interrupt, resume, queue operation, skill prompt, compaction, fork), the deferred queue, admission and settlement tables, mirrors of Pi's session and route | `request`, `record`, `drain_deferred`, one handler per response | front end (requests, events), Pi (commands, responses by id) | barriers whose owner is gone, a slot shared by two operations, half-failed chains, sessions replaced under pending work |
| Pi adapter, compaction (`adapter/compaction.rs`) | transaction stage, route to restore, a selection made meanwhile | one handler per stage | gate, Pi | restoring the route on every path, controls that may pass the queue |
| Pi adapter, retry (`adapter/retry.rs`) | attempt, due time, error, activity row, cancelled flag, ids of the continuation | `before_request`, `started`, `message`, `settled`, `response`, `tick_retry`, `set_error_auto_retry` | worker clock, config watch, Pi's run events | timer against requests and runs, late answers, an idle status at the right time |
| Pi adapter, reload, MCP, fork, dialogs (`adapter/{mcp,fork,extension}.rs`) | one pending operation each | requests, responses, deadlines | gate | mutual exclusion with the gate, a fork ended by the user while Pi goes on, timeouts with late answers |
| Pi adapter, projection (`adapter/{tool,content,model,status,session}.rs`) | tool rows, history, statistics | records to events | front end | translation, little protocol |
| Pi session worker (`session_worker.rs`, `side.rs`) | pending events, side creation, initialization flags | `select!` loop over records, requests, deadlines, materialization | adapter, process, workspace runner | cancellation against completion, bounded channels |
| Pi child process (`process.rs`, `framing.rs`) | bounded channels, stderr tail | reader, writer, shutdown | Pi child | a cycle of full pipes, exit against unread output |
| Pi workspace runner (`workspace_runner.rs`, `effects.rs`) | workers, focus, history writers | open, focus, close sessions | workers, front end | several sessions, side sessions, failures of one |
| Pi authentication (`auth.rs`, `*.mjs`) | one login flow, deadlines | helper process messages | worker, Pi | flow ownership, timeouts |
| Herdr reporter (`herdr.rs`) | latest status, last acknowledged status, backoff | publish, deliver, release | front end state, herdr command | retry racing change, release on shutdown |
| Execution history store (`execution_history_store.rs`, both executables) | lock file, append-only file, sequence number | open, append, read pages, drop | worker, front end | crash between two writes, stale lock, growing snapshot |
| Pi catalogs and index (`session_index.rs`, `config.rs`, ...) | caches | scan, parse | runner | files, no concurrent state |
| Front end Record and queue (`e-tui/src/runtime/controller/record.rs`, `model.rs`, `agent.rs`) | owner of a temporary route, prompt queue | record, capture, dispatch, restore | adapter's capture, admission, settlement | restoring a route while admission is uncertain |
| Front end state and reduction (`e-tui/src/runtime/state`, `sessions.rs`) | projection of every event | reduce | all | size rather than protocol |
| Front end scheduling (`scheduler.rs`, `executor.rs`) | deadlines, pending draw | admit, tick | terminal | timing data |
| Input, rendering, pages | presentation state | keys, draw | terminal | out of scope |
| DSH adapter (`e-dsh/src/bridge/adapter.rs`, `bridge_io.rs`) | prompt fence, socket | requests, events | bridge | socket replaced under pending work |
| DSH bridge (`bridge/src/*.js`) | connection, session, chain of model updates, pending prompts | one async function per message | DSH server, adapter | staleness after an await, order of image and text prompts |
| Build and assets | none | scripts | none | none |

What makes each correct:

- Gate: requests reach Pi in the order they were made, none before the model,
  session or interrupt it depends on; every barrier is lowered in the end; each
  request with an outcome gets one; tables are bounded; mirrors tell the truth.
- Compaction: no prompt runs until the route it borrowed is back.
- Retry: cancelled recovery is not revived; the budget of continuations holds;
  the status shown is the truth once everything is answered.
- Worker, process: a stop gets through however full the pipes are; records arrive
  whole and in order; the end of Pi is told; a side session that was called off is
  never attached, and its file is removed.
- Authentication: one login at a time, its verdict is true and reaches the page,
  and a changed credential is never passed over in silence.
- History store: one writer, no record glued to a torn one, no record missing in
  the middle, a page set belongs to one snapshot, a close saves what it reports.
- Herdr: the last published status is the one delivered.
- Record: a temporary route is restored once, and only when its prompt is over.
- Bridge: prompts keep their order, behind the model changes before them; a fence
  reports the state it stands behind; a reply never reaches a replaced connection.

## Modules

| Module | What it models |
|---|---|
| `PiRequests` | State of the adapter's gate, the pipe and Pi; `PiAdapter::request` and `drain_deferred` with one action per kind of request; Pi's own steps |
| `PiAdapter` | EXTENDS `PiRequests`: one action per owner of a response in `response::dispatch`, compaction included; the specification and its properties |
| `PiRoutes` | EXTENDS `PiAdapter` with a history variable, the route a compaction has to give back; what a compaction promises about routes |
| `PiAdapterProofs` | theorems about `PiAdapter` |
| `PiRetry`, `PiRetryProofs` | `retry.rs`, with the records, state reads, interrupts and attaches that touch recovery, over two FIFO pipes; theorems |
| `ExecutionLog` | what a session's execution history promises: a log |
| `HistoryStore`, `HistoryStoreProofs` | the recorder, writer thread, queue, file and lock of `execution_history_store.rs`, in several processes; refines `ExecutionLog`; theorems |
| `PromptRecord` | the front end's prompt queue and the Record that owns a borrowed route: submission, cancellation, interrupt, and every branch of the dispatcher |
| `PromptRoutes` | EXTENDS `PromptRecord`: the handler of every adapter event that changes them, an abstract adapter and Pi, the composed specification |
| `PromptRoutesProofs` | theorems about `PromptRoutes` |
| `SideSession`, `SideSessionProofs` | a side session between front end, worker, copying task and the companion inside Pi; theorems |
| `DshBridge`, `DshBridgeProofs` | the bridge's dispatcher split at each await, its prompt queue, session changes, and the client's state fence; theorems |
| `PiAuth`, `PiAuthProofs` | login page, `AuthManager`, helper process and companion; theorems |
| `PiWorker`, `PiWorkerProofs` | session worker, writer and reader of the child process, and Pi, over bounded channels and pipes; a theorem |
| `MC...` | the small instances for TLC: symmetry of models and sessions, the parts a start waits for |

The modules meet at their interfaces rather than in one product, which TLC could
not explore. `PiWorker` shows, and proves, the ordered, loss-free transport that `PiRequests`,
`PiRetry` and `SideSession` assume. `PiAdapter` shows that requests reach Pi one
behind the other and each gets its outcome, which is what the abstract adapter of
`PromptRoutes` does. `PiAdapter` and `PiRetry` are two views of one adapter:
`PiAdapter` has every
barrier and the deferred queue, but answers come back as the atomic step "Pi
answers, the adapter handles it". `PiRetry` keeps only the barriers that meet
recovery (configuration, interrupt, resume), and in exchange lets records wait in
the pipe while the user, the clock and the adapter go on: recovery's hazards are
records already under way.

### PiRequests and PiAdapter

State and code:

| Variable | Code |
|---|---|
| `deferred` | `deferred_requests`, a FIFO |
| `configuration`, `interrupt`, `resume`, `queueOp`, `skillPrompt`, `compaction` | `configuration_request`, `pending_interrupt`, `pending_resume`, `pending_queue`, `pending_skill_prompt`, `pending_compaction`: 0, or the id whose answer lowers the barrier |
| `admissions`, `commandPrompt`, `commandStates`, `promptState` | prompt admission and settlement tables, and the state read of a capture |
| `session`, `attached`, `model` | the adapter's mirrors of Pi |
| `branch` | `pending_fork`: its stage, the id it waits for, the sessions it leaves and reaches, whether a message follows and whether the user interrupted it |
| `reload` | the id of `pending_reload` |
| `generation` | run generation, which makes an interrupt stale |
| `draining` | the loop of `drain_deferred` is running |
| `inflight` | commands in the pipe or in Pi, each with the request it is for and whether its effect has happened |
| `piSession`, `piModel`, ... | Pi itself |
| `submitted`, `told` | how many requests were made, and what the front end heard of each |

Choices that matter:

- The pipes are FIFO and `record` handles one record to its end. So "Pi takes the
  command, answers, the adapter handles the answer" is one step for reads, which
  Pi answers at once and in order: nothing sent after a read overtakes it. Every
  other command is carried out (`done`), and answered, any time later. A command
  with an effect fails only before its effect.
- `pending_new` and `pending_model_effort` need no variable: the command in flight
  carries the same facts. A session created by `new` is named by the id of the
  command that created it, and a session file stands for its session.
- The thinking level is part of a route; `modelEffort` adds the second command.
- A fork is a barrier of another sort: requests made meanwhile are refused, not
  deferred (`Refuse`), the loop of `drain_deferred` stops for it, and the user may end
  it while it waits for a choice or for the messages to choose from
  (`InterruptBranch`, `Choose`) by handlers that do not drain. `Pi` may report a
  replacement that did not happen, and an extension may cancel it. Whether Pi streams
  or shows a dialog, which keeps either command from starting, is a free choice
  (`RouteBusy`); so is whether the new session is busy when the message is due.
- `PiRoutes` adds `due`, the route Pi has to be on when no compaction borrows it. It is
  kept from what happens (`Track`): before a compaction, the route Pi has; during one,
  what the last confirmed selection brought. `compaction.rs` keeps two routes of its
  own for this, `original` and `return_route`; `RouteRestored` compares the route Pi is
  left on with `due`, and giving back `original` behind a confirmed selection violates it.
- The session's key and its native id are one (Pi always reports the id).
- Left out: image prompts, the early returns for requests that are not supported,
  the projection of records to displayed rows, the MCP page and extension dialogs.

### PiRetry

`toPi` and `fromPi` are the pipes; `retry` is `RetryState`; `configuration`,
`interrupt`, `resume`, `streaming`, `session` and `attached` are the fields of the
adapter it reads; `piRun` and the session are Pi's. A request the gate would defer is a
request not yet made. One state read stands for the chain of a model change. Pi
emits at least one assistant message before a run settles, and an abort or a
switch of session ends a run before it is answered. The error of a failed run is
abstracted to the run and session it came from, which is what the properties
compare. Countdown ticks change only text and are left out. Three history
variables serve the properties: `revoked` (the user withdrew), `voided` (the runs
begun when the user last interrupted) and `streak` (continuations in a row).

### HistoryStore

Each process has a recorder (`client`, `query`, `answer`, `offered`), a bounded
`queue` to its writer thread (`writer`), and the `health` flag (`failed`). The file
is a sequence of lines; a line is cut, cut inside a character, a header or an
event, and its newline is there or not. Text and newline are written in separate
steps, so that a crash or a failed write leaves every kind of torn line. An error
of a page or flush reaches the client before it is put in `health`: the state
`report` lies between. Reading a page always fails over a line cut
inside a character; with `FailingReads` it may fail at any time, which the theorems
cover and the run leaves out, for it takes the same branch and triples the states.
A crash leaves file and lock; `RemoveLock` is the user, who
removes a lock no process holds. Records may be offered between two pages of a
query, as the interface allows and a unit test does, though the program's mutex
around the recorder keeps its own records out. Left out: the workspace registry,
the identity check of the header, a recorder that moves to another session
without its process ending, and the contents of records.

### PromptRecord and PromptRoutes

The front end is one loop: a key or an event is handled to its end, then
`dispatch_next_queued` runs. Each handler is one action; each branch of the
dispatcher (restore, capture, select, send, fail, and their counterparts for plain
prompts) is one, with the guard of its early returns. `local`, `remote`, `sending`,
`failed` and `clearing` are `PendingPromptQueue`; `temp` is `temporary_model` with
its phase; `owner` is `macro_execution` with its flags; `pendingSub` and `working`
decide whether the agent is idle. `toAgent` and `toTui` are the two channels. The
adapter and Pi are external: they carry requests out in order, answer a
preflight whenever Pi is ready, run steered prompts inside the current run, and
refuse what `Failures` names. A prompt's text is abstracted to whether all prompts
are alike. `promised`, `under`, `returned` and `dropped` are history: the route a
prompt was written for, the one it ran under, and the prompts given back or
deliberately discarded. Escape over a queue that holds anything takes a prompt from it and
never interrupts (`terminal.rs:668`), so `Interrupt` asks for an empty queue, which the
handler's own `queue.clear()` leaves as it is. Left out: marked prompts before the first
catalog (the `Err` of `model::select`), and settlements reported as unconfirmed, which
only show a message.

### SideSession

A creation is named by its reserved identity. `preparations` is the channel of one
request, `cancellation` and `cancelSeen` the watch channel, which keeps only its last
value; `control` is `SideSessionControl` with its stage and deadline; `materializing`
is the task of `JoinHandle` and its temporary file; `files`, `kept` and `cleaning` are
the files on disk. The companion's `operation` is interleaved at every `await` of
`side_companion.mjs`. A result carries the file it owns, so a file has an owner at
every moment, dropped results included.

The session has three places: `piSession` is Pi's, `native` is what the adapter has read
of it, `shown` what the front end has been told. `Replace` changes the first only, for
the user or an extension may have Pi switch; `AnswerState` is an answer to a state read,
which the adapter sends behind a switch it asked for and on other occasions, but never
because Pi has switched; so it may come at any time, or never. `ReadState` makes `native`
of it, ends what is being prepared and tells the front end. A preparation is not held
back in between (`session_worker.rs:508`), so it may be one of the session Pi is already
in: see 18 below. Left out: answers that repeat the session the adapter knows, which
change nothing here, and a second unread answer behind another.

### DshBridge

JavaScript is one thread: a handler runs to an `await`, and a settled promise's
continuations run before the next message. `tasks` are the handlers that wait, in
order of registration; `WaitFor`, `Settled` and `Drained` are the promise chain of
`modelUpdates` and the microtask queue. Every host call is a wait, and may fail when
`Failures` names it. `conn` is the registered connection; a task holds the one it
began with, which is what `isCurrent` compares. `pings` and `session` are
`PromptStateFence`. A frame travels as long as it likes; the id of a pong is history, which
the client does not read. `Across` says whether a fence is
begun while a session change is under way; it is `FALSE` in the run, see below.

### PiAuth

`auth` is `AuthManager` (active flow, pending refresh, catalog request, the two
deadlines, the context); `queued` its queue of actions; `helper` and `outbox` the
helper process and its unread output; `page` the login page; `refreshing` the flows the
companion refreshes for. `Sends` is the writer's `try_send`, which fails for a helper
that is gone, or may be. `lapses` records the ways the code is known to lose a flow
(below). A behaviour is followed until the first lapse, so the properties speak about
every behaviour without one, and the leads-to properties end in "or a lapse". Left out:
that the channel of 64 requests to a living helper is full, and an outcome of the helper
that is no record of the protocol. `committed` is taken to say whether the credential
was stored.

### PiWorker

Four bounded queues (`requests`, `commands`, `events`, `inbox`) and two operating
system pipes. `worker` says at which `await` of `SessionWorker::run` the task stands
and what it still has to send; the stop is a watch that wins at every such point.
`writer` and `reader` are the tasks of `process.rs`. A record's content is the part of
the state it carries, which is what decides readiness. Pi reads, writes, and exits when
it likes; it stops reading while it waits to write. Left out: authentication, side
sessions, history, retry ticks and MCP progress, which are further branches of the
same `select!`; a malformed or torn line, which ends the reader as the end of the output
does; killing the child is taken to succeed.

## Runs

States are distinct states found. Every run passes.

| Run | Question | Bounds | States |
|---|---|---|---|
| `pi_gate` | Do the barriers hold requests back and fall again, and do prompts run in the session they were admitted under? | 3 requests of 11 kinds, 2 deferred, 2 models, 2 sessions, 1 run of Pi's own, failures at every step but the later ones of a new session | 949 thousand |
| `pi_commands` | Does each command, skill, queue operation and compaction get the outcomes it may get, with the tables at their bound? | 3 requests of 10 kinds, 2 admissions | 719 thousand |
| `pi_compaction` | Does the compaction transaction give back the route that was borrowed, or the one selected meanwhile, on every path, is the order kept, and does the queue always drain? | 3 requests of 8 kinds, failures at every stage; liveness, so no symmetry | 299 thousand |
| `pi_retry` | Is recovery revived, overspent or misreported by records under way? | 2 requests, 2 runs, 2 attempts, 3 assistant messages | 1.3 million |
| `pi_retry_attach` | Does recovery stay in its conversation, and end? | 2 requests, 1 run, 2 attempts, 3 messages, attaches that fail at each step; liveness | 187 thousand |
| `history_store` | Is the trace a log with one writer, through crashes and failures? | 2 processes, 2 openings, queue of 2, pages of 1, 3 records each; reading fails over torn lines only; liveness | 397 thousand |
| `prompt_routes` | Does each prompt run under its route, once, and is a borrowed route remembered? | 3 prompts of 3 kinds, 2 routes, every request may be refused | 393 thousand |
| `prompt_progress` | Do Records let the queue go, and does each prompt get its turn? | 2 Records, 3 routes of which one has gone from the catalog, 1 interrupt; liveness | 33 thousand |
| `side_session` | Is a called-off side session really off, and who owns the file? | 2 creations, 2 native sessions, 1 unread state answer; cancellations, failures and time limits anywhere; liveness | 486 thousand |
| `dsh_bridge` | Do prompts, models, fences and replies keep their order over awaits? | 3 messages of 12 kinds, 2 connections; liveness | 161 thousand |
| `pi_auth` | Does a login end, with a true verdict that reaches the page? | 2 flows, 2 openings of the page, 2 sessions, 4 events among openings, prompts, contexts and crashes; liveness | 483 thousand |
| `pi_worker` | Do full queues lose or reorder records, or keep a stop or an ending from being told? | queues and pipes of 1, 4 records, 2 requests, 1 command each; liveness | 164 thousand |

Each property stands in its module with its meaning. Several are conjunctions: a
property of a run is one question, and its parts are named where they are defined
(`WaitsAnswered` of `ConfigurationOwned`, `FencesOwned`, `CapturesAccounted` and
`ForksAccounted`, with `NothingBehindFork`;
`CommandsAccounted` of `OutcomesLegal` and `AdmissionsBounded`; `OrderKept` of
`InOrder` and `NoOvertake`; `RouteReturned` of `RouteRestored`, `PromptsOnRoute` and
`RouteMirrored`; `ShownTrue` of `StatusTruth` and `RowClosed`; `OneConversation` of `RecoveryAlone` and
`SameConversation`; and so on).

The bounds: a barrier needs one request that raises it, one that must wait, and
one that may overtake or lower the wrong barrier, so three requests; two deferred
requests make an order, and the bound of two is exceeded. Two sessions and two
models are enough for "another one". Two continuations in a row separate "the
budget" from "one". Two openings are one that crashes and one that finds what is
left; a queue of two is full with one record and the last one in it; three
records on pages of one give a query three pages. Three prompts are a Record, one
that replaces or joins it and one behind them. Two side sessions are one whose
result is stale and one it could be taken for. Three messages are a model change,
a prompt that waits for it, and one that could pass or replace the connection. Two
flows are one that is lost and one that is mistaken for it. A queue of one fills with
every message, and four records fill the reader's pipe, the events, the inbox and
the worker's hands. The code's own limits (64 deferred requests, 5 attempts, 1024
queued records and records per page, 256 places in a channel) are parameters, and
the theorems hold for every value of them.

`CHECK_DEADLOCK FALSE` is said because requests, runs and openings are bounded: a
system that has used them up stops, and so may one nobody talks to. That nobody
waits on everybody is stated by the liveness properties instead.

Fairness:

- `PiAdapter`: `WF(draining /\ Route)`, since `drain_deferred` is a loop that runs to
  its end before the next record; `WF(Pi)`, Pi answers every command it reads. The
  user is not fair.
- `PiRetry`: `WF(Receive)`, the worker's `select!` always reads records; `WF(Retry)`,
  the tick comes when its deadline has passed; `WF(PiAnswers)`. Neither the user nor
  runs of Pi's own are fair.
- `HistoryStore`: the writer thread goes on, and so does a thread that waits for a
  close to end. Crashes, users and new records are not fair. `CloseEnds` covers a
  thread whose `recv` is answered by a writer that ended.
- `PromptRoutes`: the front end's loop dispatches and receives, the adapter takes its
  requests, Pi answers a preflight and ends a run. The user is not fair.
- `SideSession`: the front end's loop goes on; the worker takes its turns among its
  channels at random (`select!`), so each of them is fair; so are the deadlines (20 and
  15 seconds), the copying task and the clean-up, and the candidate's start ends. The
  companion may stay silent for ever, but for two things. The user ends a selection
  (`Select`), since no deadline runs while one selects. A handler that has failed or was
  cancelled gets through its `finally` (`Finish`), which removes a directory: a selection
  that ends in another session than it began in throws, and only behind the `finally` is
  the error reported that the worker waits for, still without a deadline. Neither a
  request to the companion nor its snapshot is fair, and no state is ever sure to be read.
- `DshBridge`: the event loop resumes what can run, every host call ends, the client
  reads. Messages are not fair.
- `PiAuth`: page and worker loops go on, the refresh deadline passes, a helper's
  login ends when it waits for nobody, and the user answers a prompt or leaves it.
  Nothing is assumed of Pi's refreshes.
- `PiWorker`: the tasks, the initialization deadline and the front end's reading go on,
  and Pi reads and writes when it can. That Pi writes what a start waits for is not
  assumed, and neither is a stop or an exit.

## Where code and contracts part

These were met while modelling. The runs leave out the combinations that need them;
what to change to see each is said with it. Lines are those of the code.

Pi adapter:

1. A session switch forgets the settlement that owns `configuration_request`
   (`session.rs:88`); when that read is answered `response.rs:185` returns early and the
   gate stays shut. `interaction-and-sessions.md:30`: "Unrelated session replacement
   invalidates ownership". Disposition `"handled"` with `attach` in `PiGate.cfg` violates
   `WaitsAnswered`; so does `"handled"` with `input` and `fork`, where the prompt is
   answered while the fork replaces the session, and so does a slash command (`command`),
   whose settlement is required as well.
2. The state read of a prompt Pi handled by itself takes the slot of a model change in
   progress (`response.rs:269`); its answer opens the gate for prompts that wait for the
   change. `interaction-and-sessions.md:87`: "Model and effort changes are confirmed by
   the adapter before dependent prompt admission". Disposition `"handled"` with
   `modelEffort` violates `DependentsHeld`.
3. The prompt of a new session is sent by a response handler (`response.rs:564`) that
   does not look at the interrupt fence. `runtime-and-adapters.md:34`: "Cancellation
   MUST hold dependent work until its owned post-interrupt state fence settles".
   `InterruptHolds` of `PiAdapter` states it and fails with `new` and `interrupt`; no run
   checks it.
4. Restoring the model in a new session fails (`response.rs:520`) and no state is read:
   the adapter goes on believing in the old session. `runtime-and-adapters.md:30`.
   Kinds `input` and `new` with failure `"new-model"` violate
   `PromptsInSession`. A fork that has replaced the session and then fails to read the
   state ends the same way (`fork.rs:219`): kinds `input` and `fork` with failure
   `"branch-state"`.
5. The first attach resets the mark of an interrupt made before it (`retry.rs:311`), and
   cancelled recovery comes back. `runtime-and-adapters.md:47`: "Cancelled or stale
   results MUST NOT revive it". `AtStartup = TRUE` violates `NoRevival`.
6. The clock does not wait for an attach (`retry.rs:66`); a state read answered just
   before the switch resets the cancellation the attach made, and recovery goes on
   in the attached session. `runtime-and-adapters.md:46`. Three requests of
   kinds `prompt`, `attach` and `ping` in `PiRetryAttach.cfg` violate `OneConversation`.

Front end:

7. A `pi-rpc-prompt` error names no prompt (`agent.rs:789`): an error of a plain prompt
   fails the Record in front. `runtime-and-adapters.md:30`. So does the late refusal of a
   Record's prompt that was interrupted before Pi's answer, when the next Record has
   already been sent: its prompt runs and is given back as well. Kind `macro`, failure
   `prompt` and one interrupt violate `NotTwice`.
8. With `Alike = TRUE` the echo of an identically worded steered prompt is taken for the
   Record's own (`record.rs` observe; `interaction-and-sessions.md:29`).
9. A plain prompt that Pi handles without a run leaves the turn marked as working
   (`agent.rs:543`): what is queued behind it waits until an interrupt. `QueueMoves` is
   checked for Records for this reason. The confirmation of a route (`model.rs:121`)
   compares values, not requests: the state an interrupt reports, when it overtakes the
   request that gives a route back, confirms that request before Pi has read it, and its
   failure is then taken for that of a selection made since. Kinds `macro` and `marked`,
   failure `restore` and one interrupt violate `LoanKnown`.

Side sessions:

10. The watch channel keeps only the last cancellation. Cancelling one side session,
    reserving another and cancelling it before the worker reads loses the first
    cancellation (`runtime-and-adapters.md:25`); the front end discards its result all
    the same, which is what `CalledOff` shows.
11. A request that arrives while the companion still tidies up a cancelled one is
    refused. The test in `side.rs` that the source changed never succeeds, since the
    worker has called the preparation off before the next record.

DSH:

12. A fence begun while a session is being attached is answered for the session that
    is left (`prompt_state.rs:42`, `63`; `dsh-bridge.md:29`). `Across = TRUE`, kinds `set`,
    `ping` and `attach` and four messages violate `FenceExact`.
13. `new-failed` is sent without asking whether the connection is current
    (`dispatcher.js:236`; `dsh-bridge.md:8`). Kinds `new` and `attach` with failure `"new"`
    violate `ClientInformed`.
14. A text submitted after an image prompt may overtake it, because the image awaits
    the prompt interface (`dispatcher.js:145`; `dsh-bridge.md:21`): `PromptsInOrder` is
    about prompts of one sort.

Authentication (`lapses` in `PiAuth`):

15. `page`: a catalog that arrives during a flow, or a page opened again, takes the place
    of the flow's prompt, as a question of an extension does (`login.rs:146`, `195`,
    `agent.rs:652`; `interaction-and-sessions.md:36`): the flow can no longer be answered.
16. `refresh`: the late answer to an earlier flow's refresh takes the pending outcome of
    the present flow with it (`auth.rs:454`), which then is never told. `helper`: a
    request that cannot be sent drops the helper and with it a flow that is still held
    (`auth.rs:281`, `344`, `372`; `runtime-and-adapters.md:62`). `queued`: a moved session
    drops actions that were not yet told (`auth.rs:223`). The
    message of a moved session says that the credential store is unchanged, which it
    may not be (`auth.rs:229`).

Child process:

17. The ring of `PiWorker` (`Ring`): the worker waits in `rpc.send` for room among the
    commands, the writer for Pi's input, Pi for its output, the reader for room among
    the events (`process.rs:286`). The 30 second limit and Pi's death then go
    unnoticed; only a stop gets out. It takes 256 waiting items on each side.
    `runtime-and-adapters.md:22` asks for progress "despite request/event
    backpressure"; `StopFinishes` shows it for the stop.

18. Side sessions again. Between a switch in Pi and the adapter's next state read
    (`session.rs:65`, `session_worker.rs:475`) a side session is prepared from the new
    session (`side_companion.mjs:79`), while the front end shows the old one: `prepare_side`
    (`session_runtime.rs:30`) does not ask whether a switch is under way, and
    `side.rs:146` compares the session the adapter knew at the request with the one it
    knows at the answer, which are the same. The report of the switch cancels the
    reservation when it comes in time; when no state is read behind the switch (an
    extension made it, or the chain behind it failed, 4 above), or the candidate is ready
    first, it is attached. `runtime-and-adapters.md:25`: "Cancellation, timeout, source
    replacement and stale results MUST leave the current layout unchanged". `SnapshotOfSource`
    says what holds: the snapshot is of the session the user saw when asking or of a later
    one the front end was not told of. With `candidate.seed = expected` in its place the run
    fails.

## Proofs

| Theorem | For every value of the constants | Argument |
|---|---|---|
| `TypeCorrect` | `PiAdapter` is well typed | `TypeOK` is inductive; one lemma for each operator that builds a request, command, entry or outcome, one step for each action |
| `QueueDrained` | between handlers nothing that may go waits | with `TypeOK`: every handler that lowers a barrier ends in `StartDrain`; those that do not leave the gate as it was or raise a barrier; the user's end of a fork lowers one and drains nothing, but by `ForkAlone` nothing waits behind it; a routing step ends only when nothing is drainable |
| `ForkAlone` | while a fork is under way the deferred queue is empty and nothing is being routed | with `TypeOK`: a fork starts only with an empty queue, a fork under way makes `Refuse` the only handler of gated requests, and no handler of a response puts anything into the queue |
| `RetryTypeCorrect` | `PiRetry` is well typed | `TypeOK` is inductive |
| `BudgetHolds` | no more continuations in a row than delays | `Counted`: `streak` is at most `Attempts`; while not cancelled `attempt` is at least `streak`; while waiting it exceeds it. Needed because `attempt` may be reset, and only where `streak` is too or recovery is cancelled |
| `NothingRevived` | no continuation after the user withdrew, when recovery does not start before Pi's first state (`~AtStartup`) | `Withdrawn`: revoked implies cancelled, and waiting implies not cancelled; only `Retry` sends a continuation, and only while waiting |
| `OneWriterHolds` | one writer for any number of processes | a running writer holds the lock; an ending one removes its own lock, and the user removes one nobody holds |
| `LinesApartHolds` | every line but the last ended, records only behind a whole header | `Shape`: what the last line looks like in each state of the one writer; between records it is ended. Needs `OneWriterHolds`, for another writer could leave it open |
| `InboxTrueHolds` | the frontend is given Pi's records in order, none skipped or given twice, all of them before an end of the output is reported; `Ready` only behind the parts it stands for and once; `Fatal` last | `Chain`: while the worker's loop goes on, the records written are spread over frontend, worker, events, reader and pipe, one behind the other without a gap, and every step moves one border by one. `EndLast`: an announced end of the output is behind every record, so when it reaches the worker everything before it is empty |
| `CalledOffHolds` | a side session that was called off is never attached, nor its candidate kept | `FrontendInv`: a reservation is the newest identity, not cancelled, and excludes an open side session; a candidate is the reservation's; identities grow, so what was cancelled is never reserved again; a stale result does not pass `Stale` |
| `PreparationCurrentHolds` | the worker's control is that of its current creation, of the session the adapter has | `WorkerInv`, the property with the types it needs: both are set and cleared together, and a change of session ends the control |
| `FilesKeptHolds` | every file of a side session has one owner or is being removed, that of an attached session stays, and a candidate's snapshot is of the session the user saw when asking or of one Pi went to since and the front end was not told of | eight parts: types, what frontend and worker hold, the results and records on their way, which identities are fresh, who owns each file (`Files`), and of which session a snapshot under way to the front end is. The owner is unique, so a step that drops a result, ends a task or attaches a session disturbs one file. `Lines`: from `shown` to `native` to `piSession` the reports on either channel tell of later and later sessions; so a snapshot, always of Pi's own session, stays between what the front end shows and what Pi has (`MainSeeds`), since a report that passes it calls the reservation off |
| `VerdictTrueHolds` | one outcome is reported of a login, and it says what became of the credential | `AuthInv`. `Mutation`: helper, manager and credential agree on one flow. `Outstanding`: what the helper wrote and will write of it is true. `Truth`: nothing was reported of a flow that is still held or queued |
| `FlowSoundHolds` | the helper runs the flow the worker holds, nothing follows its outcome; without a lapse it is owed its outcome and can be reached | `AuthInv` again. `OnTheWay`: each opening of the page is sent one start, and an outcome is the last event of its flow. `Reached`: the page has the flow of the helper or waits for the start that names it |
| `PromptsPreparedHolds` | prompts of a sort are admitted in order, under the models selected before them | `Chain`: a handler that waited for the updates before it waits behind all of them, so the one that goes on is the first (`Unblocked`). `Order` and `Selected` compare what was admitted and selected with what is under way |
| `ClientInformedHolds` | the client reads frames of its session only, and at rest shows its queue; on hosts where `/new` and attach succeed, see 13 above | `Way`: every frame on the channel is of the session welcomed before it, the last welcome is the dispatcher's. `Shows`: the last queue on the channel is the host's, unless a handler that will send it is under way |
| `FenceExactHolds` | a fence is answered with the last model selected before it; when none is begun during a session change (`~Across`), see 12 above | `Answers`: pongs come in the order of the fences without passing one over, and the frame before each tells the model in force there. `Fences`: a fence has its ping under way or its pong on the way, and one that is passed was asked before every update under way, so later selections do not touch it. Needs `Selected` |
| `CloseSavesHolds` | a close that reports success has written every record of its opening | `Delivers`: what the queue holds is numbered without a gap from the records written to the records offered, unless an error is on record or on its way; the page or flush a client waits for is the last item; once an opening is saved its writer has no record left. A failed write sets the error before anything can be reported |
| `PagesExactHolds` | an answered query has read every record below its watermark, once and in order | `Paging`: what a query has read is the records of the lines up to where it stands, all of them ended, and only an unended last line is ever rewritten (`GrowsKeeps`; needs `LinesApartHolds`). A page adds the records between two places in the file (`RecordsSplit`) and never stops between records unless it is full. `RecordsBehind` selects records by a recursive function over the lines: that it is the function its equation describes is shown by taking the least line where it is not (`Smallest`, from the well-foundedness of the naturals) |
| `IsLogHolds` | the trace file and its writers implement `ExecutionLog` | step by step: `Open` is the abstract `Begin`, `WriteLine` `Write`, `FlushFile` `Close`, the end of a writer or its process `End`, every other step leaves the log alone. `Ordered`: what the queue holds is numbered on from the records in the file, also behind an error; with it, and because the line being written adds its record only when its text is complete, a write is the abstract one |
| `ShownTrueHolds` | with both pipes empty the status shown is what Pi and recovery do, and no progress row stays open without either | `Pictured`: the records on their way are a path from the run the adapter knows of to the one Pi is in (a sequence of runs, one for each record, that exists at every moment). Empty pipes make the two ends equal. Besides: shown as running exactly while streaming or busy with recovery, an open row only for a run that may yet fail |
| `RecoveryAloneHolds` | recovery never waits during a run, nor is it pending while an attach hides the session | `Pictured` again: pending recovery excludes streaming, and an attach without a state yet has cancelled it |
| `OrderKeptHolds` | requests wait and leave in the order they were made | `OrderIInv`: `Queued`, the numbers in the queue grow and are at most that of the last request; `Founded`, the request of a new session under way, whose last answer sends a prompt without a look at the queue, is before all that waits. A request routed at once finds the queue empty (`QueueDrained`), one taken by the loop is the head or passes only what `ReadyControls` lets it pass; the prompt of a fork finds the queue empty (`ForkAlone`) |
| `CommandsAccountedHolds` | each request is reported by one of the legal sequences of outcomes, and the tables of prompts keep their bound | `Accounted`: what the adapter remembers of requests, in eight places (queue, admissions, command states, commands of a new session, queue operation, capture, fork, reload), are records that each agree with what was told of the request and are alone in naming it; a step drops records, lets one give way to another of the same request, or reports and drops it (`DutyStep`). `Numbered`: ids are used once, and a failed entry's command is gone. `Bounded`: the tables are finite, and only an admission, which checks the bound, adds to them. Needs `OrderIInv`, `ForkAlone` and `QueueDrained` |
| `FencesAnswered` | every fence has a command in flight that ends it; an unanswered capture or fork is queued or under way | `FenceIInv`: each fence waits for a command of its own kinds (`Fences`), so that by `Numbered` the answer to another command never takes it away, and each step answers one command and lowers, keeps or hands on what waited for it (`FencesStep`). Needs `Local`, that admissions are those of the session the adapter knows, because a stale answer to a skill returns early. `AskedKept`: who was asked and not answered is queued, is the capture or is the fork; a failure that empties the queue answers all in it, and a new capture finds no older one because `CaptureFirst`: the configuration request is never older than the capture under way, Pi answering reads in order |
| `WaitsAnsweredHolds` | the configuration request has its command in flight as well, so every wait ends, when no settlement makes a read required (`NoRequiredRead`), see 1 above | with all of the above, `Plain`: no slash command is queued or admitted, and the configuration request is a command of one of its kinds or the capture's read, so each answer to it lowers it or hands it on |
| `RoutesHold` | every Record runs under its route, and the frontend knows of a borrowed route as long as Pi uses it, when the user submits Records only and interrupts none (`RecordsOnly`) | `IInv`. `Staged`: the phase of the borrowed route, and what the owner has sent and heard, say which requests and events may still be in the two channels and in which order, so Pi changes its route or runs a body only where the frontend expects it. `OneBody`: what Pi has queued or is starting is the owner's, under its route. `OneRequest`: at most one clear and one other request are on their way. Two predicates, `In` and `Behind`, carry all of it; `Afters`, a recursive function, needs the least-place argument of `PagesExactHolds` |
| `NotTwiceHolds` | no prompt that was given back also runs, under the same hypothesis | the same `IInv`: `Placed`, a prompt is in the local queue, the owner's, given back or run, and while a body or its refusal is under way the owner's prompt is neither; `OneOwner`, an owner that has not sent has heard nothing |

Assumptions are those of the modules: `ConstantsAssumption`, `RetryConstants`,
`HistoryConstants` and the `BoundsAssumption`s give the constants their types and keep
`None` apart. All the `ASSUME`s are evaluated by the runs.

Only model-checked, and why:

- every liveness property, which is out of the prover's reach;
- of `PiRoutes` and `PiAdapter`, `RouteReturned`, `DependentsHeld` and `PromptsInSession`: they are false
  of some combination of requests and failures (2 to 4 above), so a theorem would need
  hypotheses about what the user asks for, as that of `WaitsAnswered` does;
- of `PiRetry`, `NoStaleRecovery` and the rest of `OneConversation`, for the same reason
  (5 and 6 above);
- of `PromptRoutes`, `RoutesKept` and `NotTwice` where plain and marked prompts are mixed
  with Records (`prompt_routes` checks all three): these join a running turn, which the
  stages of the proof do not describe. With an interrupt at the wrong moment `NotTwice` and
  the `LoanKnown` of `RoutesKept` are false (7 and 9 above), hence no interrupts in
  `RecordsOnly`; its `RightRoute` with interrupts is what `prompt_progress` checks.

## Plan

1. The MCP page and the extension dialogs in `PiAdapter`, with their deadlines; an
   ordered request queue as the abstract specification `PiAdapter` implements.
2. `PromptRecord` with drafts of a new conversation, skills and slash commands, and
   with the DSH adapter as its other party.
3. `Herdr`: latest-value watch, delivery, backoff, release. Abstract
   specification: the status acknowledged is in the end the last one published.
4. `HistoryStore` composed with a recorder that changes sessions; several workers
   with one focus in front of `SideSession`.
5. The hello, interrupts, questions and approvals of `DshBridge`, with several sockets.

Theorems: `RoutesHold` and `NotTwiceHolds` for plain and marked prompts, and
`RightRoute` with interrupts; the parts of `OneConversation` of `PiRetry` that hold of
every combination.

## Not modelled

Rendering, input and pages, the projection of tools and text, file indexes and
configuration parsing, build scripts: they keep little state that more than one step
of more than one actor changes, or their correctness is in the text they produce,
which unit tests reach better. The contents of authentication dialogs, the splitting
of bytes into lines and standard error for the same reason. The Herdr reporter only
tells another program of a status. Frame scheduling is timing data. What each modelled
component leaves out stands with its entry in `PROJECT.json`.
