# Change Quality Agent: a TLA+ verification project

The repository is a service (FastAPI, SQLAlchemy on PostgreSQL with READ COMMITTED
transactions, LangGraph) that reviews standard operating procedures (SOPs), and a React
frontend that starts and follows the reviews and edits the agents, MCP servers and LLM
providers they use. This directory models the stateful parts of both, model-checks them
with TLC on small instances, and proves the safety properties that TLC checks with TLAPS,
for every instance.

    tlc -config CheckLifecycle_lifecycle.cfg MCCheckLifecycle   # one run
    tlapm CheckLifecycle_proofs.tla                             # the proofs of a module

`PROJECT.json` lists components, runs, mutants, the map from definitions to source lines,
findings, hazards and theorems.

## 1. Inventory

| Component | State it keeps | Operations | What makes it correct |
|---|---|---|---|
| **SOP quality checks** (`app/services/sop_quality.py`, `sop_quality_runner.py`, `app/repositories/sop_quality_checks.py`, `app/main.py`) | tables `sop_quality_checks`, `sop_quality_events`, `sessions`; one background task per check | `start_check` (create or join), the runner (start, graph, checkpoint, success or failure), the startup hook that interrupts leftovers | one active check per SOP and environment; an outcome is final and the event log tells it; events numbered without gap; every check ends |
| **SOP stream and observer** (`sop_quality_streaming.py`, `stream_events`, `frontend/src/features/sop-quality-checks`) | broadcast queues, stream cursor; the hook's cursor, terminal flag, requests in flight | subscribe, replay, live delivery, detail, reconnect | no event skipped; the view never goes back; the end is shown |
| **Session transcript** (`sessions.py`, `session_messages.py`, `core/agent_streaming.py`, `frontend/src/features/sessions`) | table `messages`, session status, queues; the browser's messages and live buffers | append and publish messages, publish deltas, stream, hydrate, reduce, project to nodes | the transcript is a prefix of the committed one, once each, in order; a step shown as done is whole |
| **MCP runtime** (`mcp_runtime.py`, `mcp_servers.py`, `repositories/mcp_servers.py`) | table `mcp_servers` with tool snapshots; in memory `_handles`, `_locks`, a worker task per session | create, update, delete, start, stop, restart, check; startup, shutdown | one session per server, none leaked, never under another configuration; operations end |
| **Pages of MCP servers, providers and agents** (`features/mcp`, `features/llmProviders`, `features/agents`: hooks and pages) | per page: list, detail, pending count, error; a request id per hook; the address | open, move, refresh, mutate, test a model, and what each page does with an answer | late answers never replace newer ones, the page shows its own changes, nothing stays disabled for ever |
| **Configuration forms** (`McpServerForm`, `LlmProviderForm`, `AgentForm`) | fields, loaded row, snapshot, errors, selection | hydrate, edit, validate, submit, cancel; automatic selection when providers arrive | hidden secrets survive, a save does what the form shows, no reference is lost or saved when it is gone |
| **SOP page and workspace** (`ChatPage`, `App`, `WorkspaceSidebar`, `RecentSopSidebarPanel`) | address and history, observed check, start in flight, recent checks | start, open, new conversation, change of environment, back, close and open the sidebar | the check shown is the one in the address; an answer never overrides what the user turned to since |
| **Sign-in of the browser** (`AuthContext`, `DevUserPicker`, `DevUserSwitcher`) | user and status, request id, pending login; the cookie | first load, login, switch | the user shown is the user of the session |
| **Graph nodes, display projection** (`app/agent/sop_quality`) | graph state | load, review, summarize, submit; project messages to nodes | step order; normalisation of the review |
| **Agents** (`services/agents.py`, `repositories/agents.py`) | `agents`, `agent_versions` | draft, publish, delete | versions numbered under a row lock, the latest one linked |
| **LLM providers** (`services/llm_providers.py`) | `llm_providers` | create, update, delete, test a model | references from agents stay valid |
| **Authentication of the server** (`services/auth.py`, `core/security.py`) | `users`, signed cookie | login, logout, guard | who may call what |
| **Configuration, logging, migrations, scripts** | none | none | none of their own |

How they interact. `POST /sop-quality-checks` commits a check with its session and hands a
background task to the response; the task commits lifecycle events to one table and step
messages to another, and publishes each to an in-process broadcast after the commit. A
stream subscribes to the broadcast and polls the table. The browser merges stream, detail
endpoint and session stream. The startup hook of a process touches the same check rows as
the runners of any other process. The MCP runtime shares only the lifespan with the rest.
In the browser the workspace signs the user in, mounts the SOP page or one of the
configuration pages by the address, and keeps the sidebar with the recent checks beside
them; the pages call the API and navigate when an answer comes, which may be long after
the user has moved on.

What is hard: two requests inserting at once behind a partial unique index; a runner and a
startup hook writing one row; a decision on a row read without its lock; objects that
SQLAlchemy's identity map keeps stale; replay and live delivery that overlap; timeouts
whose operation goes on; commits that fail after memory has been changed; crashes at every
step; in the browser, answers that arrive late, out of order, or after their page has
left, and placeholders that stand for secrets the browser has never seen. The hazards in
`PROJECT.json` name the lines.

## 2. Modules

| Module | Models | State | Composition |
|---|---|---|---|
| `CheckLifecycle` | checks, requests, runners, processes | committed tables (`status`, `subject`, `session`, `events`, `msgs`); `req`, `runner`, `proc`, `todo`, `bootSeq` | composes service, runner, repository and lifespan |
| `CheckSpec` | what the tables promise their readers | `status`, `subject`, `log` | abstract; instantiated by `CheckLifecycle!CS` |
| `McpRuntime` | MCP servers of one process | `row`; `handle`, `lock`, `worker`; `op`; `phase`, `todo` | composes service, manager, worker task and lifespan |
| `CheckObserver` | a browser that follows one check | the check's `status`, `log`; `stream`, `wire`; `reqs`, `hook` | runner, service and hook of one check |
| `SessionObserver` | a browser that follows one session | `committed`, `published`; `stream`, `wire`; `reqs`, `hook` | writer, service, hook and projection of one session |
| `ConfigPages` | what the configuration pages share | `route`, `mount`, `list`, `detail`, `mut`, `reqs`, `calls`; the server's `rows`, `clock` | instantiated by the next two |
| `McpPages` | pages of MCP servers | the above, `reflected` | `ConfigPages` |
| `ProviderPages` | pages of LLM providers and agents | the above, `confirm`, `pending`, `results` | `ConfigPages` |
| `ConfigForms` | forms of a server and of a provider | the row `stored`, `base`, `loaded`; `form`, `snapshot`, `sent`, `errors` | |
| `AgentForm` | form of an agent | `catalog`, `list`, `draft`, `pick`, `texts`, `stage` | |
| `Forms` | whichever form is open | | `ConfigForms`, `AgentForm` |
| `AuthSession` | sign-in of the browser | `cookie`, `auth`, `authReqs`, `picker`, `switcher` | |
| `SopChat` | SOP page, history and recent checks | `checks`, `route`, `past`, `chat`, `starts`, `panel` | |
| `Workspace` | the application | | `AuthSession` and `SopChat`: only a user who is signed in has pages, and a closed sidebar unmounts switcher and recent checks |
| `MC*` | the instances for TLC | | |
| `CheckLifecycle_proofs`, `McpRuntime_proofs`, `CheckObserver_proofs`, `SessionObserver_proofs`, `McpPages_proofs`, `ProviderPages_proofs`, `Forms_proofs`, `Workspace_proofs` | theorems | | each extends the module it is named after |

**CheckLifecycle.** The variables of the tables hold committed rows only. A transaction is a
step that takes the row lock and computes the next event sequence (`LockStep`, `BootLock`)
and a step that commits (`CommitStarted`, `CommitTerminal`, `BootCommit`, ...); a lock is
held in between, exactly when `runner[c].pc` is in `LockedPcs` or `bootSeq[p][c] # 0`.
`mark_terminal` refreshes the row without locking it, so `ReadBeforeTerminal` and
`LockToFinish` are two steps and the runner remembers what it has `seen`. An uncommitted
INSERT is the request's state `inserted`; the partial unique index makes another INSERT for
the subject wait (`InsertInFlight`). Two `try` blocks call `_mark_failed`; `handler` tells
them apart. A process that dies rolls its transactions back. PostgreSQL breaks lock cycles:
`BootDeadlock` models the pairwise cycle of two startup hooks.

**McpRuntime.** The server's `asyncio.Lock` is held for a whole operation, whose
transaction becomes visible with its commit, so `starting` and `stopping`, which are only
flushed, are not committed states. A worker is a task with a command queue; an operation
that times out leaves its command there, and a reply reaches only an operation that still
waits for that worker (`Awaits`). `Faults` switches on closings that fail (`stop`),
commands that raise a BaseException (`die`) and database errors (`db`). `cfg` and `tools`
name the operation that wrote the configuration, which is how a stale session shows.
Left out: a database error inside the error handler of the startup loop, and a
BaseException during startup, both of which end the process like `Crash`.

**CheckObserver** and **SessionObserver.** One subject, one browser. `stream` is the
generator on the server, `wire` what it has sent; a lost connection loses both. What a
stream believes about the status (`seen`) is the object in the identity map. React's
effects, the request ids and the terminal ref are `hook`. A message event is handled twice,
since `onmessage` and the named listener both fire, and `SessionObserver!Receive` does so.
The projection of the session's state to the nodes of the page is a set of operators
(`Seen`, `Status`, `Text`). In both modules the broadcast and the runner live in the
process of the stream; a stream served by another process would see polls only, which is a
sub-behaviour (`PollAgain`).

**ConfigPages, McpPages, ProviderPages.** One browser on one page at a time. A change of
page is a new `mount`; a move between two servers on the same page is not, and only the
hooks with the id among their dependencies load again, which is why calls and requests
carry the mount and the id they were made for. A hook is a record of data, error, loading
flag and request id; a request is answered (`Answer` reads the rows at that moment, `at` is
the version it has read) and later delivered. A mutation is executed by the server, then
settled by the page that called it (`Settle`), which refetches or navigates as the page's
handler does. A network failure before or after the server has acted is `ExecuteFails` or
an answer that fails. What a call does to the row of an MCP server is `Outcomes`: a create
may start the server, a delete stops a running one first and then deletes it, only an update
is refused while the server runs; and `Remains` when it fails: the row of a create whose
start has failed, the error of a delete whose stop has failed, a stop without the start or
the deletion that was to follow. Two abstractions of `McpRuntime` are made here: an operation
that commits twice (create and start, stop and start, stop and delete) is one step, since a
list that is read in between is only another list older than the answer; and whether a
session stands behind a row is left open, so that an update of a server in error may succeed
or be refused, and a check may find the server stopped or running. An update that hangs
(finding `mcp_update_hangs`) is a call that is never answered.

**ConfigForms, AgentForm.** A region of key-value lines (environment variables, headers,
query) is a function on keys together with the way it was entered: as loaded, typed, or
text that does not parse. The API answers secrets as a placeholder (`Mask`), and the form
knows only that. Other clients may write the row while the form is open (`OtherClient`).
The agent's form runs its two selecting effects after every change (`AutoSelect`).
Plain fields are represented by the name; formatting of text is left out.

**AuthSession, SopChat, Workspace.** The refs of the page (`startRequestRef`, the current
check and environment) are part of `chat`; a start remembers the refs its page had, since a
page that has left still holds them (`orphan`). `wish` is a history variable: the start
that the user last asked for and has not turned away from; `shown` those checks whose
start has been shown; `forgotten` whether a switcher with a pending login was unmounted.

## 3. Runs

| Run | Instance | Shows |
|---|---|---|
| `lifecycle` | 1 process, 2 requests, 2 checks, 1 subject, 4 nodes, 1 crash, all faults, fairness | `TypeOK`, `LogTellsOutcome`, `SessionFollowsCheck`, `SuccessIsComplete`, `ActiveChecksEnd`, `RequestsAreAnswered`; the tables implement `CheckSpec` (`ImplementsCheckSpec`), so an outcome is final |
| `overlap` | 2 processes, 2 requests, 2 checks, 2 subjects, 1 node, 1 crash, faults close/graph | `OneActivePerSubject`, `EventsNumbered`, `ActiveIsOwned`, `NeverRevived` when a second process starts next to a working one |
| `mcp_sessions` | 1 server, 3 calls of any kind, faults stop/die, 1 end of the process | `KeptSessionIsShown`, `RunningIsRestored` |
| `mcp_faults` | 1 server, 2 calls of any kind, faults die/db, 1 end of the process, fairness | `OneSession`, `SessionHasConfig`, `SessionsAreOwned`, `OperationsEnd` |
| `observer` | 2 lost connections, failing requests, fairness | `NoGap`, `ViewNeverGoesBack`, `EndIsShownOrStuck` |
| `transcript` | 3 steps, a delta, 1 lost connection, 2 mounts, failing requests, fairness | `TranscriptInOrder`, `DoneIsWhole`, `MessagesAreShown` |
| `mcp_pages` | 2 servers, running or not there yet (`Found`), 2 operations, 1 move of the user, failing requests and operations | `WaitsForAnswers`, `ShowsOwnChanges`, `ListNeverGoesBack` |
| `provider_pages` | 2 providers or agents, 2 models, 2 operations or tests, 1 move, failures, fairness | `PendingModelHasTest`, `DetailIsOfRoute`, `NoForeignResult`, `DoneIsLeft` |
| `forms` | 2 keys (one secret), 2 values, 2 edits, 1 write by another client; 2 providers, 2 models, 3 choices | `SaveDoesWhatItShows`, `UntouchedSecretsKept`, `DraftStaysSelected`, `SavedIsAvailable` |
| `workspace` | 2 accounts, 2 environments, 2 checks, 5 acts of the user, fairness | `UserIsSession`, `ShownIsRouted`, `StartingHasRequest`, `RecentCatchesUp`, `AnswerIsWanted`, `StartIsAnswered` |
| `mcp_update_hangs` | as `mcp_faults`, expects a violation | see below |
| `mcp_placeholder` | the form of a server, expects a violation | see below |

Every property of a passing run has a mutant in `PROJECT.json`: a change of one definition,
as a plausible bug would make it, under which TLC finds the property violated. The runs
spend their properties on hazards; the type invariants of the modules other than
`CheckLifecycle` state the shape of the variables and are not part of a run.

Bounds. Interference on a check needs two requests for a subject, one runner and one
startup hook; two subjects let two startup hooks wait for each other. One crash is enough
to leave work behind and clean it up; a second one would repeat that. The graph has four
nodes; `overlap` uses one, since the nodes of a runner do not interact with the other
process. Three calls on a server are an operation, one that overtakes it and one that finds
what both left; with database faults two are enough, since the failing statement is what
leaves the odd state behind and the second call meets it. MCP servers share no state, so
one is enough. In `observer` a second lost connection shows that a cursor obtained after
the first is good; `transcript` has a lost connection, a restart and a second mount, each
of which starts from such a cursor. On the pages two operations overlap and one move of the
user, besides the navigation that answers cause, is enough for an answer to come late; a
second id is what it may be confused with. Two edits rename a key or replace a value next
to a placeholder. In `workspace` five acts are a login, a start, something the user turns
to, and a way back. Symmetry is used for invariants and action properties on
interchangeable requests, checks, calls or ids, never with liveness.
`CHECK_DEADLOCK FALSE`: all requests may be answered and all checks ended, after which the
system rests.

Fairness. Coroutines that can go on are scheduled by the event loop, PostgreSQL grants a
row lock that is free, `wait_for` fires, timers and requests of a browser complete, and an
operator starts a process that is down. In `provider_pages` the server answers and the
browser runs what waits for an answer; in `workspace` a start is answered or its connection
breaks. Nothing is assumed of MCP workers, of a node that raises, of the runner in the
observer modules, or of the user. A graph node is assumed to end or to raise: the code sets
no timeout of its own on the agent, so a hanging model provider would keep a check active.

### Where code and documents disagree

Runs that expect a violation; `PROJECT.json` quotes the lines.

1. `mcp_update_hangs`: `update_server` calls `start` under the lock that `start` takes, so
   an update that is to start the server waits for itself (`UpdatesAreAnswered`).
2. `mcp_placeholder`: the form of a server lets a hidden value be moved to a new key, and
   the literal placeholder is stored (`NoPlaceholderStored`).

### Known deviations

These the models have, because the code has them. The properties are stated around them,
each with its exception in its definition or in its comment.

- The startup hook interrupts a check but never its session, which stays active
  (`SessionFollowsCheck` closes sessions of finished checks only).
- With two processes, `mark_terminal` may overwrite `interrupted` by the outcome it decided
  on before: hence `NeverRevived` in `overlap`, and finality (`CheckSpec`) in `lifecycle`.
- A failure on leaving the checkpointer appends a second terminal event and marks the
  session of a success as failed (`LogTellsOutcome`, `SessionFollowsCheck`, `Told`).
- A runner task ended by a database error leaves its check active until the next start
  (`dead` in `ActiveIsOwned` and `ActiveChecksEnd`).
- After a stop that timed out the handle is kept, and the next `start` reports a session
  that is gone. A temporary session whose closing fails during `check` stays open (no
  `stop` fault in `mcp_faults`).
- `get_check` may pair an old status with a new sequence; an observer that takes it as its
  cursor never sees the end (`Unaware` in `EndIsShownOrStuck`).
- A session stream holds on to the status that it has read first, so that one opened while
  the session is active never ends; and messages committed between its two queries are
  cut off by the end (`MessagesAreShown` stops at a browser that has been told of it).
- Deltas still queued when their message is replayed bring the live text of the step back
  (`overtaken` in `DoneIsWhole`).
- The detail page of a server refetches with the function of the render that made the call:
  after a move to another server it loads the first again, under the second address
  (`DetailIsOfRoute` is stated for providers and agents).
- A create or a save that is answered after the user has left navigates all the same, on
  the configuration pages and on the SOP page (`~s.orphan` in `AnswerIsWanted`).
- The list of servers is not loaded again after an operation that has failed, even if it
  has changed the row (`ShowsOwnChanges` speaks of successful ones).
- The end of a model's test clears the pending model, even if another test is on its way,
  whose button is then enabled early (`PendingModelHasTest` excludes only the opposite: a
  button that stays disabled without a test).
- What is typed while a save is pending is lost with the page. A start that fails after the
  user has opened another check shows its error there. An address without a check still
  shows the one observed before (`ShownIsRouted`).
- The switcher forgets its pending login when the sidebar is closed; a second login may
  overtake the first, after which the user shown is not the user of the cookie
  (`~forgotten` in `UserIsSession`).

## 4. Proofs

Every invariant and every action property that a run checks is also a theorem, proved for
all values of the constants: any sets of processes, requests, checks, servers, calls, ids,
keys and accounts, finite or not, any bound on crashes, lost connections, mounts, moves and
edits, and any subset of the faults except where the table says otherwise. TLC has
confirmed each inductive invariant on the instance of its run before it was proved. The
assumptions on the constants are the named `ASSUME`s of the modules: bounds are naturals,
`None` and `Mask` are not values, the faults, kinds and steps are those that the model
knows, a form has a kind and a value to type, `CodeModels` is a sequence that is not empty,
and no model of a provider is called `create`, `update` or `delete`, because a test is a
call with its model in the place of the kind.

| Module | Theorem | Statement |
|---|---|---|
| `CheckLifecycle_proofs` | `TypeCorrect`, `Safety` | `[]TypeOK`, `[]SafetyInv` |
| | `OneActive`, `Numbered` | `[]OneActivePerSubject`, `[]EventsNumbered` |
| | `NotRevived` | `NeverRevived` |
| | `Ownership`, `Owned` | `[]OwnedInv`, `[]ActiveIsOwned` |
| | `Work`, `Complete` | `[]WorkInv`, `[]SuccessIsComplete` |
| | `Outcome`, `LogOutcome`, `SessionOutcome` | if `OneProcess`: `[]OutcomeInv`, `[]LogTellsOutcome`, `[]SessionFollowsCheck` |
| | `Refinement` | if `OneProcess`: `ImplementsCheckSpec` |
| `McpRuntime_proofs` | `Runtime`, `Configured` | `[]RuntimeInv`, `[]SessionHasConfig` |
| | `Serve`, `Single`, `OwnedSessions` | if `"stop" \notin Faults`: `[]ServeInv`, `[]OneSession`, `[]SessionsAreOwned` |
| | `Restore`, `Shown`, `Restored` | if `"db" \notin Faults`: `[](ShownInv /\ RestoreInv)`, `[]KeptSessionIsShown`, `[]RunningIsRestored` |
| `CheckObserver_proofs` | `Following`, `GapFree`, `NotUndone` | `[]ObserverInv`, `[]NoGap`, `ViewNeverGoesBack` |
| `SessionObserver_proofs` | `Transcript`, `InOrder` | `[]TranscriptInv`, `[]TranscriptInOrder` |
| | `Whole` | if `OneAgentStep`: `[]DoneIsWhole` |
| `McpPages_proofs` | `PageKept`, `Waits`, `OwnChanges`, `NotBack` | `[]PageInv`, `[]WaitsForAnswers`, `[]ShowsOwnChanges`, `ListNeverGoesBack` |
| `ProviderPages_proofs` | `PageKept`, `OfRoute`, `PendingTest`, `OwnResults` | `[]PageInv`, `[]DetailIsOfRoute`, `[]PendingModelHasTest`, `NoForeignResult` |
| `Forms_proofs` | `Agent`, `Selected`, `Available` | `[]AgentInv`, `[]DraftStaysSelected`, `[]SavedIsAvailable` |
| | `Sent`, `DoesWhatItShows`, `SecretsKept` | `[]SentInv`, `SaveDoesWhatItShows`, `UntouchedSecretsKept` |
| `Workspace_proofs` | `User`, `SessionUser` | `[]UserInv`, `[]UserIsSession` |
| | `Chat`, `Routed`, `Waits`, `Recent`, `WantedAnswers` | `[]ChatInv`, `[]ShownIsRouted`, `[]StartingHasRequest`, `[]RecentCatchesUp`, `AnswerIsWanted` |

The four conditions are those of the code, and the properties fail without them.
`OneProcess` is the service as it is deployed; with two processes the outcome of a check
can be overwritten (known deviations), which is what `Safety`, `NotRevived`, `Ownership` and
`Work`, proved without it, are about. `"stop" \notin Faults`: a temporary session that
refuses to close stays open. `"db" \notin Faults`: a commit that fails leaves a row behind
that does not know of the session. `OneAgentStep`: of the graph's steps only `review_sop`
is an agent's; with two, text of the earlier one could be live while the later one is at
work.

The arguments, and why the invariants are needed:

- **One active check, numbered events.** `CommitCheck` makes a row visible without looking,
  and is right because of what the INSERT found earlier: an uncommitted INSERT has a fresh
  id, and its subject neither an active check nor another such INSERT (`InsertInv`). A row
  lock has one holder, and the sequence it computed is still the next one (`LockInv`).
  What `mark_running` read under its lock holds when it commits (`StartInv`); hence no
  check is revived. `RowInv` orders what exists before and after a row.
- **No check is forgotten.** `ProcInv` follows the hand-over from the request to the runner:
  a request or task under way has a process that is up, and a process that starts has every
  active check of its own on its list. `TaskInv` says what a task that gives up knows of
  the status.
- **Success is complete.** `WorkInv` counts the nodes that have run by how far the task has
  come; a task that reports success has counted them all and recorded the checkpoint.
- **Outcome and refinement.** With one process, status, log and session of a check are a
  function of where its task is (`StatusInv`, `StoryInv`): the log has one terminal event,
  its last, or a second one appended by the failure on leaving the checkpointer. Then
  every commit is a step of `CheckSpec` or changes nothing that a reader of the log is told.
- **MCP runtime.** Mutual exclusion by the server's lock, by which an operation is inside
  (`LockInv`), and by the phases of the lifespan for `shutdown`, which takes no lock
  (`LifeInv`). Handle, worker and row then change under one operation at a time, so
  `ConfigInv`, `ServeInv`, `ShownInv` and `RestoreInv` need to know only its step. Commands
  left in a queue by a timeout (`ListInv`) and ids that no row has yet (`NewInv`) are what
  could disturb them from outside.
- **Observers.** The wire is gapless after the browser's cursor: an event is at most one
  beyond what is before it (`Gapless`), and so are the next event that the stream would
  read and the next one in its queue (`StreamInv`). Replay and live delivery may thus
  overlap but not leave a hole. In the check's observer the one detail request that counts
  tells no less than the browser knows (`DetailInv`); in the transcript's, live text after
  its message is overtaken (`LiveInv`).
- **Pages.** A hook that waits has a latest request, and that is the only one with its
  number (`LatestList`, `LatestAsk`). For the list it brings nothing older than what is
  shown and what the page must reflect, which gives `ListNeverGoesBack` and
  `ShowsOwnChanges`; for the detail it asks for the address. Awaited requests navigate only
  from the page that makes them (`RequestInv`), so that a navigation never takes the request
  that a hook waits for. Calls are told apart by number, and those of the page shown were
  made on it (`CallInv`): the pending count is their cardinality.
- **Forms.** What is being saved has passed the check for placeholders, and a text that
  counts as untouched says what was loaded (`SentInv`). In the agent's form the effects have
  filled what is empty, and a draft waits for the list (`SelectionInv`, `FormInv`).
- **Workspace.** While no closed switcher has forgotten its login there is at most one login
  on its way, and it is the latest (`LoginInv`); requests of `/me` are older than any login
  (`RequestInv`). A start that has its page is on the page shown and unique in its number
  (`StartInv`), so the refs that `handleSend` compares tell whether it is still wanted; a
  list on its way to the panel already has what the panel must show (`PanelInv`).

Each proof has a lemma per action, or per kind of change that several actions make, a step
per conjunct it can disturb, and lemmas about the records and sequences of the model.

Only model-checked: the liveness properties `ActiveChecksEnd`, `RequestsAreAnswered`,
`OperationsEnd`, `EndIsShownOrStuck`, `MessagesAreShown`, `DoneIsLeft` and
`StartIsAnswered`, since fairness is beyond the prover; and the two violations. The type
invariants of the page modules and of `ConfigForms` are proved only as far as the inductive
invariants contain them.

## 5. Not modelled

- **Agents and versions** on the server: drafts, publication under a row lock, soft
  deletion. The frontend creates and edits drafts only, which `AgentForm` and
  `ProviderPages` model; publishing is reachable through the API alone.
- **LLM providers and the agent factory** on the server: changes of one row in one
  statement, which the pages and forms take as atomic; calls of a model are external.
- **Authentication of the server**: stateless checks of one request. `logout` of the
  frontend is called by no component.
- The text of events, messages and agent output and its parsing, the normalisation of a
  review, command allow lists, schema validation, HTTP status codes beyond success, not
  found and failure, LangGraph's own checkpoint storage.
- In the browser: layout, labels, focus, search and filter, the limit of 50 recent checks,
  the detail that `CheckObserver` shows as ended from the terminal event on, while the page
  keeps the running marker of the old detail until it has been fetched again,
  `useSopQualityCheckHistory`, which no component uses, the fields of an agent's draft that
  the form always sends empty, and how finished events are folded into nodes.

## 6. Plan

1. Done: all modules of section 2; every invariant, every action property and the
   refinement of `CheckSpec` proved.
2. Proofs to add: what holds with two processes in place of the outcome (a weaker abstract
   check whose outcome may be replaced by another one, which `CheckLifecycle` implements
   without `OneProcess`); the full type invariants of the page modules.
3. Further modules: agents and versions with their locks; an abstract specification of a
   stream (an ordered, gap-free log) that both observers implement, and its refinement from
   `StreamInv`.
