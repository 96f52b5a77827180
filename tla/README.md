# Formal models of PCE-Core

PCE-Core records a user's conversations with AI tools on the user's own
machine. Browser extension, MITM proxy, relays, SDK bridges and file watchers
capture traffic and hand it to a local server, which stores every capture as it
came (Tier 0) and turns it into sessions and messages (Tier 1) in one SQLite
file. A desktop panel starts and stops these parts and points the host's system
proxy at PCE. This directory holds TLA+ models of the parts where concurrency,
crashes, retries and the order of events decide whether that works, the TLC
configurations that check them, and TLAPS proofs.

## The system

| Part | State it keeps | Operations | How it meets the others | What is hard |
|---|---|---|---|---|
| Content scripts (`utils/capture-runtime.ts`, `pce-dom.ts`) | fingerprint and count of what was sent, a debounce timer | schedule, captureNow, navigation hooks, trigger | watch the page, send messages to the service worker | captures overlap; the page moves on; refusals are rolled back; the worker's duplicate gate |
| Extension capture queue (`background.ts`, `background/capture-queue.ts`) | IndexedDB object store; `_flushing`, `_retryMs`, `recentHashes` in the worker | post, enqueue with eviction, flush, write-back, clear, retry loop | content scripts send messages, the worker posts to `/api/v1/captures` | every `await` interleaves; the browser kills the worker; lost replies; full store |
| MITM proxy addon (`pce_proxy/addon.py`) | what it knows of each flow; a copy of the user's domains | hooks of flows and frames | writes pairs of captures and calls the normalizer; the API server writes the domains | flows recognized late; streamed bodies; restarts; two processes, one table |
| MCP relay, CLI wrapper (`pce_mcp_proxy`, `pce_cli_wrapper`) | queue of copies, pending requests; capped buffers | pump, observe, pair, join, terminate | stdio of wrapped programs, ingest endpoint | threads blocked on pipes; copies out of order; bytes still flowing when the row is built |
| Persistence watcher (`pce_persistence_watcher`) | fingerprints in memory and in a state file | scan pass, loop | reads other applications' logs and snapshots, inserts captures | torn lines; crashes between insert and save; two processes, one file |
| Ingest and normalization (`server.py`, `normalizer/*`, `db.py`) | `raw_captures`, `sessions`, `messages` | store, normalize a pair, persist with deduplication, fork, enrich, sweep orphans, collapse branches | request threads, the proxy process and the sweeper share one database file, a connection per call | reads and writes in different transactions; failing queries; late responses; copies that differ |
| Maintenance (`retention.py`, `db.py`) | the database | prune by age and number, reset, favourite | periodic loop, API | reads before a transaction; races with ingest |
| Schema migrations (`migrations/`, `db.py` `init_db`) | the schema, its version | look, add, rebuild, stamp | every process that opens the database runs them at its start | several at once; statements that commit by themselves; a kill or a lock timeout half way |
| Capture supervisor (`capture_supervisor/`) | deduplication window, leg registry | claim, register_leg, compute_status | API routes (`claim` is called by tests only) | expiry order, clock read before the lock |
| Process supervisor (`supervisor/`) | tasks, `_processes`, stop events, status | start_all, run loop, terminate, restart, stop_all | used by the LiteLLM bridge and the server's shutdown | cancellation, timers and exits racing a stop |
| System proxy guard (`pce_app/system_state_guard.py`) | the OS proxy slot, `_snapshot`, `system_state.json` | take over, restore, recover | service manager, control panel, signal handlers | crash or signal between a change and its record |
| Probe (`pce_probe`, `background/probe-rpc.ts`) | attached extension, pending calls; `ws` and backoff in the worker | send_request, route, clean up; connect, reconnect, alarm | agents call verbs of the extension over WebSockets | connections that end at each end on their own; a worker with several sockets |
| Provider normalizers, redaction, tagging, search, dashboards, setup wizards | little or none | parsing, rewriting, presentation | feed or read the parts above | data formats, not protocols |

`PROJECT.json` lists every component with its sources and status, and under
`hazards` what is hard to test in this code, each at its line, with the
properties that look after it.

What makes each part correct:

- *Content scripts*: what the page shows is given to the background, and is
  accepted in the end; nothing is taken as sent that was not.
- *Queue*: nothing is lost silently, each capture is sent once per fault at
  most, and the queue drains once the server is back, past items the server
  always errs on as long as they leave room in a batch.
- *Addon*: a response on record has its request; nothing is recorded of a host
  that neither a list nor the flow's own content explains.
- *Relays*: the record of a stream is a beginning of what was forwarded;
  recording never holds the stream up; both end when the program does.
- *Watcher*: each record is stored, once per slip of its memory at most.
- *Pipeline*: no message is dropped, `message_count` and `turn_index` are
  consistent, captures of one conversation are merged, nothing any copy of a
  message knew is forgotten, and the view of a forked conversation is the
  user's path.
- *Maintenance*: a reset spares what favourite sessions hold.
- *Migrations*: no capture is destroyed, who is past `init_db` finds the whole
  schema, and whoever calls it gets past it in the end.
- *Deduplication*: one primary leg per window.
- *Process supervisor*: no child is left behind, `max_restarts` is respected,
  stopping always ends, what exited comes back.
- *Guard*: the user's setting is always known and always given back.
- *Probe*: a call hears of the end of its extension, a reply reaches its call,
  an extension is attached in the end.

## Modules

| Module | Models |
|---|---|
| `CaptureDelivery` | abstract at-least-once delivery: a capture stays pending until delivered or given up for a reason, and does not come back |
| `CaptureQueue` (`_proofs`) | the extension's worker with its queue; implements `CaptureDelivery` |
| `IngestPipeline` (`_proofs`), `MCIngestPipeline` | ingest, pair lookup, session resolution, persist, insert, orphan sweep |
| `BranchForks` (`_proofs`) | fork detection, branches, the collapsed view, the backfill |
| `Enrichment` | what a stored message takes from another copy of it |
| `ProxyAddon` | the hooks inside mitmproxy and the list of domains |
| `Intake_proofs` | theorems of `Enrichment`, `ProxyAddon` and `LegDedup` |
| `MCNormalizer` | `IngestPipeline`, `BranchForks`, `Enrichment`, `ProxyAddon`, `CaptureRuntime` in one run |
| `ProcSupervisor`, `MCProcSupervisor` | the asyncio supervisor; its processes for TLC |
| `ProxyGuard` | the system proxy guard |
| `Desktop_proofs` | theorems of `ProcSupervisor` and `ProxyGuard` |
| `StreamTap` | abstract recording of streams: the record is a beginning of what was passed on and nothing is taken back |
| `McpRelay` | the MCP relay's four threads; implements `StreamTap` |
| `CliRelay` | the CLI wrapper; implements `StreamTap` |
| `Relays_proofs` | theorems of `McpRelay` and `CliRelay` |
| `ProbeLink` (`_proofs`) | probe server, links, the extension's worker |
| `MCLinks` | `McpRelay`, `CliRelay`, `ProbeLink`, `ProxyGuard` in one run |
| `PersistenceWatcher` | watchers of another application's files |
| `CaptureRuntime` | the content scripts' runtime and the background's duplicate gate |
| `LegDedup` | the claims of capture legs |
| `Upkeep` | reset and retention against ingest |
| `SchemaMigrations` | `init_db` of several processes on one database |
| `Parts_proofs` | theorems of `Upkeep`, `PersistenceWatcher`, `CaptureRuntime` and `SchemaMigrations` |
| `MCParts` | those four, `LegDedup` and `ProcSupervisor` in one run |

The `MC` modules that join components which share no state have a variable
(`view`, `link`, `part`) that says which one an execution is of; the
others stay in an initial state.

**CaptureQueue.** A capture's handler goes `idle, posting, checking, adding,
done`: one label per `await` of `postToIngestAPI` and `enqueue`. A call of
`flush` goes `idle, reading, sending, writing, counting`. `store` and `key`
are the object store, `flushing` and `retry` the module variables, `batch`,
`toDelete`, `toUpdate` and `sent` the locals of a flush. `net` says what the
endpoint looks like (up, answering 5xx, unreachable) and changes at any time;
a reply may be lost after the server has stored the capture. `Crash` ends the
worker and loses its memory, not the store. Today only the retry loop calls
`flush` and nothing calls `clear`; both are public, so the model has a second
caller and a `Clear`. Every reason the code has for dropping a capture (4xx,
age, eviction, clear, a failing IndexedDB call, the worker killed while a
handler holds the capture) adds to `excused`.

**IngestPipeline.** A worker is a request thread of the server or the proxy
process; each database call is a step, as each opens its own connection.
`Store` is the insert into `raw_captures` and the decision whether to
normalize; `Lookup` is `query_by_pair` and the tests on its rows; `Find`,
`Create`, `Snapshot`, `Enrich`, `ReadTurn`, `Insert`, `Finish` are
`persist_result`. `ReadTurn` and `Insert` are separate because the `SELECT
MAX(turn_index)` runs before the insert opens the write transaction. `Blind`,
`CreateFails` and `InsertFails` are the error paths: a failing query looks
like an empty one, a failing insert is skipped. Messages are their dedup hash.
What a provider normalizer extracts from a pair is the constant `Result`, of
which a request alone yields the user's messages (`Extracted`). Only a
response triggers the normalizer (`server.py:1377`): a request stored after its
response (`early`) waits for the sweep.

**BranchForks.** The conversation of the provider is `tree`: completions, each
with a parent and a prompt; the number of a completion is also its time.
`Continues`, `Regenerates` and `Edits` are the user's moves on claude.ai, where
the first completion too has a parent uuid. A captor takes the completions in
their order, as other captors do, and persists each in the steps of
`persist_result`: `Begins` reads the hash buckets, `Detects` is
`_detect_branch_fork`, `StoresPrompt` and `StoresReply` enrich or insert a row.
Where the code orders rows by `ts` and a random id, any row of the least `ts`
may be the first (`Earliest`). `Path`, the completions before the user, is the
smallest set with hers that is closed under parents; `IsCurrentPath` says of a
view that it is that path, prompt by reply.
`Collapsed` is `_collapse_branches`; `Winners` are the branches it may choose
where times tie. `Backfills` is `backfill_session_branches`, which is run by
hand only. `overlapped`, `EditedIsRegenerated` and `PromptRepeats` name what
the view is not promised under, as the code has no more than hashes and uuids
to go by: a regenerated reply to an edited prompt, or a prompt said in two
places, matches a row of another branch.

**Enrichment.** An ingest reads the row with the session's buckets
(`Reads`) and writes it later (`Writes`), so ingests overlap; `overtaken` says
that one wrote over what it had not seen. `Score` is `score_message`. A copy
that scores higher, or brings the first attachment, is merged with the row by
`merge_messages` (`Reconciled`); otherwise the row is the better copy and only
its gaps are filled (`Completed`).

**ProxyAddon.** A flow goes through `Request`, `ResponseHeaders` and
`Response`, or `Breaks`; WebSocket frames follow an upgrade. What
`heuristic.py` says of a flow's request and of its readable response belongs
to the flow (`kind`). `domains` is the table that the API server's process
writes (`Lists`, `Delists`), `cache` what this process has loaded of it,
`discovered` what SMART mode found; `Restarts` loses both and the metadata of
flows under way.

**ProcSupervisor.** The loop `_run_one` goes `top, spawning, waiting, sleeping`
(`respawning` is the wait after a failed spawn), one label per `await`; `term`
is the set of running `_terminate` calls of `stop_all` and `restart`; `life` is
where `start_all` and `stop_all` stand. A cancelled spawn leaves no child
(asyncio kills it), a cancelled wait does. Delays are the exponent of the
backoff; a timer may fire whenever its wait has not ended.

**ProxyGuard.** A step ends where the outside world changes: the file or the
proxy slot. `take_over_proxy` is `TakeOver, Save, Enable, Claim`, `restore` is
`RestoreBegin, Apply, Delete`; `stage` is the label. `Crash` may strike at
every label and tears a file that is being written; `Signal` runs `restore` in
the middle of whatever the guard is doing, as the reentrant lock allows (the
panel takes over in its main thread), and ends the process. The variable
`causes` records what the guard does not survive: a failing file or proxy
operation (`io`), a user's change in a gap of the guard (`race`), the end of
the process between enabling and claiming (`window`), the legacy tray started
over a left-over file (`tray`), the emergency entry (`emergency`). The
properties promise nothing after one of these; each is a hazard in
`PROJECT.json`. The model also shows that the first of the two saves never
helps recovery: a file that does not claim ownership is discarded.

**StreamTap, McpRelay, CliRelay.** `StreamTap` says what a recording relay
promises of every stream. In `McpRelay` each direction has a source, a `wire`
of pieces, a pump that writes a piece on (`PumpForwards`) and then queues its
copy (`PumpQueue`), and a buffer of the observer. A piece is what one read
returns: a line, or a line cut inside its text or before its newline. `main`
is `run()`: wait for the server, queue the sentinel, join the threads for two
seconds each (`Joins`); an interrupt terminates the server first. In
`CliRelay` a pump reads up to a block (`TeeReads`), writes it on (`TeeForwards`)
and copies it into the capped buffer (`TeeCopies`); the main thread waits, times
out, terminates and kills, joins, flushes the parent's outputs (`Flushes`), and
takes bytes and flags one after the other (`TakesBytes`, `EmitsRow`). Descendants
of the child may keep its pipes open. An output is `stalled` while its reader
stands still and everything up to it is full: then a pump stays in its write,
with the lock of the writer, and a flush waits. The two flushes are taken in
either order, as nothing depends on it. In the tap's terms, `passed` is what was forwarded (for the relay, the lines whose text was)
and `kept` the lines handed to `observe()`, or the buffers.

**ProbeLink.** A call goes `idle, sending, waiting, returned`; a link has its
server side (`session`), its worker side (`ready`) and frames in both
directions (`down`, `up`), and each end learns on its own that it was cut.
The worker's `connect()` is two counters, one per `await`, so that several
calls of it are under way; `socket` is the module's `ws`. Worker, server and
links may fail at any step (`MaxMishaps`).

**PersistenceWatcher.** A pass loads the state file (`PassBegins`), opens each
log and reads it line by line (`ReadsLine`, `ReadsTorn`), reads each file that
is rewritten whole (`ReadsSnapshot`), and saves what it has emitted
(`PassEnds`). `mem` is the set in memory, `saved` the file. `AppWrites` is the
other application, which may be caught in the middle of a line; the walkers of
the various applications are instances of these two kinds. `slips` counts what
may cost a duplicate: an overlap, a failed save, a crash, an unreadable state
file, and a line without a uuid whose index moved because the line before it
was read in two halves.

**CaptureRuntime.** The page changes what it shows (`Appends`, `Grows`,
`StreamingEnds`) and where it is (`Navigates`, then `PageFollows`). `Attempt`
is `captureNow`, from the debounce timer or by hand (`Triggered`); `flight`
holds what has not been answered, with what was remembered before it.
`Accepted` and `Refused` are the two answers. The background's `isDuplicate`
sees the beginning of each message and records it before the post, so a
refused capture that is tried again within five seconds is answered as
stored (`Skipped`). `muddled` says that the page's memory counts messages that
were not accepted: an answer put back a state that something had replaced
(`Crossed`), the count belonged to another conversation, or a refused capture
was taken for a duplicate.

**LegDedup.** `ReadsClock`, then `Claims` under the lock: evict from the far
end, look up, insert, cap. `claim` is called by tests only at this commit.

**Upkeep.** One statement that writes is a step with its transaction; what
`reset_all_data` and `_cap_raw_rows` read before it is a step of its own
(`ResetReads`, `SweepCounts`). A pair's ingest is `Captured`, `Looks`,
`FindsSession`, `CreatesSession`, `InsertsMessage`; the last finds no session
if a sweep has removed the empty one, and stores nothing.

**SchemaMigrations.** A step is one statement, since each commits itself until
an `INSERT` opens a transaction (`Execute`, `Transact`, `Commit`): `disk` is
what is committed, `working` what the writer sees. `Begin` reads the version;
the baseline is `Baseline`, `Look` and, for a `raw_captures` with the narrow
`CHECK`, `Rename`, `Recreate`, `Copy`; a migration of the kind of 0003, 0006,
0008 and 0010 is `Read` (the columns there are) and an `Add` per column, one of
the kind of 0002, 0004, 0007 and 0013 an `Add` per `CREATE ... IF NOT EXISTS`,
the others only `Stamp`. `Raise` rolls back and ends the start of the process,
which may be started again.

## Runs

| Run | Instance | Shows |
|---|---|---|
| `capture_queue` | 3 captures, one always answered 5xx, one malformed; 2 callers of flush; store of 2, batch of 2; 1 fault; fairness | `NoSilentLoss`, `OneCopyPerFault`, `DrainsOnceOnline`; the refinement `ImplementsDelivery` |
| `ingest` | pipeline: 2 workers and the sweeper, a request/response pair and a DOM capture of one session with a repeated prompt, 1 sweep, 2 failing pairs; branches: 3 completions, 2 captors, 2 prompts; message: 8 copies, 2 ingests; proxy: 2 flows of 5 kinds; page: 2 conversations, 2 messages, 1 move, 1 refusal | `CountsMatch`, `TurnsHaveNoGap`, `NothingDropped`, `ExactUnlessRaced`, `CompletePairsNormalized`; `CollapsedIsPath`; `NothingForgotten`; `PairsAreWhole`, `OnlyListedRecorded`; `SentMeansGiven` |
| `links` | MCP relay: 3 frames, 1 cut, pipe of 1; CLI: 1 output, cap 2, block 2, 3 units; probe: 1 call, 2 links, 1 dial besides, 1 mishap; guard: 1 user setting besides off, panel and tray; fairness | `RelayImplementsTap`, `ResponsesFindRequests`, `RelayReturns`; `CliImplementsTap`, `RowIsExact`, `WrapperReturns`; `NobodyWaitsForTheGone`, `RepliesAreKept`, `ExtensionAttaches`; `SnapshotIsTheUsers`, `AlwaysRevertible`, `SlotGivenBack`, `DeadProxyReverted` |
| `parts` | watcher: a log with uuids, one without, or 2 snapshots, a loop and a scan, 2 lines, 1 fault; page: as in `ingest`, nothing refused; claims: 2 legs, 2 keys, 3 claims; upkeep: 2 pairs, 2 sessions, 3 runs; schema: 2 processes, 4 migrations, a new or an older database, 1 break; supervisor: a limited `on_failure` process and an unlimited `always` process; fairness | `OneRowPerSlip`, `MarkedIsStored`, `LinesAreStored`; `ShownIsAccepted`; `OnePrimaryPerWindow`; `FavoritesKept`; `RowsSurvive`, `SchemaIsWhole`, `EveryoneStarts`; `OnlyLateSpawnsSurvive`, `SpawnsWithinLimit`, `StopCompletes`, `ExitedComesBack` |
| `sweep_idempotent` | 1 worker, the sweeper, no fault | a sweep is **not** idempotent (finding 1) |
| `turn_index` | 2 workers, no fault | `turn_index` is **not** unique (finding 2) |
| `supervisor_stop` | one process | `stop_all` can leave a child (finding 3) |
| `guard_window` | 1 user setting, panel | the snapshot can be deleted with the slot at PCE (finding 4) |
| `branch_view` | 1 captor, 3 completions | the collapsed view is **not** always the current path (finding 5) |
| `threading_kept` | the copies of `ingest` | a row can lose the uuids of its conversation (finding 6) |
| `domains_removed` | the flows of `ingest` | a host taken off the list is still recorded (finding 7) |
| `schema_rebuild` | 2 processes, an older database, 1 break | its captures can be left in the old table (finding 8) |

With two workers of TLC the passing runs reach 865,000 (`capture_queue`),
1,800,000 (`ingest`), 790,000 (`links`) and 277,000 (`parts`) distinct states
and take between two minutes and three and a half each.

**Bounds.** Each is the least that reaches the case in question.

- *Queue.* Three captures fill a store of two, evict, and leave one for a flush
  in progress; a batch of two has an item behind the failing one. With one
  failing item no capture is ever `Crowded`. `DrainsOnceOnline` was also checked
  with two failing items and a store of three, where one is; without its premise
  it is violated there. A fault is a
  crash, a lost reply or an IndexedDB error at any point. `MaxBackoff = 1` lets
  the backoff reach its cap and be reset.
- *Pipeline.* Two workers and the sweeper race on a session, a turn number and
  a pair; the repeated prompt is what positional deduplication is for. Captures
  without a session key (`stray`) appear in two violation runs only, as they
  share nothing with others.
- *Branches.* Three completions make a fork and a continuation below it, two
  captors persist one completion twice and at once.
- *Message.* The copies differ in each of the things the score and the two ways
  to merge look at: length, attachment lines, a tool call, thinking, raw JSON,
  images at either address, uuids, model, tokens.
- *Addon.* A flow of an allowlisted host, and of another host one that is
  recognized by its request, by its response, by a response that is still
  encoded, or never, which is an upgrade.
- *Supervisor.* The tasks share only the stop. `RestartCap` bounds the counter
  of an unlimited process, which decides nothing.
- *Relays.* One frame cut in two crosses another direction's; three units
  against a cap of two truncate, with a block that fills the cap exactly.
- *Probe.* Two links and one more dial give the worker two sockets at once.
- *Watcher.* Two lines show a torn line and one after it; the loop and the scan
  overlap.
- *Page.* A fingerprint of one and messages of length two show growth past
  what is seen. The code's limits are 160 characters on the page and 100 in the
  background; text that grows between the two within five seconds is taken for
  a duplicate, which `SentMeansGiven` allows for by comparing beginnings. The
  liveness of the page is checked where nothing is refused, as
  `ShownIsAccepted` promises nothing after a refusal. The page alone was also
  checked with limits of two and one, with two moves, and with two refusals,
  and the theorem `SentIsGiven` lifts all of these bounds.
- *Claims.* A window of one, a cap of one entry and three claims show expiry,
  a late clock and the cap.
- *Upkeep.* Two pairs are the least of which a limit keeps one.
- *Schema.* The baseline, columns of `raw_captures`, a script, and a migration
  of rows: one of each kind, with two columns or tables, so that one can be
  there without the other. Two breaks were checked too.

The theorems lift the bounds of every safety property. Symmetry is used where
no liveness is checked: workers, captors, ingests, flows, texts. Deadlock is not
checked because each of these systems really stops: all captures handled, all
pairs ingested, a supervisor stopped, a relay returned, no input left.

**Fairness.** Weak fairness throughout, of what the code's own scheduling
brings about.

- `CaptureQueue`: every pending continuation, the retry loop's next flush (a
  timer that always fires), the worker's restart (an alarm keeps waking it);
  none of the network, which the property assumes to stay up. It also assumes
  that from some point on fewer than `BATCH_SIZE` items that the server always
  errs on are older than the capture.
- `ProcSupervisor`: each task's next step, the stop timeout and the exit of a
  killed process; a healthy child need not exit.
- `ProxyGuard`: an operation that began goes on, and the user opens the panel
  again; the property assumes that from some point on it is not killed.
- Relays: the main threads go on, and what they wait for is bounded by their
  timeouts, all but the flushes of the CLI wrapper. `WrapperReturns` assumes that
  from some point on its outputs are read; a pump's write of an output that is
  read then ends. A stream ends with its last unit, so a pump gives up the lock
  of the writer for good. Nothing else is asked of pumps, and nothing of children
  or of those who write stdin.
- `ProbeLink`: both ends of a link get what was sent and hear that it is cut,
  timers fire, the browser wakes the worker; nothing is asked of the server, of
  agents or of verbs, and the property assumes that the server goes on
  listening.
- `PersistenceWatcher`: the loop starts pass after pass, and a pass goes on.
- `SchemaMigrations`: a process goes on with `init_db`, and what failed to start
  is started again; nothing is asked of locks, which the property needs not.
- `CaptureRuntime`: the debounce timer fires, a site stops streaming, the
  background answers every message.

## Findings

1. `sweep_orphan_request_rows` is documented as idempotent. A request whose
   messages are all stored already leaves no row with its pair id, so each
   sweep recovers it again.
2. `turn_index` is documented as correct across concurrent inserts; the maximum
   is read outside the write transaction.
3. `stop_all` leaves a child running whose spawn was in flight when it began.
4. The guard's snapshot says that PCE owns the slot only after the slot was
   changed; a signal or a crash in between leaves the slot at PCE for good.
5. The collapsed view of a forked conversation is documented as the current
   path. A completion that follows a regenerated reply goes to branch `0`, which
   then wins with the reply the user has replaced.
6. Tests ask that a message keep its uuids for later replays. A page's copy with
   attachments makes `merge_content_json`'s other form drop them.
7. Allowlist mode is documented as the list and the user's domains. The proxy's
   process loads the domains once, so a host taken off is recorded until the
   proxy is restarted.
8. A row of a database older than the migrations is documented, and tested, to
   survive them. The rebuild of `raw_captures` commits its `RENAME` by itself:
   after a kill before the copy the next start takes the new, empty table for
   the rebuilt one and the captures stay in `_raw_captures_old`.

`PROJECT.json` quotes the lines.

Smaller observations met on the way, which no run is about:

- *Content scripts.* A refusal is said to roll back (`capture-runtime.ts:9`);
  the same capture within five seconds is then answered as a duplicate and taken
  as sent. The model counts this as `muddled`.
- *Queue.* `flush` reads the oldest `BATCH_SIZE` items (`capture-queue.ts:181`)
  and leaves those answered 5xx where they are: that many such items keep all
  behind them from being sent until they are seven days old or evicted.
- *CLI wrapper.* Between the joins and the row it flushes `stdout` and `stderr`
  (`pce_cli_wrapper/relay.py:229`). If nobody reads them any more and pipe and
  buffer are full, or a pump is stuck in its write, the flush never returns: the
  timeout has passed, and no row is written.
- *Probe.* `connect()` can open two sockets, and since every open resets the
  backoff, the worker dials each second while one of them stays attached; the
  client's `_extension_attached` (`client.py:235`) stays set once it was.
- *Maintenance.* `retention.py:17` says that rows newer than the `days` window
  are never deleted, no matter the cap; `_cap_raw_rows` deletes the oldest rows
  over the cap whatever their age.
- *Pipeline.* Only a response triggers normalization, so a request stored late
  waits for the sweep. A stored token estimate keeps out a count that comes
  with an equal score. A longer raw text replaces a clean one when the row is
  otherwise the better copy. The same image under two addresses, or two files
  of one name, can make one too many or one too few attachments. A replay can
  flip the tool-call line back and forth.
- *Addon.* Nothing cleans up after a flow that breaks off: its metadata stays
  and what a teed response had collected is lost. Heuristics read chunks that
  are still encoded. A restart lets SMART mode activate a delisted domain again.
- *Migrations.* Behind the theorem that no capture is destroyed the model shows
  what else can happen to an older database: a second process that has seen the
  narrow table rebuilds it again after the first is past its migrations, and is
  cut off there with a version that says there is a table and none; every start
  then fails at 0006. The rebuild copies neither `meta_json` nor later columns,
  and the indexes of `raw_captures` are not there after it: their names are
  taken by the renamed table when the script runs, and go with it.
- *MCP installer.* `uninstall` makes a backup of the wrapped configuration before
  it restores one, so a second `uninstall` brings the wrappers back.
- *LiteLLM bridge and Phoenix.* `get_status` clears `otlp_wired`, after which
  `stop()` leaves the exporter running.

## Proofs

All are for every value of the constants, from the assumptions named in the
modules (`QueueAssumption`, `PipelineAssumption`, `EnrichmentAssumption`,
`BranchAssumption`, `AddonAssumption`, `DedupAssumption`, `SupervisorAssumption`, `GuardAssumption`,
`RelayAssumption`, `CliAssumption`, `ProbeAssumption`, `WatcherAssumption`,
`RuntimeAssumption`, `UpkeepAssumption`, `SchemaAssumption`), which TLC evaluates
on every run. `PROJECT.json` lists the theorems a reader should know of.

**CaptureQueue.** Typing and the exclusion of flushes (`FlushIsExclusive`) are
inductive by themselves. `NoSilentLoss` needs `FlushInv` (what a flush has
acknowledged or discarded) and `LossInv`: an id in `toDelete` is delivered or
excused, so the write-back removes nothing else. `OneCopyPerFault` needs to
know that an item that can still be sent has fewer copies, and that two flushes
never hold the same item. `ImplementsDeliverySpec` maps each step to a step of
`CaptureDelivery` or a stutter, with the same invariants.

**IngestPipeline.** Five layers, each proved from those before. `Grounded`:
types, the session of each job exists, a session's turns have a greatest.
`Numbered`: counts match and the turns below the one a process is about to
insert are there, which is why two inserts that read the same maximum leave no
gap. `Accounted`: each message of a job is either still to do or has a position
in the bucket of its hash (`cursor`), and the session has a row for every
position; rows are never removed, so a stale bucket counts too few and drops
nothing. `Attended`: a pair whose request came first is worked on or normalized.
`ExactUnlessRaced` bounds the rows from above and needs `Undisturbed`. Of every
process it says that cursor and messages to do add up to the messages of its
pair, and that its session has its key (`Paced`). Of a key that was not raced on
it says that at most one process persists to it (`Alone`), that this process's
buckets are the copies its session has and its turn is past all of the
session's (`Abreast`), that none is about to create a second session
(`OneSession`), that no two rows share a turn (`OwnTurns`), and that some pair has
each message as often as the session (`AtMostCaptured`). An insert then finds
its cursor at the bucket's end, where its pair still has an occurrence to spare.
For this proof `PipelineAssumption` says by a strictly increasing function,
rather than with `SelectSeq`, that `Prompts` is the part of `Result` the
request-only path keeps.

**BranchForks.** `CollapsedShowsPath` says `CollapsedIsPath` of any number of
captors, prompts and completions. Its invariant has three layers.

- `ThreadInv`: a row tells what its completion said (`RowTells`), a prompt is
  there before its reply and every completion before the next (`RowFollows`),
  and a captor's progress and buckets are no more than what the thread has
  (`CaptorKnows`).
- `BranchesInv`: as long as nothing goes on below a fork, the tree is a comb (a
  chain, beside whose completions others hang), however persists overlap. A row
  of a completion that hangs beside the chain is on a branch of that completion
  alone (`RowStands`, `ForkStands`): its persist finds the reply of the one it
  replaces, which must have been stored by then. A prompt on such a branch is
  followed there by its reply, or a captor is about to store it (`Replied`), and
  turns grow along a branch (`Turned`). So the newest branch ends with the
  user's reply.
- `PlainInv`: without overlaps no message is stored twice and the thread is in
  order of time (`Serial`). Without repeated prompts too, nothing of the chain
  leaves the main branch, not even by a backfill (`SortedRows`, `SortedForks`),
  and a fork knows the row of the chain it replaces (`HungRows`, `HungForks`),
  which makes `Prefix` the chain above it.

What is then left is to read the view off the rows. `Enumerated` avoids an
induction over them: rows in order and of alternating roles, but for one that
another hides, are what `Collapsed` counts out, since each has as many after it
as its place says. The chain, the fork with a prompt of its own and the fork of
a regenerated reply, whose prompt is the chain's, are instances (`ChainShown`,
`ForkShown`). Of `Path` the proof needs only that it is of completions: the
theorem would hold of a user, too, who goes back to another branch and edits
there.

**Intake.** `KnowledgeIsKept`: the row `Covers` every merged copy, and each of
the two ways to merge keeps what both copies cover. `AddonInv`: what the addon
knows was listed (`KnownOnly`), its metadata agree with what is on record
(`Tracked`), and every flow is `Whole`. `OnePrimary`, of the claims of capture
legs, needs `DedupInv`: every entry stands for the last primary of its key
(`Backed`), and a last primary without an entry was pushed out by the cap or
evicted by a claim whose clock was past its window (`Remembered`). Eviction and
the move to the end are written as `SubSeq` of the memory, which spares the
proof an induction over a filter.

**ProcSupervisor.** `SupInv` joins the type invariant with what each label says
of its child (`Owned`), the exact registry, what `stop_all` still terminates
(`Doomed`), the spawn account of a limited process per label (`Paid`: at `top`
no more spawns than restarts) and final statuses (`Settled`). Without `Doomed`
nothing relates a live child to the terminations under way, without `Paid` the
limit is not inductive, since the counter moves only after the backoff.
`RegistryStaysExact`, `NothingSpawnsAfterStop` and `FinalStatusIsFinal` follow
too.

**ProxyGuard.** `GuardInv`: until a cause occurs, memory, disk and slot agree at
each label (`Consistent`). An owned snapshot in memory is owned on disk, and a
slot no file owns has the user's setting except between enabling and claiming.

**Relays.** In the CLI wrapper, `CliInv`: a pump's buffer holds exactly what it
had forwarded before the chunk it is copying, up to the cap, and it forwards
only what it has read. `RowsAreExact`
follows, and `ImplementsTap`: every step is a step of `StreamTap` or a stutter.

The MCP relay's invariant has four layers. `WireInv`: the pieces of a wire are
those of its frames one after another, and what answers a request is a response
with its id. `QueueInv`: the observer's queue holds exactly what each pump has
queued and the observer has not used, each direction in its order. `ReadInv`:
the unfinished line kept per direction is the last piece taken, and the lines
handed over are the first `LinesUsed`. `PairInv`: a response that was not
overtaken comes after its request (`Preceded`); what is stashed under an id was
seen and has no mate, and a request alone with its id stays stashed until a
response has that id (`Stashed`). `ResponsesFound` follows, and `RelayTaps`:
a piece taken was forwarded before, and the count of forwarded lines grows with
the pieces (`TextGrows`).

**ProbeLink.** `ProbeInv` is the two properties with `LinksAgree` (what server
and worker hold of a link that is not cut agrees) and `RequestsBelong` (a
request that is on its way, or being executed, is of the link it came from).

**Parts.** `FavoritesKept` needs `Promised`: a reset that has read spares the
pairs it has promised. `MarkedIsStored` needs that every process's marks in
memory are backed too (`MarksBacked`), and where indices can have moved
(`Steady`). `OneRowPerSlip` is inductive as a budget: `Due` is how often a
record may still be inserted without another slip, by the processes under way
that have no mark for it or would look for it at a moved index, and `PaidFor`
bounds rows and dues together; an overlap, a crash or a failed save raises both
sides. `SentMeansGiven` needs `SentInv`: what is remembered as sent, and, for
the capture that was sent last, what a refusal would put back, is covered by
what the background was given without that capture. `latest`, the history
variable that says which capture this is, is what tells a refusal that puts
back its own state from one that overwrites another's. `RowsSurvive` needs
`SchemaInv` (each database is `Tidy`, no transaction loses a capture), and
`SchemaIsWhole` needs `ModernInv`: what is stamped is there, and what a process
has passed at its migration is there (`Sound`).

Only model-checked is liveness, since fairness and `ENABLED` are out of the
prover's reach: `DrainsOnceOnline`, `StopCompletes`, `ExitedComesBack`,
`DeadProxyReverted`, `RelayReturns`, `WrapperReturns`, `ExtensionAttaches`,
`LinesAreStored`, `ShownIsAccepted`, `EveryoneStarts`. Every invariant, action
property and refinement that a run checks is a theorem.

The type invariants of `CaptureQueue`, `ProcSupervisor` and `ProxyGuard`, and
`FlushExclusive`, `RegistryIsExact`, `NoSpawnAfterStop`, `FinalStatusStays`, are
proved and no longer checked by a run.

## Not modelled

- *Provider normalizers, redaction, tagging, search, export, dashboards*: text
  and data formats, single steps on rows the pipeline wrote. What a normalizer
  extracts is a constant of `IngestPipeline`.
- *Setup, onboarding, certificates, updates, installers*: one-shot
  administration around files and commands of the operating system.
- *Service manager, control panel, tray, Tauri shell, Phoenix, LiteLLM bridge*:
  user interfaces in one thread, and callers of the supervisor and the guard,
  as which they appear in `ProcSupervisor` and `ProxyGuard`.
- *Health, diagnostics, telemetry*: reports that read, and best-effort export.
- *Local model hook, CDP driver, TLS key log*: forwarding of one request at a
  time, browser automation, parsing of a tool's output.
- *Test conductor, launcher, MCP server, scripts*: tooling and thin front ends.

In the modelled parts: the worker's enabled and blacklist gates, snippets and
health reports; tagging and the v2 ingest endpoint; attachments other than
images; what the heuristics look at, keylog mode and TLS failure records; a
failing `_load_custom_domains`, which returns an empty set; bypass lists and
the platform commands of the proxy toggle; the passthrough of stderr and the
shims of the wrapped tools; an agent's own WebSocket and what the verbs do;
the extraction of messages by selectors and the network interceptor.

## Plan

1. Done: the delivery path of the extension, from page to queue; the proxy
   addon, relays and watcher that record; the pipeline with forks and
   enrichment; maintenance; the two keepers of the desktop; the probe; and the
   theorems above.
2. Model next, in this order: the MCP installer (install, edit, install,
   uninstall against its backups); the worker's settings gates, which are loaded
   by a callback; the children of the service manager; attachments that are not
   images, whose identity is a name.
3. Prove next: each new component's invariants with the component. The
   conversation is the place to relax a condition: what of the path the view
   keeps when an edited prompt's reply is regenerated, or when persists overlap.
