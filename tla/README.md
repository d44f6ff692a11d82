# Verification of the DeepCode agent

TLA+ models of DeepCode (`src/crates`), TLC configurations that check them on
small instances, and TLAPS proofs of the properties that hold for every instance.

| module | what it models |
| --- | --- |
| `TurnRuntime` | the turn state machine: `begin_turn`, the model/tool loop, tool batches, approval parks, cancels, steering, turn handles, the restore gate |
| `TurnContract` | what the runtime promises whoever holds a turn handle: the abstract turn that `TurnRuntime` implements and the front ends are checked against |
| `SubAgents` | the agent tool: dispatches, the ledger they share, children that end, hang or are abandoned |
| `PermissionGate` | who may let a call run: plans, consents, modes, the judge, sub-agents, root grants |
| `ShellLex`, `CommandRules`, `ShellWords` | the three readers of a command line; the deny and irreversible floors, trust rules and identities; lines typed piece by piece |
| `JobStore`, `OutputSpill` | the store behind the shell and job tools; the output of one job |
| `CheckpointStore` | the workspace snapshots: copy and publish, pruning, clear-then-copy restore, with a failure or a crash at every entry |
| `SessionPersistence` | how the transcript reaches the disk: `persist_with`, the latest-wins writer, its retries, folds of the history, a crash |
| `Stores` | the snapshots beside the session files, one of them at work |
| `SessionFiles`, `LaunchContext` | session files, their key, grants and resumes; what a launch reads: skills, the session list, tools, standing approvals |
| `WorkspaceFiles`, `PatchText` | the workspace boundary and the file tools behind it; the text of `apply_patch` |
| `ConfigLayers` | the configuration layers and the program's own updates of the global file |
| `ServerLease`, `Headless`, `TuiApp` | the three front ends: HTTP, `-p`, terminal |
| `Sandbox` | the fence around shell commands: policy, roots, Landlock rules, and commands that rearrange directories meanwhile |
| `ModelStream` | one model request with its retries and fragments; the decoder of server-sent events |
| `LspClient`, `WebFetch`, `ImageStore` | diagnostics after an edit; the network tools; pasted and attached images |
| `Composer`, `TurnView`, `PromptHistory` | the prompt editor; a turn on screen, live and resumed; the prompts remembered across restarts |
| `IsolatedGit`, `EvalBench` | the host's own git view of a work tree; the evaluation harness |
| `MCTurnRuntime`, `MCSessionPersistence` | instances of one module for TLC |
| `MCStores`, `MCCommands`, `MCFileTools`, `MCFrontEnds`, `MCEdges` | instances of several modules for TLC |
| `TurnRuntimeSafety`, `TurnRuntimeCalls`, `SessionPersistenceProofs`, `BackgroundProofs`, `StoresProofs`, `FrontEndsProofs`, `PermissionGateProofs`, `FileToolsProofs` | theorems and their proofs |

To check a run: `tlc -config TurnRace.cfg MCTurnRuntime`. To check the proofs of
a module: `tlapm TurnRuntimeSafety.tla`.

## 1. Inventory

DeepCode is an interactive coding agent. One `AgentRuntime` holds one session; a
terminal UI, a headless driver or an HTTP server submits prompts to it, and each
prompt is one *turn*: model requests alternate with batches of tool calls until
the model stops, a limit is hit or the user cancels.

### Turn runtime (`runtime.rs`, `runtime/*.rs`, `session.rs`)
*State*: `RuntimeState` behind one mutex: the live turn's id, the event sender
of its handle, its cancellation token and budget, the batch parked on an
approval, the queue of steered prompts, the session's entries.
*Operations*: `begin_turn`, `drive_turn_handle`, `run_loop`, `process_tool_batch`,
`submit_approval`, `cancel_turn`, `cancel_turn_if`, `TurnHandle::cancel` and its
`Drop`, `steer`, `restore_checkpoint`.
*Interaction*: one task per turn, spawned; consumers read its events from a
channel; the UI calls cancel, approve and steer from other tasks at any moment.
*Hard*: nothing holds the lock across an await, so every operation is several
critical sections. A new prompt supersedes a turn without waiting for it: its
loop, its tools and its approval go on for a while beside the next turn's.
*Correct when*: no call runs twice, without consent or after its turn ended; a
parked approval can always be answered or cancelled; each handle learns its own
outcome, once; the history of one turn stays together; limits hold over parks
and resumes; a cancel ends the turn.

### Sub-agents (`subagent/*.rs`)
*State*: the ledger of children, each child's runtime and token. *Operations*:
the agent tool's `run` with its check, entry, child, grace period and
finalisation; `cancel_all_running`. *Hard*: the look for a running writer and the
entry into the ledger are two locks apart; a cancel may come before the child's
turn has begun; a child may ignore it and be abandoned; records are evicted while
others run. *Correct when*: every child under way is in the ledger, two writers
never both work for a call that is still wanted, no child outlives its call
uncancelled, every dispatch returns.

### Execution policy (`execution_policy/*`, `runtime/approval_flow.rs`, `approval_classifier.rs`)
*State*: the session's consents, the permission mode, the granted roots.
*Operations*: the plan of a call, the readers of its command line, the floors,
the mode, the judge, the prompt. *Hard*: three hand-written scans of one line must
agree; a line can hand text to another shell; the mode may change between any two
steps; a consent given for one call lets later ones run. *Correct when*: what the
floors judge is what would run; nothing runs that a person had to allow and did
not; a child gets no more than its dispatch.

### Job store and shell tools (`shell_tools.rs`, `shell_tools/jobs.rs`)
*State*: the map of records, each record's status and child, the process groups,
the `closed` flag and the workspace gate, the ring buffers and spill files.
*Operations*: foreground run, background start, list/get/wait/output, cancel,
eviction, `shutdown`, `idle_workspace`. *Hard*: a child that is alive before its
record exists, a leader that exits and leaves helpers, deadlines racing exits,
records evicted while somebody uses them. *Correct when*: a finished record has no
live process; shutdown reaches every background process; a restore never overlaps
a job; a run that is under way keeps its record; nobody waits for the gate
forever; what a result says of the spill file stays true.

### Session persistence and compaction (`runtime/persistence.rs`, `runtime/persistence_actor.rs`, `session_store/*`, `runtime/compaction_flow.rs`, `compaction.rs`)
*State*: the transcript in `RuntimeState`, the `SessionRecord` that mirrors it
behind a second lock, the file, and the writer's queue, attempt count and last
error. *Operations*: `persist_with`, `flush_session`, `finish_turn`,
`record_checkpoint`, `compact_session`, the writer loop. *Hard*: two locks taken
one after the other; a fold that awaits a model between plan and application;
retries; a write that is durable although it reported an error; a crash between
any two steps. *Correct when*: what a flush confirmed is in the file; a quiet
runtime that shows no error is saved; a summary stands for exactly the entries
it replaced; every flush is answered.

### Session files and launch (`session_integrity.rs`, `session_store/json.rs`, `runtime_launch.rs`)
*State*: the signing key, the files in two namespaces, the roots a session was
granted. *Operations*: creating the key, saving, launching fresh or resumed,
reconfiguring. *Hard*: two processes make a key at once; a save or the machine
stops at any call; files are copied, edited or moved under a session; the
directory behind a recorded grant has become another. *Correct when*: what was
acknowledged can be loaded, nobody gets a root that was not granted to them.

### Checkpoint store (`checkpoint.rs`, `runtime/checkpoints.rs`)
*State*: the workspace tree, the directory of snapshots, the session's list of
checkpoints, the latch of oversized workspaces. *Operations*: `snapshot` before
each turn, `prune_old_snapshots`, `record_checkpoint`, `restore`. *Hard*: nothing
on a file system is atomic but the rename; an entry may change its kind between
snapshot and restore; skipped directories, links and special files must survive
in the middle of what is removed; every system call may fail, and the process may
die between any two. *Correct when*: a restore that reports success is exact but
for what it reports; nothing is written through a link or a special file; nothing
is removed that cannot be put back; retained snapshots stay whole.

### Files and configuration (`workspace_policy.rs`, `workspace_tools.rs`, `config/*`)
*State*: the tree with its links, the granted roots, the text of a file, the
layers of the configuration. *Hard*: a path is inspected, resolved and opened in
separate steps while a job rearranges directories; a match in normalised text is
mapped back to the original; two programs update one file. *Correct when*: a tool
touches nothing outside its roots; an edit changes what it quotes and nothing
else; a checkout's configuration only tightens.

### Sandbox (`sandbox/*`, `shell_tools.rs`, `paths.rs`)
*State*: what the host can enforce, the directories commands may write, the rules of
each command under way. *Operations*: `sandbox_roots`, `resolved_writable_roots`,
`build_landlock`, `wrap_command`, refusals, descriptions and denial notes. *Hard*: a
command that is confined already may replace a directory by a link while the next
one's roots are resolved and opened; a root that was resolved is a path, and what
stands there changes. *Correct when*: no rule reaches a directory outside what was
granted, and no command that was to be confined runs bare unless the tools say so.

### Front ends (`deep-code-runtime/src/server.rs`, `deep-code-tui/src/headless/*`, `deep-code-tui/src/*`)
*State*: the server's lease and approval slot; the stage of a headless run; the
app's queue, its channels and what it shows. *Hard*: every client may leave at any
await and what it leaves behind runs later; a signal, a deadline and the last event
meet in one poll; updates of one turn arrive in the next. *Correct when*: a
connected client's turn runs and its approval reaches it; exit codes are true; an
idle screen means an idle runtime; nothing unwatched goes on for ever.

### Around a turn
The model's stream and its decoder (timers, retries, fragments), the language
server (late and unversioned batches), fetched pages (every hop checked, cached
pages), images (budgets), skills and the session list, the composer, the turn view
(live against resumed), the prompt history shared by instances, the isolated git
view and the evaluation harness. Each keeps its own small state and meets the rest
only through a call and its result.

### Parts not modelled
I18n, pricing and `doctor` (tables and text), the npm package, and the drawing of
the terminal: they keep no state of the kind a model can say something about. `PROJECT.json` lists
every part and what of it is left out; section 7 sums it up.

## 2. Plan

All the parts named above are modelled and checked. The order was: the turn
runtime; what it persists; the stores behind its tools; sub-agents; the policy that
decides its calls; the contract its front ends see, with the front ends; the files
and the configuration; the parts around a turn; the fence. `TurnContract` is the one abstract
specification: it is what joins the front ends to the runtime, so that neither is
checked against a guess of the other.

What is left is to prove more: the walk of the file tools (`RootsHold`), whose
links are followed by a recursive function over the tree. The fence, which follows
links one step of the machine at a time, shows how it could be done.

## 3. How the models correspond to the code

### TurnRuntime
Every element of `Turn` is one `start_turn` call. One action is one critical
section, or one stretch between two awaits:

* `boot[t]` follows `begin_turn`: `BeginSupersede` (cancel the old token, tell
  the old handle), `OrphanRead`/`OrphanFinish` (close the old turn), `Install`
  (new id, token, budget, cleared queue), `Drive` (channel and spawn).
* `task[t]` is the one task that owns the loop or the batch of `t`. The loop is
  `Enter`, `Check0`, `SpendStep`, `Check`, `SteerNotice`, `DrainSteering`,
  `ReadAnchor`, `Open`, `RescueFold`, `Stream`, `Push`, `RecordPartial`; a batch
  is `Batch`, `Gate`, `RunTool`, `ToolReturns`, `Park`, `EmitAsk`,
  `RecordResult`; its ends are `DropCalls`, `Breaker`, `Finish`, `EmitTerminal`.
* The user is `SubmitApproval` (followed by `ResolveChannel` and
  `HandleApproval`, which are separate critical sections), `CancelTurn`,
  `HandleFlip` and `HandleCancelIf` (`TurnHandle::cancel` or its `Drop`),
  `SteerUser`, `RestoreBegin` and `RestoreEnd`.
* Whether the policy allows, asks or denies a call, whether a stream fails,
  overflows, ends or requests calls, and when a tool returns or panics is
  nondeterministic.
* `ran`, `requests`, `raised`, `answered`, `out` record what an observer sees;
  no guard reads them except `out` and `asks`, which bound and order events.

### TurnContract and the front ends
`ContractSpec` speaks of which turns have begun and which one is live, each turn's
verdict and whether it was told to stop, and the approval request that is open
among all that ever were. `TurnRuntime!ImplementsContract` maps this to the
runtime's own state. The operations below it (`Begin`, `Ask`, `Answer`,
`CancelLive`, `Settle`) are the runtime as a front end calls it.

* `ServerLease`: a request opens a stream, takes the lease, starts its turn, reads
  events, parks an approval in the slot and waits for an answer; at every await the
  client may be gone, and then the lease's cancel, the handle's cancel and the
  slot's cleanup are tasks of their own that run at any later time.
* `Headless`: the stages of one run from its input to its exit code, with a signal,
  a deadline and readers that stop reading in each stage where the code awaits.
* `TuiApp`: keys on one side, `drain_stream_updates` on the other; every call into
  the runtime is a spawned task and every answer an update in a channel. A drain
  applies all updates that are there, in order.

### SubAgents
A dispatch is `Issue`, `Check` (a running writer), `InsertAgent` (the cap, eviction),
`StartChild`, then the child's own steps (`ChildTool`, `ChildAsks`, `Answer`,
`ChildEnds`, `RunnerPanics`), or `Interrupt` and `GraceExpires`, and last `Finalize`
and `Return`. `CancelParent`, `NextTurn` and `CancelAllRunning` are the session. A
superseded loop may still be in a dispatch when the next turn makes its own.

### PermissionGate, ShellLex, CommandRules, ShellWords
`Propose` is the gate up to the mode: the plan `evaluate_tool` makes, the floors, the
allow list and the session's consents; a call that is not settled there waits for
`ReadMode`, then for the `Judge` or for a person (`Answer`). A call that may run keeps
in `leave` who let it, until `Execute` makes its plan anew and reads the mode a second
time (`yolo_ambient_network`). A dispatch that runs gives its child a registry and a
policy of its own until `ChildReturns`, and answers its calls (`ChildMay`). The
person may `cycle` the mode and somebody may `Relink` a requested root between any two
steps, so the mode that let a call through and the one it runs under may differ. `ShellLex` has `segments`,
`parse_unattended` and `sh_commands` as recursive functions over glyphs;
`CommandRules` has the floors, the trust rules and the identities over the words
they return. `ShellWords` types every line up to a length, piece by piece, so that
every prefix of it is judged too. The reference definitions (`DenyHolds`,
`OutwardStaysOutward`, `SubstitutionIsRead` and so on) say what must come out
without following the scans.

### SessionPersistence
Every element of `Saver` is a task that appends, folds, edits the record or
flushes and then persists. `ReadSession` is the section of `persist_with` under
the state lock, `WriteRecord` the one under the record's lock, and other callers
run in between. The history `overtaken` says whether a caller wrote an older transcript
over a newer one (`Overtaking`), and whether the record still holds it. A transcript is the number of entries appended, how many a fold
replaced (`fold`) and how many its summary was written for (`covers`); the record
adds the summary's fold and a count of its other edits. The writer is `Take`
(absorbing all queued commands), `Encode` (reading the record), `Write` (which
may fail before or after the rename), `Settle`, `Acknowledge`. `Crash` drops
everything but the file and resumes from it.

### SessionFiles and LaunchContext
A file is what was last renamed to its name and what of that has reached the disk;
a signature is the record it was made from and the key it was made under, so a
forged or copied file is one whose parts do not fit. `load_or_create_key`,
`publish_key` and `ReadBack` are the key; `SaveTurn`, `Rename` and `SyncDirectory` a
save; `launch_fresh`, `launch_resumed` and `prepare_runtime_reconfiguration` the
users of both. `CopyFile`, `EditFile`, `delete`, `Repoint`, `Killed` and `PowerLoss`
are everybody else. `LaunchContext` is the walk over skill roots with its aliases
and limits, the window of the newest sessions, and the notes a launch prints.

### JobStore and OutputSpill
Every element of `Task` is a tool call. A foreground call passes the gate
(`Register`), runs its steps (`NextStep`, `StepExits`, `StepKilled`,
`WaitFails`) and publishes; a background call passes the gate, spawns
(`Spawn`) and registers the child (`InsertBackground`), still holding the
gate. `Snapshot`, `Cancel`/`CancelKill`/`CancelReap`, `Shutdown`, and the
restore's `RestoreCall`, `IdleWorkspace`, `RestoreRefused`, `RestoreDone` are
the other operations. A process group is `none`, `alive`, `exited` (leader gone,
helpers may be left) or `dead`; `LeaderExits` is the operating system.
`CancelForeground` says whether a cancel may name the id of a foreground run
that is still going: the model sees that id only after the run ended, except when
a superseded turn's run overlaps the next turn's calls. `OutputSpill` is the output
of one job: a byte is its place in its stream, rings keep tails, the spill file
keeps heads within a budget, and every rendered result is remembered with what it
said.

### CheckpointStore
A tree is a function from paths to what stands there: nothing, a directory, a
link, a special file, or a file with some content. `SnapshotBegin`, `CopyEntry`,
`SnapshotFails` and `Publish` are `snapshot` with `copy_tree`; `PruneEntry`,
`PruneDone`, `PruneFails` and `PruneEnd` the removal of the oldest snapshots;
`RecordCheckpoint` the session's list. `RestoreBegin`, `ClearEntry` and
`ClearDone` are the first half of `restore`, `RestoreEntry` and `RestoreDone` the
second; `RestoreFails` and `RestoreTorn` end it early. `clear_dir_contents`
recurses, so an entry is cleared after the entries in it; the order in one
directory is open. `CaptureLinks` is the platform. `Edit` is everything else that
writes to the workspace; it is shut out during a restore, which is what
`TurnRuntime` and `JobStore` are about. One operation runs at a time. The
session's record is taken to be saved at once (`SessionPersistence` models the
saving); a crash may come between the store's list and the record's. Ids are given
out in order, which stands for a clock that does not step back.

### WorkspaceFiles, PatchText, ConfigLayers
A tool `Call` is followed by `Inspect` (each component of the path, for links),
`Canonicalize`, `OpenRoot`, `Walk` (a handle per component, following no link),
`Stat`, and the tool's own end (`ReadLeaf`, `replace`, `List`, `GrepDown`,
`GrepFile`, `GrepEnd`). `Swap` rearranges a directory between any two of them,
`Grant`, `Stop` and `Resume` change the roots. A directory handle is the directory
itself, wherever its name points by then. `PatchText` holds the three layers that
look for `old` in a file and the mapping of a match back to the original text; files
and requests grow glyph by glyph. `ConfigLayers` orders each setting by what it
allows; `EditGlobal`, `EditProject` and `Export` are the user, `ReadExisting`,
`CreateTemp`, `FillTemp`, `Rename`, `GiveUp` and `Respawn` the program's updates. A
value is its place in the order, or blank, or of a kind the setting does not take;
what one section cannot parse fails the file as serde does. A load is a pure function
of the two files and the environment (`load_with`), so every state of them is a test
of it.

### Sandbox
A directory is an object, so that a rule given to it stays with it when it is moved;
an entry is nothing, a directory or a link. A launch is `sandbox_roots` (the policy
and the roots granted), `ensure` (each cache directory), `Refuse`, `RunBare` or
`wrap_command`, then `resolve_pinned_root` and `resolve_system_root` (one name or link
at a time), `build_landlock`, `open_without_symlinks` (one name at a time) and
`Confined`. Between any two of these, commands that are confined already make, remove
and move entries (`Put`, `MoveEntry`) in every directory below one of their rules.
`Below` is defined by closure (the least set that has the tops and is closed under
entries), because nothing about a recursion could be proved.

What the fence needs from the host is assumed by name. `WaysAssumption`: every
granted root, working directory and cache leads, by directories alone, to something
inside; `PlacesAssumption`: so does every temp root, also through links that root
owns, with at most one name below the first directory commands may write. What lies
inside has no directory outside below it, and its links are the user's. Nobody but
confined commands and the cache directories' creation changes a directory meanwhile.
`Ways` and `Places` are the places such a walk can be in, given as constants and
checked by their assumptions, so that the walk is an invariant and no induction over
paths. A temp root spelled two names or more below a writable directory
(`TMPDIR=/tmp/a/b`) is thus not covered: each look of `resolve_system_root` resolves
the whole prefix anew, so what it saw at one name says nothing of the next.

### Around a turn
* `ModelStream`: the route, the opening with fallback and retries, the guarded
  stream with its two timers, the accumulator. A fragment is its place on the wire.
  Its decoder takes bytes in chunks cut anywhere; the reference decodes all at once.
* `LspClient`: the manager, the transport with its two locks, the server beyond the
  pipes. A text of a file is the number of edits that led to it.
* `WebFetch`: the checks of every hop, the retry of the provider's service, the pages
  kept for continuations. An address is public or it is not.
* `ImageStore`: pasting under the hash of the bytes, reading within the budgets. An
  image has two sizes, raw and encoded, and the body's limit counts the note that
  stands for an omitted image too.
* `Composer`: characters, chips, caret, menu, history walk and search.
* `TurnView`: cells from events as they come, cells from the record of the same turn.
* `PromptHistory`: lines of one file, instances that append, die, repair and trim. What
  is written between a launch's read and its own cut or trim may go with that
  (`TakenBack`); every other prompt stays.
* `IsolatedGit`: `HEAD`, index and work tree with links and special files, copied path
  by path while the tree and the repository change, with the ceiling on what a view
  may hold, and calls of git that fail anywhere. A path is inspected (`inspect`), then
  opened by name and copied (`refresh`), and a nested repository is asked for its
  commit, by name again (`rev_parse`): what stands there may be replaced between any two.
  The bytes of one open file are taken to be of one moment. The shown changes are compared with what
  each path was during the copy; a nested repository that was replaced under its copy
  is excepted (`Displaced`).
* `EvalBench`: instances behind a limit, one lock per repository, shared clones that
  fail half way, deadlines that fire while the turn works, tasks that panic. A turn
  whose deadline fired goes on spending (`RunsOn`) until `StopsTurn`; then `ReadsSpend`,
  `Shutdown` and the patch, and at the end the results sorted by id (`SortReport`). A shutdown
  is taken to end the turn, although the code waits for that only so long
  (`cancel_live_turn`, `runtime.rs:365`).

## 4. Runs

| run | question | result |
| --- | --- | --- |
| `turn_batch` | one turn, two steps of two calls, two approvals, a cancel, a dropped handle, a restore | calls run once and on their own consent, what is recorded as cancelled never ran, the budget holds |
| `turn_serial` | two prompts, bootstraps one after the other, and a restore, fair scheduling | history stays contiguous, a superseded turn has its token cancelled, every loop tells its consumer, and its own outcome; handles resolve; the contract is implemented; a restore meets no tool but a superseded turn's that was told to stop |
| `turn_race` | two overlapping bootstraps and a steer | a parked batch stays cancellable, steers land in their turn, nothing runs after a turn's end |
| `save` | two `persist` callers interleaved at both locks, folds, edits, retries, failures, a crash, fair scheduling | flushes are answered, and durable unless a caller overtakes another; quiet without an error means saved, but for a last write that overtook |
| `subagents` | two dispatches from two turns, a ledger of one, fair scheduling | children are listed, writers are serial, nothing outlives its call uncancelled, dispatches return |
| `stores` | snapshots of every tree over four paths; session files of two processes | restores are exact, write through nothing, retained snapshots are whole; saves survive, sessions stay readable, grants were given and stand |
| `commands` | every short line over nine alphabets; fourteen kinds of call under three policies; two calls, two jobs, chains of two, a cap of one, fair scheduling | the readers agree with what runs, floors and rules hold; nothing runs past the person; children and the network are bounded; a restore finds the job store idle, finished records are dead, shutdown reaches all, calls get through |
| `files` | the file tools under swaps, `apply_patch` over every short text, edited and updated configurations, the git view, the fence, the harness | tools stay inside their roots, edits keep the rest, a project only tightens, rules reach nothing outside, reports are true |
| `front_ends` | the server, a headless run and the terminal, each against the contract, fair scheduling | leases hold, exit codes are true, an idle screen means an idle runtime, nothing hangs |
| `edges` | the parts around a turn, one at a time | replies arrive whole and end, the user loses nothing, the model is told what was there |
| `checkpoint_rerun` | a directory around a skipped entry replaces a captured file | **violated**: `RerunFinishes` |
| `restore_race` | a second turn begun while the first one's tool runs, and a restore | **violated**: `RestoreAlone` |

`MCStores`, `MCCommands`, `MCFileTools`, `MCFrontEnds` and `MCEdges` put parts that
share no state side by side: a variable (`store`, `about`, `part`, `edge`) says which
of them this behaviour is about, and the others stand still in one initial state.
Nothing is multiplied, and each named property of the cfg says which parts it is of.

### Bounds
Two turns are the smallest number in which one supersedes another; every property
of `TurnRuntime` speaks of one turn and the live one. `MaxBegin = 1` makes
bootstraps serial, `2` lets them overlap. Two calls in one batch are needed for a
group, for a park in the middle and for a resumed rest; two approval requests for
an answer that comes too late; `StepCap = 2` for a resumed loop that spends
another step. `MaxDrop` and `MaxRestore` bound operations that repeat without
a new effect. In `SessionPersistence` a turn's loop and
a front end (which alone flushes) are the least at which one caller overtakes another;
between them they start `MaxStarts = 4` saves; two entries with no recent
tail allow folds of different lengths, also while another caller is between its locks;
one crash and one retry are the least at which recovery and the retry path run. In `JobStore` two jobs and a cap of one make
eviction happen, two steps make a chain. In `SubAgents` two dispatches in two turns
are the least at which a superseded writer meets a new one; one retained record
makes eviction happen. In `CheckpointStore` the four paths are a directory, an entry
in it, a skipped entry in it and an entry beside it: the least in which a
directory must be kept for what it holds; two snapshots with one retained make a
prune, one more entry than the budget of two trips the latch; the platform of the
passing run is the one that cannot record links, where `clear` has the most
cases. In `SessionFiles` two processes race for the key, two workspaces and one
meddling with a file make a resume elsewhere. A line of `ShellWords` has as many
pieces as it takes to open and close the construct its alphabet is about; the calls
of `PermissionGate` meet each branch of the gate. Files of `PatchText` have four
glyphs and a request three: a line, its indentation, its end and a neighbour. Three
turns with two requests let a server's leftovers meet the turn after next. The edges
have the least numbers at which their limits bind (a cap of one or two with one more
to come). In `Sandbox` two commands are the least at which one works while the other is
launched, six directories are `/`, a home, a workspace with a directory to work in, a temp
root and a directory to create; `MaxMoves = 2` lets a command take a directory away and
put a link there, and `MaxLinks = 1` stands for the 40 of the code. `MaxEdits` and
`MaxUpdates` bound what a configuration goes through, `MaxChanges` what a work tree
and its repository do, `MaxAsk` the calls of a turn that ask. `Envelope` and
`NoteBytes` are the parts of a request's body around its images.
Where a proof exists the bound does not matter.
`CHECK_DEADLOCK FALSE` is set because the bounded user stops typing: a state in
which nothing is under way is a legal end. `SYMMETRY` is used only for names that no
definition tells apart, and only in runs without liveness.

### Fairness
`TurnRuntime`: weak fairness of every spawned task, of a bootstrap already
started, of the event after a park, of the second half of a handle's cancel and
of the end of a restore: tokio polls a task that can go on, and every wait inside
them ends: the token is polled in each `select!`, model streams and shell
commands have deadlines, and the other tools are single file or network
operations that are taken to return. The user is never fair: nobody has to answer,
cancel or submit.
`SessionPersistence`: weak fairness of the writer and of callers under way;
nobody has to start a save. `JobStore`: calls go on, deadlines end what hangs, a
restore that was let in ends, and strong fairness at the gate, which is tokio's
FIFO mutex. `SubAgents`: the agent tool's own code goes on and its grace timer
fires; nothing is asked of the child, which may hang for ever. Front ends: tokio runs
what was spawned, a turn that was stopped ends (what `HandleResolves` shows of the
runtime), the UI drains its channels; nobody has to answer, to stay connected or to
read what is written. `ModelStream`: its timers fire and a reopening that is due
happens; the provider may stay silent for ever.

## 5. Proofs

All proofs are for arbitrary sets of turns, callers, calls and policies and
arbitrary bounds; the assumptions are the named `ASSUME`s of the modules (`NoTurn`
is no turn, `"restore"` is no task, bounds are naturals; a tree's root is no path, and what lies below a skipped path is skipped).

* `TurnRuntimeSafety`: `TypeCorrect`, `ParkedCancellable`, `OutcomesAreOwn`,
  `BudgetIsKept`, `NothingRunsLate`, `SteersLand`. None but the first is inductive.
  `Inv` adds what the code relies on: an unstarted turn has no task (`NotStarted`);
  the live turn owns the budget and its channel is installed once it is driven
  (`LiveTurn`); a parked batch's task waits (`ParkedWaits`); a sender feeds its own
  turn or nobody (`Senders`); a told turn no longer owns the runtime or is closing
  it (`ToldIsOver`); requests sent and paid for never exceed the steps counted
  (`StepsCount`). The loop's many actions are first reduced to one `Effect`, then
  `Effect` is shown to keep `Inv`. `SteerInv` (the queue only holds prompts of
  the live turn) carries `SteersLand`.
  The last part is about callers whose `begin_turn`s do not overlap (`SerialCallers`:
  `MaxBegin = 1`, or a single turn): `TurnsFollow`, `RestoresMeetLosers`; section 6 says what overlapping callers do instead. `SerialInv`
  says who hands the runtime to whom: one bootstrap at a time (`OneBegins`), which has
  cancelled and told the live turn before it closes it (`Handover`), so that whoever
  lost the runtime has a cancelled token and a successor (`LosersAreWoken`), and a
  task that has not told its outcome still feeds its own channel (`TellsYet`).
  `OrderInv` draws from it that the transcript ends with the live turn
  (`LiveIsLast`) and that a loop which may still record a partial reply holds an
  anchor among its own turn's entries (`AnchorsHold`). An anchor is found again by
  identity, so a notice used as one must be in the transcript once: `OneNotice`
  says so of the queue and the transcript together, because each turn's budget
  sends it once (`Unsent`). Every edit is then one of a single shape, entries put in among
  those of their own turn (`Puts`, `Grows`), which keeps turns together.
* `TurnRuntimeCalls`: `ConsentIsHuman`, `CallsSettle`, `ContractImplemented`. What
  is missing in `Inv` is an order: a turn's calls have a place (step, then position in
  the batch), every run, request, answer and cancelled result has one, and a task
  never goes back to a place before its own. `CallInv` says that all of them lie at or
  before the place of the turn's task (`RanBefore`, `RaisedBefore`, `AnsweredBefore`),
  so that starting the call at hand cannot be starting it again, and that the
  request a batch is parked on and the answer it resumes with are its own
  (`RequestIsOwn`, `AnswersAreOwn`). That a turn superseded while parked, or cancelled
  while its answer is on the way, never takes another one's yes follows. The
  refinement maps `live`, `begun`, `verdict`, `stop`, `parked` and `asked` to the
  runtime's state and shows each of the contract's four relations for each action: an
  opened request is new because all earlier ones lie before the place of the park.
* `SessionPersistenceProofs`: `TypeCorrect`, `ErrorsAreHonest` (`HonestInv`:
  at every point of the writer, the record is in the file, or about to be, or an
  error shows, or a save is promised), `SummariesFit` (`FitInv`: every copy of a
  transcript, in memory, in a caller's hands, in the record and on disk, fits),
  `FlushesLast` and `TranscriptsAreSaved`, for any number of callers in any order.
  `SaveInv` says that the session only grows and whatever is on its way to the record
  was the session once (`Ordered`); that, unless the last write overtook another, the
  record is the transcript or a caller that will write the transcript of now is under way (`RecordFollows`); and,
  as long as nobody overtook anybody, that no copy is longer than what it was
  taken from, down to the file (`Longer`), and that what a flush waits for is in what
  the actor holds, and in the file once that is written without an error (`Asked`,
  `Confirms`). Section 6 says what overtaking does.
* `BackgroundProofs`: `TypeCorrect`, `RestoreFindsIdle`, `FinishedRecordsAreRight`,
  `ShutdownReachesAll`, `RunsKeepTheirRecord`. `Inv` ties processes, records
  and calls together: `Alloc` (unused ids have nothing), `Records` (whose a live
  process is), `Calls` (what record a call works on), `Apart` (no two runs share
  one), `Restoring`. The last four carry the hypothesis `~CancelForeground`: section
  6 says what happens without it. For sub-agents, `ChildrenAreHeld`: `SubInv` adds
  that a turn that is over has its token cancelled (`OldTurnsCancelled`) and that
  one turn makes at most one writing dispatch at a time (`OneWriterATurn`), because
  its calls are serial. These two are all that keeps writers apart. The ledger's own
  look for a running writer, which is not atomic with the entry, is not needed: it
  turns away a writer of a new turn while an old one is still dying.
* `StoresProofs`: `TypeCorrect`, `TreesStay`, `RestoresAreExact`,
  `NeverWritesThrough`, `PruneSparesRetained`, for any set of paths and any tree;
  `StoresKeep` and `GrantsKeepStanding` for both stores together.
  `Inv` says what holds half way: why each kept entry was kept (`KeptForCause`:
  it is reported and not covered, or a directory around something kept), and what
  stands in the workspace while the copy runs (`CopiedBack`: only skipped, kept
  and already restored entries). `RestoreExact` follows when the copy is through.
  `RInv` (what is being pruned is beyond the cap, and so is everything damaged)
  carries the last theorem; it needs that victims go oldest first, so that a prune
  that failed on one snapshot and succeeds on the next never moves the damaged one
  into the retention. `LInv` says that the session's list and the store's agree up
  to what pruning should have removed: each id in one list only is older than as
  many listed ones as are retained, and capping the list drops none of those. `SInv`,
  for the session files, says of every version of a file, the older ones a
  power loss may bring back included, that it is whole, synced, of the session that
  was opened there, signed by the shared key or by none, and that its tag of the
  roots signs only what was given (`VersionFine`); and of each process that its key
  is the shared one or none and that the copy it is writing is of the session it holds
  (`HostFine`). That no version is torn rests on the order of write, sync and rename.
* `FrontEndsProofs`: `LeasesAreKept`, `ExitCodesAreTrue`. For the server the
  invariant says whose turn a stream has (`TurnOfStream`), that at most one stream
  holds the lease (`OneLease`), that what a dropped request left behind runs only when
  its stream is gone and clears only its own request (`LeftBehind`), and that the slot belongs to the
  stream that parked there (`SlotIsOwned`). For the headless run the code is decided
  before it is used, so `CodeIsTrue` says of the decided code in each stage what the
  property says of the exit.
* `PermissionGateProofs`: `ConsentIsGiven`, `DispatchIsBounded`, for any calls,
  policies, allow list and replies; the texts of commands stay opaque, so that what
  the readers find in them may be anything. `GateInv` says what a waiting call can
  still be (`Resting`: one that waits for the mode or the judge needs no person, one
  that waits for the judge asks for no network, and no child runs meanwhile), that a
  launch fixed its policy and a child with network exists only where the policy is
  not `never` (`Launched`), and that every session consent goes back to an answer
  (`Remembered`). Of a call that has somebody's leave it says what was ruled out before,
  whatever the mode will be when it executes (`MayRun`, `SaidOf`); that stays so because
  the plan does not read the mode (`StillAllowed`).
* `FileToolsProofs`: the configuration, the shown changes, the fence and the harness;
  they share no variables, so each has its own invariant, and a step of one part
  leaves the others'. `LimitsStay` and `ResultsAreTold` state what the run checks.
  * `ProjectsOnlyTighten`, `UpdatesKeep`. A load is a pure function, so the first is a
    fact of it for all files, shown setting by setting. For the second, `ConfigInv` adds
    that the document a program is about to put in the file's place holds what was
    set by hand outside the updated keys, and that the file could be parsed
    (`DraftsKeep`). Nobody is taken to edit by hand between a program's read and its
    rename (`Quiet`): such an edit would be lost.
  * `ShownChangesAreTheWork`. `GitInv` says of a path still to be copied that its
    place in the view is empty, with the flags and cached entry of the index, or that
    it is a nested repository about to be asked for its commit; of any
    other that it is a copy of what stood there at some moment since the copy began,
    that a nested repository was replaced there, or
    that only something stood there that git does not track (`PathCopied`, `CopyHolds`).
    A step moves one path (`OnePathMoves`), and what is opened is what stands there then,
    not what was inspected (`ReplacedIsRecorded`). The changes shown later are of this
    copy, whatever happens to the tree.
  * `ReportsAreHonest`. `BenchInv` says which stage of an instance goes with which result
    (`JobFits`), that instances start in their order, only under a
    sandbox that is enforced and only so many at once (`HostHolds`), that a worker at work
    holds its repository's lock and nobody else does (`LocksHold`), and that the report
    so far is of instances that are over, each once, each truly told (`ReportHolds`),
    which sorting it keeps. That the spend is read after a turn that timed out has been
    stopped is part of `JobFits`. That
    it always goes on (`NeverStuck`) follows: when none runs, the first queued
    instance may start, or, when all are over, the first one not reported is reported.
  * `FenceStays`. `FenceInv` says where a root that is being looked at can be: a granted
    path still on its way outside, or inside, or a place of a temp root's walk
    (`PendingRoots`, `OpenRoots`). These sets are made of constants: no command can undo
    what a launch has seen outside, because outside nothing is moved but the cache
    directories that are created (`TreeHolds`), and inside every directory, whatever it
    is renamed to, is allowed. Hence what `open_without_symlinks` ends at is inside. That
    it follows no link is what the proof uses of it: a path alone, resolved a moment
    before, would not do.

Definitions that proofs expand avoid `CASE`s with overlapping guards: TLA+ leaves
the choice among them open, TLC takes the first.

Only model-checked: all liveness (`HandleResolves`, `FlushAnswered`,
`CallsGetThrough`, `DispatchReturns`, `FrontEndsLetGo`, `ReplyEnds`), which needs
fairness and `ENABLED`, out of the prover's reach. What recursive functions compute
over a text, a tree or a channel needs induction over data, likewise out of reach:
`VerdictsHold`, the patches in `EditsKeepTheRest` (its updates are `UpdatesKeep`),
`RootsHold` (links are followed by a recursive function over the tree), `ReplyHolds`,
`UserLosesNothing` and `ModelIsToldTheTruth`, and `ScreenIsTrue` (a drain folds over
the updates of a channel).

## 6. Where code and words differ

Two disagreements have a run of their own. `checkpoint_rerun`: "re-run the
restore to finish it" does not help when a directory that holds a skipped entry such
as `.git` stands where the snapshot has a file or a link. `clear` keeps the
directory, the copy fails on it, each time. `restore_race`: `restore_checkpoint` refuses
while a turn is live ("No turn or process may start mid-restore",
`runtime/checkpoints.rs:66`), and does not see the tool of a superseded turn that still
runs. `RestoresMeetLosers` proves that it is no other tool, and that its token is
cancelled. The job store's gate refuses if that tool is a shell command; a file-writing
tool is not known to it.

The following were seen while modelling. Those with a property are in the module
named, and TLC finds the property violated with the bounds given.

* `ResultHasItsExchange` (`TurnRuntime`, two turns): a result that a comment calls
  impossible to misplace is dropped when a superseded turn's tool returns after the
  next turn's first reply (`session.rs:138`, `runtime/tool_result.rs:497`).
* `SupersededIsCancelled`, `TerminalBeforeReturn`, `HistoryContiguous`
  (`MaxBegin = 2`): `begin_turn` cancels the old turn and installs the new one in
  different critical sections; a turn installed in between by another `begin_turn`
  keeps an uncancelled token, streams on, returns without a word to its handle, and
  may file its partial reply beside the other turn's prompt.
* Two overlapping `persist` calls can write their snapshots in the wrong order
  (`runtime/persistence.rs:223`): until somebody persists again the record, and then the
  file, lacks entries that a flush confirmed, and a fold's summary may stand beside
  entries it does not describe (`runtime/compaction_flow.rs:288`, whose comment says it
  describes exactly those). `FlushDurable` and `QuietIsSaved` except what comes of that
  (`overtaken`) and nothing else.
* `FinishedIsDead` (`CancelForeground = TRUE`): cancelling a running foreground job by
  id marks its record and kills nothing (`shell_tools/jobs.rs:738`).
* `EveryPromptOnce` (`TuiApp`, `LateSteer = TRUE`): a steer task that is still waiting
  when a later turn begins puts its prompt into that turn, beside the queue the app
  flushes into it.
* `CancelOnceStops` (`Headless`): the driver cancels once, and a signal taken before
  the turn went live stops nothing (`headless/mod.rs:334`).
* `NoBadgeUnanswered` (`TurnView`): a call cancelled while it waited keeps its pending
  badge (`active_turn.rs:181`).
* A prune that fails half way leaves a snapshot that `list` still shows and `restore`
  accepts although it is no longer whole; `RetainedAreWhole` says it is one beyond the
  retention.
* A clock that steps back makes a new snapshot older than the old ones, and the prune
  takes it first (`checkpoint.rs:438`).
* A wrap-up notice is queued for whoever is live, also for the next turn
  (`runtime.rs:525`); a tool call that cannot be parsed ends the turn without the
  partial reply other errors record (`runtime/turn_loop.rs:578`).
* The deadline of a model stream is not looked at while a reopening waits.
* The language client counts a failed spawn against its budget, takes a version
  before it takes its place in the queue, and a server without versions may have the
  batch of an earlier edit taken for the later one's (`lsp/manager.rs:297`).
* On Windows `should_sandbox` is true, because a backend exists, although a job object
  confines nothing. A job's `sandboxed` is set from it (`shell_tools.rs:803`, `1043`), so
  that `denial_note` may say of a command that it "ran inside the OS sandbox";
  `sandbox/mod.rs:411` asks that such words consult what is enforced. `FenceIsToldTruly`
  therefore says of a note only that the command was to be confined.
* An evaluation that cannot extract its patch reports a cost of 0
  (`runner.rs:438`, against the comment at 398); a tracked path below
  `.deep-code` that is or was a link can enter its patch (`view.rs:105`, against
  `runner.rs:552`).
* Comments that say less or more than the code: `workspace_tools.rs:1331`,
  `server.rs:537`, the documentation of the prompt history (which names the loss of a
  prompt to another launch's trim, and not that to its cut of a torn line,
  `prompt_history.rs:142`), `publish_key` (which syncs the file and not its directory).

## 7. Left out

Of the turn runtime: the choice of model and route, prices, telemetry, token
thresholds, the wording of notices and summaries, automatic compaction in the loop,
the conversion of entries to wire messages; which calls need an approval is
nondeterministic there and decided in `PermissionGate`. Of the stores: migration of
old layouts and deletion of sessions, the ownership checks of the snapshot directory,
checkpoint names, copy-on-write clones, two snapshot operations at once. Of the
tools: sizes, paging and formatting of results, the extraction of text from pages,
formats of images, the parsing of skill manifests, the list of private address ranges
(an address is public or not). Of the sandbox: Seatbelt's profile, the filter's list of system calls, devices, files
as roots, `..` in links, truncation and ioctl beyond what descriptions say of them, the
writes of commands that run bare, the Windows job object beyond its confining nothing.
Of the configuration: the permission bits of the global file and the warning about them.
Of git: merge conflicts, file modes, the protocol
with the git process. Of the front ends: setup dialogs, slash commands that only show
something, layout, markdown and colours, `/health`, envelopes and traces. Of the
evaluation: datasets, reports on disk and scoring.
