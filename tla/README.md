# A TLA+ development for latte-code

latte-code is a coding agent.  A server process keeps *sessions*; a session is a
chain of *turns*; a turn calls a model provider and runs *effects* (tool calls
that touch the workspace).  A SQLite database shared by all processes of a user,
and one JSONL file per session, are what survives a crash.  Clients (a terminal
interface, a command line) talk HTTP to the server, and several of them look at
the same session.  The development models the parts of this in which the order
of events matters: who may write, what a crash leaves behind, what is executed
and how often, what a client is told, and what becomes of prompts, cards and
files that are under way.

Paths are relative to `src/crates/`.  `storage.rs`, `engine lib.rs`,
`process.rs`, `tools.rs`, `conversation.rs` belong to `latte-engine/src/`,
`session.rs` to `latte-headless/src/`, `http.rs`, `workspace.rs` to
`latte-server/src/`, `tui session.rs` to `latte-tui/src/`, `cli lib.rs` and
`server_client.rs` to `latte-code/src/`.

## 1. Inventory

| component | state | hard part | what makes it correct | modules |
|---|---|---|---|---|
| turn state machine (`latte-core/src/state.rs`) | status, revision, pending request, failure class | which transitions are legal from where | the record stays well formed, an ended turn stays ended | TurnState |
| durable session ledger (`storage.rs`) | `sessions`, `turns`, `session_active_turns`, `effects`, `pending_permissions`, `runtime_lease` | stale owners, compare-and-swap on two revisions, recovery | rows agree, no start without consent, unknown outcomes are admitted | SessionStore, EffectLedger |
| session runtime (`session.rs`) | per call: snapshot, lease, token, effect in hand | coordinators of several tasks and processes, heartbeats that fail during an execution | executed once, verdicts true, leases come back, turns end | SessionRuntime |
| tool rounds (`session.rs`, `storage.rs`) | assistant cards, `tool_round_count`, source keys | a batch that is parked and taken up again by another process; call ids that come back | calls run in order, each is answered, rounds stay bounded | ToolRounds |
| verification evidence (`engine lib.rs`, `storage.rs`) | workspace manifests, `effect_epoch`, evidence rows | files that change while they are read, files the manifest skips | completion only on evidence for the listed tree as it is | Verification |
| history and compaction (`session.rs`) | transcript, summary and elision cards, circuit breaker | requests extended in memory and rebuilt after a wait, summaries made of a part | nothing is forgotten that a summarizer could read, calls stay paired | History |
| follow-up mailbox (`session.rs`) | queue per session, guards | the map's lock is not the database's lock | a 202 means "will run", in order | SessionMailbox |
| reminders (`session.rs`) | one slot per session, what calls took from it | taken before it is known whether the turn starts | the newest is kept, none reaches two turns | Reminders |
| conversation log (`conversation.rs`) | outbox rows, JSONL file, file lock | drainers of several processes, torn writes, power failure | prefix without gap; nothing leaves the database early | ConversationLog |
| recovery sweep (`workspace.rs`, `engine lib.rs`) | none of its own | one sweep over the sessions of every workspace | orphans are resolved and announced | SessionStore, EventStream |
| session events (`engine lib.rs`, `http.rs`, `server_client.rs`) | two bounded broadcast channels, a bridge | lost and late wake-ups, reconnection | an observer ends when its session does | EventStream |
| command idempotency (`storage.rs`, `http.rs`, `workspace.rs`) | reservation map, accepted commands, runners | retries, two servers on one database, handlers that are dropped | a command takes effect once and its answers agree | CommandService |
| direct turn interface (`engine lib.rs`, `process.rs`) | turns, effects, permissions, evidence of scope `runtime` | reports of superseded owners | an approval is spent once, completion is verified | DirectTurns |
| provider client (`provider.rs`) | attempts, deadline, stream assembly | cancellation, retry, deadline racing | repeats only of what is taken for transient, a whole answer or none | ProviderClient |
| provider configuration (`registry.rs`, `profile.rs`, `cli lib.rs`) | two layers of files, registry, pinned binding | files edited and binaries upgraded between turns | the key goes where it was promised | ProviderBinding |
| process supervisor (`process.rs`) | process group, pipes, deadlines | a group that does not die or cannot be probed | "observed" only when it is over | ProcessSupervisor |
| file tools (`tools.rs`, `latte-engine/src/workspace.rs`) | open descriptors, temporary files, digests | programs that write or relink the same path | writes stay inside, only the window is lost | FileTools |
| session catalogue (`storage.rs`, `server_client.rs`) | rows, cursor pages | commits between two pages | listed once, untouched rows are listed | Catalog |
| migrations, legacy import (`storage.rs`, `engine lib.rs`) | schema version; the older database | processes of different releases; an importer that is repeated while the older program goes on | each migration once; nothing mixed; what an import brings is settled | SchemaBootstrap, LegacyImport |
| server processes, command line (`cli lib.rs`, `http.rs`) | port, token file, embedded server, exit code | shutdown while a turn runs | the announced token opens, the exit code tells the outcome | ServerProcess |
| terminal interface: session (`tui session.rs`, `cli lib.rs`) | model, drafts, pending submissions | snapshots, answers, wake-ups and keys in any order | no text is lost, no decision on an unseen request | TuiSession |
| terminal interface: controls (`tui session.rs`, `command.rs`) | overlay, editor, lock of a switch | a rival switching the model, a fork answered late | a prompt runs with the model shown | TuiControls |
| terminal interface: screen and transcript (`tui session.rs`) | size, scroll, editor; cards | any size and any text; bounded tails, ids that repeat | what is decided on is in view; actions tell the truth | TuiScreen, TuiTranscript |
| terminal guard (`latte-tui/src/lib.rs`) | modes switched on, panic hook | failures, panics and a signal between two stages | the terminal is returned | TerminalGuard |
| text guards (`latte-core/src/session.rs`, `session.rs`) | a text | what one pass exposes to the next | no frame token, no control, no credential that a pattern knows | TextGuards |
| engine configuration (`config.rs`) | none | parsing | | not modelled |

How they interact.  A client calls the HTTP server, which reserves the command's
key (CommandService), finds the workspace and calls `SessionRuntimeService`.
Each operation loads a snapshot, acquires the lease of the session, commits
against the revisions of the snapshot (SessionStore) and drives the turn
(SessionRuntime): history (History), provider (ProviderClient with a binding of
ProviderBinding), tool batches (ToolRounds) whose calls edit files (FileTools)
or run commands (ProcessSupervisor), verification (Verification).  Every commit
is one IMMEDIATE transaction; after it the engine drains the outbox into the
log (ConversationLog) and announces the change (EventStream).  A turn that ends
hands over to the drain of the mailbox, which starts the next one.  The sweeper
and every opening engine recover turns whose lease is gone.  A client refetches
the snapshot on every wake-up (EventStream, TuiSession) and projects its cards
(TuiTranscript) onto the screen (TuiScreen).

The hazards that follow are listed, each at its line, in `PROJECT.json` together
with the properties aimed at them.

## 2. Modules

```
TurnState --> SessionStore --> SessionRuntime              (EXTENDS)
                   | implements     | implements
                   v                v
              EffectLedger      SessionStore!Spec

Theorems:
SessionStoreProofs --> SessionStoreSteps --> SessionRuntimeProofs
ProcessProofs           of ProcessSupervisor TerminalGuard ServerProcess ToolRounds
                           Verification
EngineProofs            of SchemaBootstrap LegacyImport EventStream ConversationLog
HistoryProofs           of History
ContentionProofs        of the components of MCContention, and of MCContention
ClientProofs            of ProviderBinding ProviderClient TuiControls
                           TuiSession TuiScreen TuiTranscript TextGuards

MCProgress    EventStream TuiSession ServerProcess TuiControls
              ProcessSupervisor ProviderClient ConversationLog
MCComponents  TuiSession TuiControls TuiScreen TuiTranscript TerminalGuard
              ToolRounds Verification History SchemaBootstrap LegacyImport
              ProviderBinding TextGuards
MCContention  DirectTurns CommandService FileTools Catalog SessionMailbox
              Reminders
MCSessionLive SessionRuntime SessionMailbox
```

Every module names the code it models in its header, and `PROJECT.json` gives the
lines of every definition.  What follows is how state and actions correspond.

### The core

**TurnState** is the record and the transitions of `state.rs`: one operator
`CanX` for the guard and one `X` for the result of each transition.

**EffectLedger** is the abstract promise about effects: authorized before begun,
begun at most once, one at a time; an unknown outcome is admitted, and nothing
runs after it.

**SessionStore** is the ledger of one session.  An action is one transaction.
It takes the token of the caller and the two revisions it presents; `Next` lets
*every* token ever issued act at *any* time, so stalled and superseded owners
are included without being named.  Wall time is abstracted to `Expire`; a renewal
is the absence of `Expire`.  The digest of an operation is the revision and the
token it hashes.  One assumption about clients is made, `NothingInFlight`, and
SessionRuntime is shown to satisfy it.

**SessionRuntime** has the coordinators.  `co[c].pc` is where a call stands:

| pc | code |
|---|---|
| `loaded`, `leased` | between `load_full`, `acquire` and the first commit of an operation |
| `driving`, `compacted` | the loop of `run_provider_turn`, before and after compaction |
| `provider`, `answered`, `cut` | `run_provider_step` awaiting, after the assistant card, and after a partial answer |
| `round`, `batch`, `prepared`, `started`, `executing`, `verified` | tool calls: authorize, prepare, start, execute, observe; and the verification plan |
| `leaving` | the guards are being dropped |

Beside the ledger there is the world: `ran` counts how often the executor of an
effect was started, `working` says which executors are at work.  `Crash` removes
a coordinator and leaves its executor running; `Abandon` is an error after a
commit that took effect; `LeaseLost` is the failed heartbeat.

**SessionMailbox** is the queue of prompts of one session with its guards.  The
ledger is reduced to lifecycle, revision and lease owner.  `Faults` names what
may go wrong besides interleaving, so that a run can say which fault a loss
needs; `disturbed`, chosen in Init, says whether they may in this behaviour.

**Reminders** is the slot of `set_reminder` between two follow-ups or answers that
take it, start or are refused; `Rival` is a turn of another process.

**ConversationLog** has commits, drainers, the file with its header and its
records of two writes, the file lock, `fsync`, acknowledgement and reading back.
`Crash` kills one drainer between any two steps; `PowerFailure` also loses what
was not synchronised, keeping a prefix of it (an assumption about the file
system; the database runs with `synchronous=FULL`).  A file is refused over
`MAX_FILE_BYTES`, its torn tail counted (`TooLong`), and a card over
`MAX_RECORD_BYTES` (`Oversized`) is refused by the writer.  The reader's check of
the same bound (`conversation.rs` 210) can meet only lines that this code did not
write, and files of other programs are left out.

### Inside a turn

**ToolRounds**: a reply is one durable card; `work` is the coordinator's memory
and is lost by a crash.  Its actions are the reply, the authorization, start,
execution and observation of one call, the wait for a permission and its
resolution by any process, which takes the rest of the batch from a bounded
page of cards.

**Verification**: a file is its version, each write a new one.  `scan` is where the
coordinator is between two reads of a file; an edit of others may fall between any two.
`Tracked` are the files a manifest lists, `Skipped` those that `workspace_manifest` passes
over (`.gitignore`, `.git`, `.latte`, `target`, the database: `tools.rs` 343–358): a turn
may write them, and no read ever sees it.  The sampling of `stable_completion_snapshot`,
the run of the check, the record of the evidence and the completion are actions of their
own.

**History**: a transcript of cards with sizes.  Segmentation, fitting, elision
and summarising are operators on sequences; the actions are a start, a tool
round, an overflow, a summary that fails, a wait, a manual compaction, a restart
and a fork in every phase.  `carried` is the request that a running turn extends
in memory.  `SourceSize` is `max_summary_source_bytes`: the source of a summary is
cut from the newest card backwards, so that the oldest cards and the previous
summary may not be in it; the card then says `whole = FALSE`, and `stands` holds
only what the summarizer was shown.  `severed` are calls that a fork copied
without their answer.

**ProviderClient**: a call with a clock in ticks.  What the provider does with a request
(an error of each class, a stream that breaks, an inline answer, silence) is chosen
freely.  A retryable status is `refused` (429, 503: not begun) or `unclear` (408, 502,
504: the upstream may be at work on it); the code repeats both (`is_retryable_status`).
`assembly` is `StreamAssembly` with the lines of an unfinished event.

**ProcessSupervisor**: the leader and what it forks, with group, pipes and
state; the supervisor's `select!` is a choice between what is ready.  A member may
ignore TERM, belong to another user, leave the group or keep the pipes open.

**FileTools**: each system call is a step.  `parentDir` may be replaced by a link
that leads out of the workspace between any two of them, and the user's programs
write the same file.

### Between processes

**CommandService**: two servers, their memory (reservations, open workspaces,
index, runners), the shared database, and requests whose handlers may be dropped
while their task goes on.  A handler dropped before it starts its task leaves its
key in flight at that server (`KeysAreHeld`).  `turns` and `answers` are history.

**DirectTurns**: every lease ever handed out may be used at any time; the
execution of a tool or a process call is split where the code leaves the
transaction.

**EventStream**: commits are announced by tasks that may be overtaken; channels
have a capacity, drop their oldest event and tell the reader so.  `Sweep` is
`recover_expired_leases` with its early stop at a session of another workspace, and
a commit may take effect although its log cannot be written.  `unheard` is history:
the sessions of which the last change was announced to nobody.

**Catalog**, **SchemaBootstrap**, **ServerProcess** model a chain of page requests,
the opening of one file by processes of different releases, and the lifetimes of
`serve` on any ports (`PortOf`; 0 takes a free one), embedded servers and a command.

**LegacyImport** is the copying of an older database into one that is in use, while
the older program goes on: it creates sessions, opens further turns of sessions
that were already imported, parks and stops.  A session is its turns, its
active-turn row and whether a live lease owns it, which is what `INSERT OR IGNORE`
and `recover_at` decide by.  When both programs have continued one session
(`Diverged`) the copy is taken to fail as a whole on a row that refers to an ignored
turn; where the older turn has no such row the code copies on, which adds nothing to
the session.  The death of the owner of a native turn is SessionStore's subject.

**ProviderBinding**: two configuration files that are edited, an environment
variable, a server that is restarted or upgraded; a binding's digest is the
record of the fields it hashes.

### The terminal

**TuiSession** is the reducer, the loop that feeds it and the dispatcher; the
server is what the interface can observe of it, a session and one fork.
**TuiControls** adds palette, pickers and the switch of the model, with a rival
client.  In both, the answer to `/fork` comes whenever it comes and opens the fork
whatever is under way by then (`tui session.rs` 4889–4892); every other change of
session asks `session_switch_available`.  **TuiScreen** is the
layout as a function of size, session, transcript, editor and scroll position:
the rows of the areas, what is clipped, where the caret is.  **TuiTranscript** is
the projection of cards into actions, driven by a small runtime that writes the
cards in the ledger's order.  **TerminalGuard** has one step per mode and stage.
**TextGuards** treats a text as a sequence of pieces, so that what a removal
joins can form a new token.  The three patterns of `redact_token_like_values` are
three operators (`AssignmentsMasked`, `BearersMasked`, `KeysMasked`) with their word
boundaries, applied in the code's order.

Definitions commented "A fault, for comparison" are used by no specification:
each is a plausible mistake in the code, against which one property was tried.

## 3. Runs

### The suites

The components share no variable with each other.  Checking them in
one state space would multiply their states and add nothing, so `MCProgress`,
`MCComponents` and `MCContention` add one variable, `focus`: it is chosen in
`Init` and names the component that moves in this behaviour, while the others
stay in one of their initial states (`Still`).  A state of a suite is thus a
state of one component, and a property of a component says there exactly what it
would say in a run of its own.  The three suites differ in what they need:
`MCProgress` has liveness and therefore no symmetry; `MCComponents` has
components of one actor and many inputs; `MCContention` has components whose
actors are interchangeable, and one symmetry set for all of them.

A property of a suite is the conjunction a module defines at its end
(`XCorrect`), whose conjuncts are stated and explained there one by one.
`MCSessionLive` composes the runtime and the mailbox in the same way, for what a
session owes its users in the end.

| run | what it asks | instance | distinct states | time |
|---|---|---|---|---|
| `session_store` | do the rows agree, is consent honoured, is an unknown outcome admitted; are commits fenced; is the ledger an `EffectLedger` | 2 effects, 2 turns, 3 leases, revision < 12 | 326 k | @store |
| `session_runtime` | is an effect run once and its verdict true, with crashes, stalls, takeovers, cancellation, a tool call and a verification; are coordinators clients as SessionStore assumes | 2 coordinators, 2 turns, 2 leases, a tool call and a check; requests start, follow-up, switch, allow, input, cancel, reconcile | 965 k | @runtime |
| `session_live` | does a running turn end, is the lease returned, is an orphan resolved; are accepted prompts kept, in order and run at last, without faults | runtime: 2 coordinators, 1 turn, 2 leases, requests start, append, allow, deny, cancel; mailbox: 3 calls, 2 prompts, capacity 1; no symmetry | 174 k | @live |
| `progress` | safety and liveness of MCProgress's seven components | below | @nprogress | @progress |
| `components` | safety of MCComponents' twelve components | below | 603 k | @components |
| `contention` | safety of MCContention's six components | below | 1.18 M | @contention |
| `stale_cancel` | finding 1 | 2 coordinators, 2 turns | violated | |
| `queue_lost` | finding 2 | 2 calls, 1 prompt, fault `switch` | violated | |
| `entry_leaked` | finding 3 | 2 calls, 1 prompt, fault `duplicate` | violated | |
| `torn_header` | finding 4 | 2 drainers, 1 commit, 1 crash | violated | |
| `lock_left` | finding 5 | 2 models, 1 prompt, 1 switch, a fork | violated | |
| `import_unsettled` | finding 6 | 1 session of 2 turns, 1 native session | violated | |

What the properties of the suites say:

| module | invariants (conjuncts of `XCorrect`) | action and liveness properties |
|---|---|---|
| EventStream | `NoLostWakeup` | `ObserverFinishes` |
| TuiSession | `SubmittedIsKept`, `AnswerFitsQuestion` | `NoUnseenDecision`, `SettledSubmissionUnlocks` |
| ServerProcess | `AnnouncedTokenOpens`, `ExitTellsOutcome` | `CommandEnds` |
| TuiControls | `RunsWithShownModel`, `OnlyAForkLeaves` | `SwitchLockEnds` |
| ProcessSupervisor | `ObservedIsOver` | `SupervisionEnds` |
| ProviderClient | `OnlyTransientRepeats`, `AnswerIsWhole` | `CallReturns` |
| ConversationLog | `LogIsPrefix`, `DurableOrPending`, `DrainsAgree`, `ReadersSeeCommits` | `DurableStays`, `CardsReachDiskOrRefused` |
| TuiScreen | `RowsAreShared`, `DecisionInView`, `CaretInView`, `SelectionInView`, `HeaderInView` | |
| TuiTranscript | `TranscriptIsTrue`, `ResultsAreShownOnce`, `BlockingCardsHaveSubject`, `ProgressIsCurrent` | |
| TerminalGuard | `TerminalIsReturned` | |
| ToolRounds | `RoundsBounded`, `CallsRunInOrder`, `CallsAreAnswered` | |
| Verification | `EvidenceIsReal`, `EvidenceIsCurrent`, `NoUnverifiedEdit` | |
| History | `NothingForgotten`, `RequestIsProjection`, `CallsArePaired` | |
| SchemaBootstrap | `MigratedOnce`, `OpenIsCurrent` | |
| LegacyImport | `NothingMixed`, `OnlyLateTurnsAreLeft` | |
| ProviderBinding | `SentAsPromised`, `CallsComeBack`, `UnchangedStillServes`, `ContextFits` | `KeyStaysHome` |
| TextGuards | `TextsAreTame`, `CredentialsStayMasked` | |
| DirectTurns | `ApprovalIsSpentOnce` | `NoLateReport`, `CompletedIsChecked` |
| CommandService | `EffectOnce`, `AnswersAgree`, `KeysAreHeld` | |
| FileTools | `WritesStayInside`, `TempsAreOwned` | `OnlyTheWindowIsLost` |
| Catalog | `ListedOnce`, `UntouchedIsListed`, `GivesUpOnlyBeyondBound` | |
| SessionMailbox | with every fault `RunInOrder`; undisturbed also `PromptsKept`, `EntryHasOwner` | `AcceptedPromptsRun` (run `session_live`) |
| Reminders | `NewestIsKept`, `GivenOnce` (with the mailbox: `WaitingIsKept`) | |

The liveness properties of MCProgress are checked as one, `EveryWaitEnds`: since
one component moves, its `~>` is that of the component that moves.

### Bounds, and why they are enough

Bounds stop the users and the world, not the code: they are guards of creating,
acquiring, committing, editing, typing and crashing.

* Ledger and runtime: two turns for a stale snapshot to meet a newer turn; in the
  ledger three leases for an owner, its successor and the successor's successor, in
  the runtime two (that coordinators have a third as well is in `stale_cancel`, and
  proved for any number); two effects for one to be left behind while another is
  started.  `MaxRevision` of the runtime runs (40) is never reached.  Appending and
  denying are asked for in `session_live` only.  `Effects` bounds the tool calls of a
  turn; the code bounds the rounds only if `max_tool_rounds` is set, so that
  `SessionComesToRest` is about turns whose model stops calling tools.
* Mailbox: `session_live` has a queue of one and two prompts, so that it is full and
  is refilled by the drain; `contention`, which has the faults, a queue of two, two
  calls and two prompts, enough to see an order.  `disturbed` says whether the faults
  may happen in a behaviour, so that what holds only without them is stated in the
  same run.
* Reminders: two calls and two reminders, for one to be armed while the other is
  in the hands of a call; four changes of the session, for a turn, a wait, an
  answer and a rival.
* Conversation log: two drainers for a page of the outbox to go stale; room for
  two records, so that the file becomes too long while cards still come; one card
  that is too long itself; two crashes, one of which may fall into the repair of the
  other.
* EventStream: two sessions in two workspaces, a channel of two and one of one, so
  that both lag; requests that fail and logs that cannot be written.
* ServerProcess: one server on the port a client names and one that takes a free
  port, which may be the same.
* ProviderClient: three attempts, a deadline between the pauses, streams whose
  pieces interleave, repeat an id or come after the end.
* ProcessSupervisor: a leader and two forks, of which one ignores TERM and one
  is foreign.
* ToolRounds and History: one round more than the bound allows; a budget that
  some transcripts fit only after elision and some only after a summary; a source of
  three units and a page of four cards, both shorter than the transcript.
* Verification: two listed files, for one to be read before and one after a write,
  and one that is skipped.
* LegacyImport: two turns of a session, one on each side of an import.
* TuiControls, TuiSession: one session and its fork; TextGuards: every text of four
  pieces, with a cap below its length and one above.
* CommandService: two servers, two requests, one crash; DirectTurns: two
  holders, two effects, one edit; FileTools: two callers and three contents (one
  more than the callers write).
* TuiScreen: widths and heights on both sides of every threshold of the layout
  that a session can meet.
* Catalog: three rows, pages of one, two pages, so that the client's bound on
  pages is met exactly and exceeded.

Where a run has `CHECK_DEADLOCK FALSE` the system may really stop: all requests
of the bounded users are served, or the component has ended.  Symmetry is used
only in runs without liveness.

### Fairness

* `FairRuntime`: coordinators are scheduled (tokio tasks; what they await ends:
  provider calls have a deadline, executors a timeout), a lease whose owner is
  gone expires (time passes, nobody renews), and the sweeper runs (a ticker in
  `start_recovery_sweeper`).  Users, `Abandon`, `Crash` and the expiry of a live
  owner's lease get no fairness.
* `FairMailbox`: calls in progress are scheduled; users need do nothing.
* `FairLog`: every opening engine, every read and every commit drains, so
  drainers keep coming; strong fairness on the lock says that the operating
  system does not pass over one waiter for ever.  Crashes are bounded.
* `FairEvents`: the observer's loop, the bridge and the sweep (tasks and a
  ticker), and the sending of an event that a task has in hand.
* `FairTui`: the terminal loop, which polls with a timeout; the server answers
  requests, the turn settles.  Keys get none.
* `ServeFairness`: the client's steps, the acceptance and the end of the turn
  (`RunningEnds` of SessionRuntime), the draining of an ending server, which the
  code bounds in time.  `serve` processes of others get none.
* `ControlsFairness`: wake-ups, the answers of the server and their delivery.
* `FairSupervisor`: the supervisor's own steps, and the death of a process that
  was sent a KILL it cannot ignore.
* `FairProvider`: the steps of the call, the passing of time; the provider
  itself may stay silent for ever.

All of it is weak fairness, except for the lock of the log.

## 4. Findings

1. **A stale cancellation reaches the next turn** (`stale_cancel`).
   `cancel_durable` compares the caller's revisions with a snapshot loaded
   before it locks the active map and never again; the token it then finds may
   be the next turn's.
2. **Accepted prompts are lost** (`queue_lost`).  No lease is held between the
   end of a turn and its drain; a model switch in between makes the drain's
   follow-up fail, and the error drops the guard, the popped prompt and all
   others without an audit card.  The same property also fails with
   `Faults = {"refused"}`: a prompt checked against an old lifecycle is pushed
   into the entry of a follow-up that is then refused.
3. **An entry is left behind** (`entry_leaked`).  The later of two answers to one
   wait re-creates the entry of a finished turn and keeps it when its commit is
   refused.
4. **A torn header is final** (`torn_header`).  A crash between the two writes of
   the header leaves a file that every later drain refuses, though the outbox
   still has every card.  `CardsReachDiskOrRefused` shows what else is refused: a
   file over `MAX_FILE_BYTES`, and a card over `MAX_RECORD_BYTES` with all that come
   after it (`RefusedForGood`).  Of files that only this code has written, nothing
   else keeps a card from the disk.
5. **A fork leaves the lock of a model switch behind** (`lock_left`).  `/fork` is
   answered asynchronously and leaves no mark while it is under way; its answer opens
   the fork without asking `session_switch_available` (`tui session.rs` 4889–4892).  A
   switch of the model asked for in between stays locked on the session that was left,
   and `reconcile_pending_model_switch` (1915–1930) looks for it only in the session in
   view.  `OnlyAForkLeaves` shows that nothing else leaves the session, and
   `SwitchLockEnds` and `SettledSubmissionUnlocks` except exactly this.
6. **A repeated import leaves turns and rows unsettled** (`import_unsettled`).  The
   re-import (`storage.rs` 991) skips the collision check and inserts with
   `INSERT OR IGNORE`: the active-turn row that recovery deleted is put back and names
   a turn that is over, so that every follow-up is refused; or the row is there and the
   one of the older program's next turn is ignored, so that `recover_at` (5066–5101)
   never finds that turn.  `OnlyLateTurnsAreLeft` is what does hold.

### Other observations

The following were met while modelling.  Each is a behaviour of the code that a
stronger property would refute; no run states it, and each is described where it
is modelled.

* Two workspaces open in one server: the sweep of one engine recovers sessions
  of the other and announces them on its own channel only, and stops at the first
  session of another workspace (`engine lib.rs` 1279–1286), so clients of the other
  are not woken.  The comment there and the one of the test at 3770–3776 say that the
  sweep wakes them.  A commit that takes effect while the log cannot be written is not
  announced either.  EventStream has both (`unheard`), and its properties except them.
* The redaction is not idempotent: `[token=abc]` becomes `[token=[REDACTED]]`, and a
  second pass takes the bracket that is glued to the mark for a part of the value:
  `[token=[REDACTED]`.  The comment at `latte-core/src/session.rs` 579–593 and the
  test `redaction_is_idempotent` say that a second pass changes nothing.
  `CredentialsStayMasked` states what holds: no credential is shown again, and a
  third pass changes nothing.
* The source of a summary is cut at `max_summary_source_bytes`, newest card first
  (`session.rs` 2686–2735), so that what the new summary replaces, the previous
  summary included, may never have been shown to the summarizer, and the prompt of
  the request is only folded in if there is room.  `docs/design/context-design.md`
  73–74 says that the source must contain the prompt that led to the request
  ("摘要源必须包含…触发本次请求的 prompt").  `NothingForgotten` excepts summaries of a
  curtailed source.
* A gateway's 408, 502 or 504 is repeated like a 429 (`provider.rs` 671, 556–567), so
  a prompt that the upstream has begun may be worked on, and charged, twice.
* A session forked in the middle of a round has a call whose answer never comes
  (`storage.rs` 2697); `CallsArePaired` excepts it (`severed`).
* A prompt that was submitted when the answer of a fork arrived stays pending in the
  session that was left, and its composer is locked when the user comes back.
* A turn may write files that the manifest skips and complete without evidence.
* The verdict of the process supervisor is recorded as observed also when the program
  could not be started (`process.rs` 331–335): `LedgerIsTruthful` reads "ran" as
  "handed to the executor".
* `http.rs` 545: a handler that is dropped between reservation and spawn leaves a
  pending slot behind, and every repetition at that server is refused until it ends.
  `KeysAreHeld` shows that a key is stuck in no other way.
* `process.rs` 123–130: `cancelled()` looks at the flag before it registers for
  the notification, so a cancellation in between is noticed only by the deadline.
* `session.rs` 128–130: the deadline of a provider call bounds the wait for the
  headers and the pauses; a body that has begun is bounded by the transport's own
  timeout only, so a call may outlast its deadline by that much.
* `session.rs` 2146–2148: the token is not polled while an inline body is read,
  so a cancelled call may still return an answer, which is then used.
* `session.rs` 3656–3658: the effect id of a call contains the sequence of its
  reply "to prevent a later response reusing an ID from colliding", but the source
  key at 3672 does not: a call id repeated at the same place of a later reply of
  the turn is refused by the ledger.
* `session.rs` 2326–2328, 4107–4109: a compaction card whose source key the turn
  has already used is refused by the ledger, and the turn ends though its request
  would have fitted.
* `storage.rs` 1155–1170: the import rebuilds the round counters of every turn,
  native ones included, from the outbox, which holds only the cards that no drain
  has taken yet, and so resets them; a permission that was pending in the older
  database cannot be granted after the import.
* `tools.rs` 711–723: the digest that a read reports is of a second read of the
  file, so it may not be the digest of the content it reports.
* The lock of a model switch ends with a snapshot that shows the chosen model; a
  rival switch can hide it for ever (`SwitchLockEnds` says so in its exception).
* The layout: a scroll key may have no visible effect; pickers do not scroll to
  their selection; below six rows the blocking card is not shown although its
  keys decide; at some sizes the reason of a refusal is hidden.
* A panic of a background thread restores the terminal while the interface goes
  on drawing.
* Redacting a text whose marks exceed the cap truncates it a second time.
* Providing input loses an armed reminder when the provider's configuration or
  the lease is refused (`session.rs` 1841–1843).  When two calls hold a reminder
  each, the older one that is given back first keeps the newer out.  The comment
  at 1813 speaks of a reminder armed while a turn is parked, which `set_reminder`
  refuses; it can be armed before a turn of another process parks.

A prompt queue is process-local, so the death of the process loses it by design.
After a reconciliation the session is failed for good, which is what makes
`OneExecutor` hold although an executor may outlive its coordinator.

## 5. Proofs

The theorems hold for every value of the constants: any number of sessions,
effects, leases, drainers, processes, servers, and any bound.

### What is proved

| module | theorem | of | states |
|---|---|---|---|
| SessionStoreProofs | `TypeCorrect`, `SessionConsistent`, `ConsentSafety`, `EffectSafety` | SessionStore | `TypeOK`, `LifecycleAgrees`, `StartedWithConsent`, `ReconciliationMatchesUnknown` |
| SessionStoreSteps | `FencingSafety`, `RecoverySafety` | SessionStore | `CommitsAreFenced` (an action property), `InFlightIsRecoverable` |
| | `RefinesEffectLedger` | SessionStore | `ImplementsEffectLedger` |
| SessionRuntimeProofs | `RuntimeRefines` | SessionRuntime | `ImplementsStore` |
| | `ExecutionSafety`, `LedgerTruth` | SessionRuntime | `EffectsRunOnce`, `LedgerIsTruthful` |
| HistoryProofs | `HistorySafety` | History | `HistoryCorrect` |
| ProcessProofs | `SupervisorSafety` | ProcessSupervisor | `ProcessSupervisorCorrect` |
| | `GuardSafety` | TerminalGuard | `TerminalIsReturned` |
| | `ExitSafety`, `ServerSafety` | ServerProcess | `ExitTellsOutcome`, `ServerProcessCorrect` |
| | `RoundsSafety` | ToolRounds | `ToolRoundsCorrect` |
| | `VerificationSafety` | Verification | `VerificationCorrect` |
| EngineProofs | `SchemaSafety` | SchemaBootstrap | `SchemaBootstrapCorrect` |
| | `ImportSafety` | LegacyImport | `LegacyImportCorrect` |
| | `StreamSafety` | EventStream | `EventStreamCorrect` |
| | `LogSafety`, `LinesStay` | ConversationLog | `ConversationLogCorrect`, `DurableStays` (an action property) |
| ContentionProofs | `MailboxSafety` | SessionMailbox | `MailboxCorrect` |
| | `RemindersSafety` | Reminders | `RemindersCorrect` |
| | `ServiceSafety` | CommandService | `CommandServiceCorrect` |
| | `FileToolsSafety`, `WindowOnly` | FileTools | `FileToolsCorrect`, `OnlyTheWindowIsLost` (an action property) |
| | `CatalogSafety` | Catalog | `CatalogCorrect` |
| | `DirectSafety`, `ReportsAreFenced`, `CompletionIsChecked` | DirectTurns | `DirectTurnsCorrect`, `NoLateReport`, `CompletedIsChecked` (action properties) |
| | `WaitingSafety`, `CommandsSafety`, `NoStep` | MCContention | `WaitingIsKept`, `ServiceCorrect`, `NoStaleStep` |
| ClientProofs | `BindingSafety`, `KeyIsKept` | ProviderBinding | `ProviderBindingCorrect`, `KeyStaysHome` (an action property) |
| | `ProviderSafety` | ProviderClient | `ProviderClientCorrect` |
| | `ControlsSafety` | TuiControls | `TuiControlsCorrect` |
| | `UiSessionSafety`, `DecisionsAreSeen` | TuiSession | `TuiSessionCorrect`, `NoUnseenDecision` (an action property) |
| | `ScreenSafety` | TuiScreen | `TuiScreenCorrect` |
| | `TranscriptSafety` | TuiTranscript | `TuiTranscriptCorrect` |
| | `TextSafety` | TextGuards | `TextsAreTame`, a part of `TextsAreHarmless` |

Together `RuntimeRefines`, `RefinesEffectLedger` and `ExecutionSafety` give the
promise of the core from the coordinators down: what they do is a behaviour of the
ledger, the ledger's behaviours are those of EffectLedger, and what the ledger
says began is what ran, once.

### Assumptions and hypotheses

* `None` is not an effect (TurnState); the bounds are natural numbers
  (SessionStore).  `Effects` need not be finite.
* `GuardAssumption` (TerminalGuard) and `DirectAssumption` (DirectTurns: the
  identifier "no effect" is no effect, the effects asked for are finitely many, the
  bounds are natural numbers); the assumptions of the other modules are of the
  same kind.  TLC evaluates each in a run.
* `MaxRevision` bounds SessionStore, and every `Step` of a coordinator has it in
  its guard: without it the two modules would stop at different places.
* `MaxTurnsEach` (LegacyImport) is at least one.  No theorem has a hypothesis of its
  own: servers may be on any ports, workspaces may be several and logs unwritable,
  transcripts longer than any page, summaries made of any part, sessions forked at any
  time.  Where the code keeps less for it, the property says so: the token of another
  port may replace a token (`AnnouncedTokenOpens`), an end announced to nobody wakes
  nobody (`NoLostWakeup`), a curtailed summary and a fork in mid-round may lose cards
  (`NothingForgotten`, `CallsArePaired`).

### The arguments

**SessionStore.**  None of the invariants is inductive alone.  `IndInv` adds

* `Fences` — no token of a turn is above the epoch, and the lease row carries the
  newest one;
* `Chronology` — turns are numbered without gap up to `latest`, later ones are
  empty;
* `EffectWellFormed` — status, outcome, policy and consent of an effect fit;
* `PreparedIsCurrent` — a prepared effect belongs to the turn in flight, and
  under policy Ask the turn is parked on it until consent is given; or it was
  left behind by an interruption after which the session never runs again;
* `OneInFlight` — one prepared or started effect per running turn; this is where
  `NothingInFlight` is used.

The proof has one lemma per action.  It is split into `TurnInv` (no effects) and
`EffectInv`, because most actions leave one of them alone; field-by-field lemmas
about the transitions of a turn and about the two shapes of
every commit (`Proceed` keeps the turn in flight, `Conclude` ends it) keep the
leaves small.

**Its steps.**  A new lease must be above every token in use, which needs
`TokensIssued`: no digest and no capability names a token above the epoch.  Each
action is then shown to satisfy `StepMovesOn`: authority passes to newer tokens
only, the revision goes up whenever anything that others compare changes, a
finished turn is not touched.  The refinement maps status, outcome and consent of
an effect to EffectLedger's state; each action is one of its steps or a stutter.

**SessionRuntime.**  `StoreInv` is `IndInv` with what the ledger assumes of its
clients: no coordinator is ahead of the ledger, one that has closed what it had in
hand and whose snapshot is still current finds `NothingInFlight` (`HandsAreEmpty`),
and one at work on an effect knows which.  `WorldInv` relates ledger and world:
one effect in the life of a session may be running or in doubt (`OneDoubt`); what
ran is recorded as started or later, and what is recorded as observed ran
(`RanIsRecorded`); and one coordinator stands between a start and its execution,
with nothing executed yet, whatever was done to its turn meanwhile
(`StarterIsAlone`).  That last part is why a stalled owner that wakes up after
recovery still executes at most once.

**SessionMailbox.**  `OrderInv` holds under every fault: prompts that ran, those
in the hands of a drain and those in the queue are in the order in which they were
accepted, and no two drains have the same snapshot, so one of them loses the
compare-and-swap.  `DutyInv` holds while nothing disturbs the mailbox: at most one
call is responsible for the session (`Active`), the session looks as that call
left it (`Fits`), and an entry of a session that waits for nobody has such a call.

**ConversationLog.**  A drainer works on a page of the outbox that may be old.
`Page` says what it is worth: it covers the cards up to its greatest without a
gap, and what it lacks of them is on the disk.  `Stands` says what the file looks
like at each place of a drainer, and that its place and the lock agree.  That an
old page repeats a line and never skips one follows; so does that the checks of
`sync` for damage never fire.  That a nonempty set of naturals has a least element
is proved from the well-foundedness of the order, since `Min` is a CHOOSE.
`DurableKept` shows each step to keep what was synchronised, and serves invariant
and action property.

**History.**  The projection is computed card by card, so what it is has to be said in
another way first.  The segments are a `Row`: consecutive intervals of the cards of the
exchange, each but the first begun by a prompt, the first behind the newest summary
(`ScanFits`, by induction over the transcript).  Laid flat they are the summary and then
every card of the exchange from the verbatim part on (`WholeIs`), and a boundary between
two segments is a place in the transcript (`PlaceIs`).  With that the invariant needs no
segments.  `ScriptFits`: the newest summary stands for the cards of the exchange before
the verbatim part, unless some summary was curtailed (`StandsFit`); a summary of a
summary inherits this (`SummaryIs`), and that is where a retained prefix could be lost.
`CardsFit`: a request
holds the cards from some place on, or all that is verbatim behind the summary, or the
summary of everything with the prompt that it was made for.  `SkeletonsFit`: of the
verbatim results those are skeletons that an elision names.  Every step puts cards at
the end, so each action is one or two applications of "a card more" (`GrowOrdinary`,
`GrowSummary`, `CardsGrow`, `SkeletonsStay`).  `AnswersFit` says which calls are without
an answer: those that a fork severed, and the last card of a session that waits for a
permission; between an answer and its call there is nothing (`CardFits`), so the two are
neighbours in every projection that has one of them (`PairsAre`).

**ProcessSupervisor, TerminalGuard, ServerProcess.**  `SupervisorInv` says what the
supervisor knows at each stage; from `drain` on the group is over, and it stays so
because what is forked is in the group only if its parent is.  `GuardInv`: what was
committed and not undone is recorded, and stages that restoration has not come to
are `Untouched` (`Recorded`); the guard never goes back (`OneWay`).  `ServersInv`: a
port has one listener, so that a server that publishes its token is the only one at its
port.  `CommandInv`: a command observes a turn only after its
submission was accepted.

**ToolRounds.**  `RoundsInv` says what is settled at each place of the driver
(`Settled`, `RanBefore`): every call before the place in hand has its result in its
card, and none after it was prepared.  The call that is parked is the one prepared
call of the newest card, which is why the resumed driver finds it.  When the provider
is asked again the place in hand is past the newest card, so every call has its result.

**Verification.**  A digest is taken file by file while others write.  Versions only
grow (`Growing`), so two equal reads agree with the tree at the instant between them:
what the first read of a file is no newer than it was then, what the second read is no
older (`Sampled`).  That makes the evidence real.  That it is current is proved by
contradiction: a write between the samples makes `steady` false, and from then on some
file has a version, in the tree or already read, newer than the one in the evidence
(`Spoilt`), so the two digests differ and the completion is refused.  `OwnDiffers`
carries a turn's own edits to the comparison with the baseline in the same way.

**SchemaBootstrap, LegacyImport.**  The migrations applied are `1..userVersion`
after every step, and what a process read of the version may be old, never ahead.
From the first import on, every row under an imported identifier is one that an
import brought.  `RowFits`: the active-turn row finds every turn at work that was there
when its session was brought, or was opened here; what a later import adds is what it
need not find.

**EventStream.**  A wake-up is somewhere on its way (`Awake`): unsent, in the line
of its workspace, counted as lag, or in the stream.  `EventInv` follows it along
over lag, eviction and reconnection until the observer reads again, unless the change
was announced to nobody.

**DirectTurns.**  `Tokens`: the lease in force has the greatest token handed out.
`CallFits` and `ProofFits`: as long as the lease of an execution is in force,
nothing was started after that execution, by anybody.  `LogFits`: an effect is
carried out once and with the binding it has.  `EpochsCount`: the epoch of a turn
counts the approvals it has spent, so that an approval given for an earlier epoch
fits nothing any more.  TLC checks `DirectInv` on the instance of the run
`contention`, too (2.9 million states), though no run lists it.

**Reminders.**  A reminder is in one place (`OnePlace`): no two calls hold one and
the same, and one that was given to a turn is neither in the slot nor in a hand.
`NewestWaits` is needed because what was given back must not cover what was armed
meanwhile: as long as no two calls held one at a time, what is in the slot is the
newest, and one that was taken is the newest unless the slot was filled since.

**CommandService.**  A command is remembered in many places: the ledger of each
server, the acceptance a turn signals, the answers sent, the turns begun.
`ServiceInv` says that each of them agrees with its durable record, which is made in
the same commit as the turn and never changes once it is accepted.  So neither a
replay nor a crash between record and answer can produce a second turn or another
revision.  `KeysAreHeld` is inductive by itself: a key is taken with the handler that is
to answer it, and left only with the answer, the handler or the server.

**FileTools.**  Contents are numbered in the order in which they are made, so the one
outside of the workspace is never a tool's.  `FileCallFits` says what the file may
hold between the check of a call and its rename: what was compared, or one of the
contents noted as written since.

**Catalog.**  Keys are totally ordered (`KeyOrder`).  That `ORDER BY` has a row for
every place follows from the number of rows above a row being injective on a finite
set, hence onto the places (`OrderedRows`).  `PagingFits`: nothing a listing got lies
below its cursor, and what it owes lies there or was got.  A commit stamps a row with
the greatest time, so rows leave what lies below the cursor and never enter it.

**MCContention.**  Each step of the composition is a step or a stutter of every
component (`ComponentSteps`), so that what is proved of the components holds in the
specification TLC checks.

**Induction.**  The library's induction theorems take an operator as a parameter and
cannot be used.  `LeastNumber` (a set of naturals that is not empty has a least
element) takes a set, so it can: an induction becomes a proof that the set of numbers
for which the claim fails has no least element.  `IterationExists` derives from it that
a recursive function over `0..N` exists, which TLA+ does not grant by itself: a
recursive definition is a CHOOSE.

**ProviderBinding.**  `BindingInv`: a session was promised what its binding was computed
from, with tools of a binary that came before (`SessionFits`); what was sent is what the
registry, still open, makes of the model (`SentFits`).  That the context fits is an
induction over the sections (`BundleFits`): the bundle is within the cap after each of
them, and truncated exactly if one is missing.

**ProviderClient.**  `RequestsFit` counts requests against attempts: while another may
follow, the last one was transient, and the stream is given up once.  `ReadingFits` says
that the assembly holds the first k events of some stream and the rest is still to come.
`Gathered` is what was gathered of one text or call after each event; that the end mark
finds in it what `Pieces` says is `PiecesGathered`, by induction over the events.

**TuiControls.**  Every change of the session moves its revision (`HostedMoves`), so what
the panel was shown at a revision is the session's model as long as the revision is
(`UpToDate`).  `AskFits` carries that with a request under way, and the revision fence of
the server does the rest: a follow-up that is served runs with what was shown.  The answer
of a fork is under way only once the fork exists (`ForkIsMade`), and what is waited for
belongs to the session in view or to the one it was forked from (`Near`).

**TuiSession.**  `TuiInv` relates the client to the server.  What was submitted is a
card of the session or what is pending, and if nothing is pending it is in the composer
(`DraftFits`).  What the input form holds belongs to its target (`FormHolds`), its target
is the request in view (`AtRequest`), and once the form was used no session is still to
be opened (`Started`), so an answer cannot meet another question.  Views are prefixes of
the session's cards (`ViewFits`), which only grow (`Continues`).  `Tick` drains every
answer in one step; that draining keeps all this is an induction over the answers
(`DrainedFits`).  A decision is on the request that was rendered, and what was
rendered is in a frame, whence `DecisionsAreSeen`.  TLC checked `TuiInv` with two
requests and every fault (2.3 million states) before it was proved.

**TuiScreen.**  The invariant of the steps is small (`ScreenInv`); the argument is about
one frame.  Whatever the text, the editor asks for at most four rows more than one, which
is what the layout depends on (`LayoutRows`, `RowsOf`); that the text has a caret at all
is an induction over its graphemes (`LayoutFits`).  From there it is arithmetic over
every width and height: the rows add up (`RowsShared`), and the card, the caret, the
selection and the header each find the rows they need (`DecisionFits`, `CaretFits`,
`SelectionFits`, `HeaderFits`).  TLC looks at nine sizes of terminal, the theorem at all
of them, so also at the tall ones (28 and 52 rows) where the welcome changes its shape.

**TuiTranscript.**  The cards of one call come in the order call, started, answer, each
once (`CardsFit`), tell nothing that did not become of it (`CardFits`), and what did
become of it has its card (`FatesFit`).  All three pass to the end of the cards, however
short (`SuffixFits`): what follows a card in the transcript follows it in the tail.  So
they hold of every view the UI can hold, and what it shows is settled by them: after k
cards each item is what the first k cards say of its call (`ItemFits`), no two items are
of one call (`ItemsFit`), and one card more keeps that (`FoldFits`).  That an answer
finds its own call although ids recur in other turns is `OneCall`.

**TextGuards.**  The state is one text; what has to be shown is that the filters, which
are recursive from the end of a text to its beginning, keep their promises for every
text.  `TableExists` grants such a recursion its table of results, and `Downward` is the
induction over it.  The masks that the three patterns put in hold no control, and what
they leave is of the text, so that what the filter removed stays out (`MasksFit`,
`ReplacedClean`).  A frame could appear where a bracket meets what is left behind it:
`EscapedClean` carries that up to its first bracket or mark the escaped text is the text
itself (`Verbatim`), so that such a frame was there before (`FrameWasThere`).

### Only model-checked

Every invariant and action property of the passing runs is stated by a theorem, but
for one half of `TextsAreHarmless`.  What stays with TLC:

* All liveness, which like `ENABLED` is out of the prover's reach.
* `CredentialsStayMasked`: that no credential is shown, and what further passes change.
  What one pattern's mark exposes to the next depends on the words on both sides of it;
  TLC looks at every text of four pieces.

## 6. Not modelled

* `engine configuration`: a parser without state; its values are the bounds and
  choices of the modules.
* Wire formats, routing, argument parsing, output formats, colours, wording,
  markdown, fuzzy ranking of suggestions.
* Byte and token estimates: sizes are units; `ProviderBinding` keeps the rounding
  of bytes to tokens, where a limit depends on it.
* The contents of imported cards, counters and outbox rows (LegacyImport).
* Quoted values, brackets other than `[` and `]`, and separators other than `=` in the
  redaction's first pattern (TextGuards).
* The order of the file system's answers inside one `CheckFresh` (FileTools), which the
  code makes with several calls; what others write between the check and the rename is
  modelled.
* That a base address and an endpoint are joined (ProviderBinding has one field for
  both), and a wall clock that goes back (Catalog stamps a commit with the greatest
  time; `now_ms` is read before the lock, so that two commits close to each other may
  carry their times the other way round).
* Lines of the conversation log that other programs have written.
* The rows that a migration rewrites; which migration runs, and how often, is
  SchemaBootstrap.
* Listing, searching and shell tools other than as effects and supervised
  processes; the verdict of a policy is a choice.
* The audit card of a discarded queue (its prompts are marked `discarded`).
* Operations that are compiled for tests only (`#[cfg(test)]`): `start_effect`,
  `append_event`, `reconcile_unknown_and_abort` and their like.
* That a content digest never recurs is assumed (FileTools, Verification).
