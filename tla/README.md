# A formal model of the cerase-acp bridge

The bridge connects people on chat channels (Discord, Slack, Telegram, Google
Workspace Chat, the console) with AI assistants. For each pair of an assistant
(*agent*) and a person (*user*) it keeps one ACP child, a `docker exec` into the
assistant's slot, and one conversation of the opencode runtime behind it. The
program is one Node process: everything concurrent in it is the order in which
the event loop runs the pieces of code between two `await`s.

This directory holds TLA+ modules of the parts of the bridge where that order
matters, TLC configurations that check them on small instances, and proofs that
TLAPS checks for every value of the constants. `PROJECT.json` maps every
definition to the lines it models, lists the hazards of the code and says which
property covers which.

## 1. Inventory

| Part | State it keeps | Operations | What is hard |
|---|---|---|---|
| Session manager (`session-manager.ts`) | the map of sessions, the spawns in flight, the agents, the limits, one `SessionEntry` per child | `prompt`, `promptAlongside`, `registerAgent`/`replaceAgent`/`removeAgent`, `applySession`, `stopStartingTurns`, `shutdown`; handlers of the child's exit, the idle timer, the watchdog | children that die, hang or answer late at every await; a map entry read before an await and used after it |
| Prompt queue (`prompt-queue.ts`) | the items not started, the running flag, the error it was flushed with | `enqueue`, `flush`, `drain` | a flush while an item runs and more are queued |
| Resumable sessions (`resumable-sessions.ts`) | the opencode session id of each pair, in memory and in a file | `get`, `remember`, `forget` | what is recorded when exit, eviction, reload and restart race |
| Dispatcher (`dispatcher.ts`) | the running turns, the held turns, the messages kept for the next bridge, the answered ones | `handleMessage`, `runTurn`, `stop`, `replayPending` | turns held through a restart in order; messages sent into the work in progress; a stop at any await |
| Pending messages (`pending-messages.ts`) | the file of messages a stopped bridge kept | `keep`, `take`, `replayPending` | a crash between taking a message and answering it; two bridges |
| Kept replies (`kept-replies.ts`, `bridge.ts`) | the replies of each person whose channel was down | `keep`, `deliver`, `forget` | a channel that comes and goes while replies are being delivered |
| Send queue (`send-queue.ts`) | chunks waiting per channel, retries, the failed state | `enqueue`, `drain` | a lost chunk, the retries of later ones, one failure marker |
| Stream buffer (`stream-buffer.ts`) | the text of the running turn not sent yet | `push`, `flush` | what is held back when the turn ends early |
| Note coalescer (`note-coalescer.ts`) | the notes waiting for a conversation's turns | `submit` | a note that arrives as the turn it waits for ends |
| Adapter supervisor (`adapter-supervisor.ts`) | retry timers, terminal failures | `start`, `scheduleRetry`, `attempt`, `cancel`, `stop` | a `start()` in flight that nothing cancels |
| Config reload (`config-reloader.ts`, `config-diff.ts`, `bridge.ts`) | the chain of reloads, the configuration in force | `applyReload`, `applyConfigDiff` | a reload while children start, while adapters start, while the bridge stops |
| Turn status, status line (`turn-status.ts`, `status-line.ts`) | the step the turn is at, timers, the chain of calls of one posted message | `toolStarted`, `toolUpdated`, `compacting`, `passed`, `show`, `close` | posts, edits, moves and the delete of one message in order, each of which may fail done or undone |
| Typing indicator (`typing-keepalive.ts`) | one keepalive for each person | `start`, `end` | a refresh still on its way when the message is posted |
| Reachability (`reachability.ts`) | the time of the last contact | `note`, `tick`, `snapshot` | a probe that never answers; one missed probe |
| Discord (`discord-adapter.ts`) | the client, the DM channels, the keepalives, the monitor | `start`, `stop`, `onMessage`, `makeSendTarget`, `sendFile`, `sendNotice` | a login that is never answered; a fresh client in the middle of a send |
| Google Workspace Chat (`workspace-chat-*.ts`) | the queue of writes of each space, a placeholder for each turn, the remembered spaces | `write`, `runTurn`, `deliver`, `resolveSpace` | one write at a time for each space through refusals, waits and token renewals |
| Internal server (`internal-server.ts`) | the scheduled turns it runs detached | `inject` | the second try of a turn that failed |
| Slack, Telegram, the console, control-plane calls | sockets and HTTP | inbound messages, `send` | I/O; their outcomes are inputs of the parts above |
| Text filters, metadata, attachments, configuration, CLI | none that outlives a call | pure functions and file transfer | wording and layout |

How they interact. A channel's adapter calls `Dispatcher.handleMessage`, which
runs a turn: it asks the control plane for credit, then calls
`SessionManager.prompt` (or `promptAlongside`, when the person writes while the
assistant works), whose `onUpdate` callback feeds the turn's stream buffer, whose
chunks go through the send path of `bridge.ts` (kept replies, send queue) back to
the adapter. The session manager throws typed errors back up
(`SessionRestartError`, `TurnWatchdogError`, `BridgeStoppingError`,
`SessionOutgrownError`), on which the dispatcher holds the turn and sends it
again, keeps the message for the next bridge, starts over, or reports a failure. A
change of `agents.yaml` goes through `bridge.ts` to the session manager
(`replaceAgent`, `removeAgent`, `applySession`) and to the supervisor. A stop goes
to the dispatcher first, which tells the session manager to start no turn, waits
for the turns that run, and then the session manager is shut down.

What makes each part correct:

- Session manager: no child is leaked; a prompt is sent at most once per call and
  never dropped; a session the bridge ended is sent nothing; the map stays within
  `session.max_concurrent`; a pair's conversation goes on whatever happens to its
  child; every prompt is settled; no turn starts while the bridge stops.
- Prompt queue: order, and each item settled once, also behind a flush.
- Dispatcher and pending messages: each message is answered at most once, by this
  bridge or by the next; held turns go in the order they came; a message the
  assistant never saw is not lost.
- Kept replies and send queue: replies to a person are delivered in order, each at
  most once; one failure marker for a loss; a kept reply is sent once it can be.
- Stream buffer: no piece is cut inside a marker, no summary reaches the person in
  pieces, a finished text does not wait for more.
- Turn status: one line of a turn in the chat, below the answer, that names the step
  the turn is at and is gone at its end.
- Workspace Chat: each turn ends its own placeholder; every write of a space ends.
- Discord: no typing indicator behind the message; one missed probe is not silence;
  every send ends.
- Note coalescer: a note is given to the assistant once, and waits only for turns
  that ran when the batch opened.
- Supervisor and reload: the bridge holds the adapters of the file; a failed one is
  tried again and a refused one is not; what is reported is what the channel is; a
  reload is applied after the ones before it, and no adapter is started after a stop.

## 2. Plan

| Order | Module | Models | State |
|---|---|---|---|
| 1 | `SessionManager`, `MCSessionManager` | session manager, prompt queue, resumable sessions, what a reload does to sessions | done |
| 2 | `SessionManagerProofs` | its types, its inductive invariants, seven properties for every instance, and that it implements `PromptCalls` | done |
| 3 | `PromptCalls`, `SessionManagerCalls` | what `prompt()` promises its callers, and that the session manager keeps it | done |
| 4 | `Dispatcher`, `MCDispatcher`, with the pending messages, the note coalescer and the second try of a scheduled message | one conversation: turns in order, holds, messages alongside, follow-ups, stop and replay by the next bridge, over `PromptCalls` | done |
| 5 | `DispatcherProofs` | the line of turns, the order of the kept messages, what is given to the assistant and what was answered, for every instance | done |
| 6 | `Adapters`, `MCAdapters`, `AdaptersProofs` | the adapters at boot, the supervisor, the chain of reloads, the stop of the bridge, with proofs | done |
| 7 | `Delivery`, `MCDelivery`, `DeliveryProofs` | the send queues, the send path and the kept replies, over a channel that comes and goes, with proofs | done |
| 8 | `ReplyStream`, `MCReplyStream`, `ReplyStreamProofs` | where the text of an answer is cut, held back and withheld, with proofs | done |
| 9 | `TurnStatus`, `MCTurnStatus`, `TurnStatusProofs` | the line that says what the turn is doing, with proofs | done |
| 10 | `WorkspaceChat`, `MCWorkspaceChat`, `WorkspaceChatProofs` | Google Workspace Chat: paced writes, placeholders, notices, remembered spaces, with proofs | done |
| 11 | `Discord`, `MCDiscord`, `DiscordProofs` | Discord: login, channels, typing, the measurement of its silence, with proofs | done |

A reply goes through these in the order 4, 8, 7, and 10 or 11. The modules meet in what
they promise each other and are not run together: `Dispatcher` stands on
`PromptCalls`, which `SessionManager` implements; `ReplyStream` gives `Delivery` its
chunks, and how many there are and what they carry is free there; `Delivery` takes a
channel that answers, refuses, goes and comes, which is what the adapters are.

What is left: Slack and Telegram, should they come to keep more state than their clients
do. Every safety property of the runs is proved (section 13); the liveness properties stay
with TLC.

## 3. The session manager

`SessionManager.tla` models `src/src/session-manager.ts` with `prompt-queue.ts` and
`resumable-sessions.ts`. One action is what the event loop runs between two awaits.

### State

| Variable | In the code |
|---|---|
| `entries` | `entries`, the map of sessions, by pair |
| `spawning` | `inFlightSpawns` |
| `resumable` | the `ResumableSessions` map and its file |
| `session` | for every child ever spawned: its handshake (`phase`), its opencode session (`convo`), the id the runtime did not load (`refused`), and the flags of its `SessionEntry` and of its process: `killed`, `exited`, `aborted` (the connection's signal), `closed`, `byBridge` (`closedByBridge`), `outgrown`, `flushed` (the queue's error) |
| `queue`, `turn` | each session's `PromptQueue`: the items not started, and the one that runs with how far `runPrompt` is |
| `prompt` | where each call of `prompt()` or `promptAlongside()` is |
| `lastTurnAt` | the order of the mapped entries' `lastTurnAt` |
| `known`, `revision`, `limit` | `agentsById` and which configuration of each agent is in force, `maxConcurrent` |
| `stopping`, `down` | `stopStartingTurns` and `shutdown` were called |
| `spawned`, `reloads`, `restarts` | the three bounds |

Children are numbered as they are spawned and a conversation carries the number of
the child that created it; a later child that loads it has the same `convo`.

### Actions

- **Finding a session** (`prompt`, lines 930–1000): `PromptRefused`,
  `PromptJoinsSession`, `PromptJoinsSpawn`, `PromptSpawns`. An entry that is being
  ended or whose connection closed is dropped from the map on the way, its id kept
  (`DropStale`). A prompt that waits for a spawn is held in the queue of the child
  being spawned, where the code holds it in the promise of `inFlightSpawns`: the
  continuations of one promise run in the order they were attached, and nothing
  else can be queued on that child before.
- **The handshake** (`spawnAndInit`): `Initialized`, `SessionLoaded`, `LoadFailed`,
  `SessionCreated`, `HandshakeDone`, `HandshakeFails`, `SlotAnswersStart`.
  `HandshakeDone` is also where the waiters resume: each makes room
  (`evictForCapacity`), maps the entry and queues its prompt. The second waiter makes
  room with the entry of its own pair already in the map, which can evict one
  session more than needed; the action has both passes.
- **The queue and the turn** (`PromptQueue`, `runPrompt`): `RefuseNext`,
  `ReadSummary`, `SummaryRead`, `SendTurn`, `RpcReturns`, `StartDrain`,
  `TurnAnswered`, `AgentFails`, `ConnectionLost`, `SlotAnswersTurn`, `Outgrows`,
  `WatchdogFires`. The turn goes from `rpc` (session/prompt sent) to `joining`
  (waiting for the prompts alongside) to `drain` (late chunks and reconciliation),
  or to `asking` when the connection closed and the slot is asked whether it
  restarted. A prompt that opens a turn first goes through the queue once to read
  an unfinished summary, and again with the turn itself.
- **Alongside** (`promptAlongside`): `PromptAlongside`, `AlongsideEnds`.
- **The child**: `ConnectionCloses`, `ChildExits`, `IdleFires`. The connection's
  closing and the exit event are separate and come in either order; an exit before
  its listener exists is heard by nobody.
- **Configuration and end**: `ReplaceAgent`, `RemoveAgent`, `AddAgent`,
  `ApplySession`, `StopStartingTurns`, `Shutdown`, `BridgeRestarts` (which keeps only
  the record of ids, on disk).

### Left out

The writing of a stranded summary again (`settleSummary` finds none); the count of
turns in flight and the hold of a turn, which only report numbers; the stream of updates; the mode failures shown on the
status page; a child spawned without stdin or a spawn that throws; the bound of 500
remembered pairs and a write of the file that fails; an agent not run by
`docker exec`, whose summary is not read. A prompt alongside is a first call in the
model, as in the dispatcher, and never a retry.

### What it promises its callers

`PromptCalls.tla` is the session manager as the dispatcher sees it: one state per
caller. A call of `prompt()` waits to be sent (`opening` when it opens a turn,
`waiting` when it continues one), may be refused unsent (`stopping` for
`BridgeStoppingError`, `restart` for a `SessionRestartError`, `failed`), or is sent
once and then ends with an outcome that says so; a call of `promptAlongside()` is sent
at once, and only while a prompt of the pair is in flight. `SessionManagerCalls.tla`
gives the refinement mapping (`Promised`), and `PromisesKept` says that every
behaviour of `SessionManager` is one of `PromptCalls`. A call whose slot is asked why
its session did not start is still unsent; one whose connection closed under it and
whose slot is being asked stays sent until it ends.

## 4. The dispatcher

`Dispatcher.tla` models `dispatcher.ts`, `note-coalescer.ts`, `pending-messages.ts` and
the detached turn of a scheduled message in `internal-server.ts`, and takes `PromptCalls` for the session manager. The code keeps
everything by conversation, so the module is about one of them; conversations meet
only in the stop, which waits for all.

| Variable | In the code |
|---|---|
| `call` | the call of `prompt()` or `promptAlongside()` each turn awaits |
| `stopping`, `interrupting`, `stopped` | the two flags of the dispatcher, and that its `stop()` returned |
| `turn` | where `handleMessage` is with each message: the awaits of `runTurn` (`checking`, `preparing`, `alongside`, `placed`) and of `answer` (`answering`, `prompting`, `held`, `startingOver`, `closing`, `following`), the place of a note in its batch, the wait before a second try (`delayed`), and the result; `first` says that a failure of it would be tried again |
| `inOrder`, `places` | the last link of the chain in `inOrder`, and the links not released |
| `byPersonNow`, `holds` | the same names |
| `waiting`, `notes` | the open batch of the coalescer, and the notes whose text went into each turn |
| `received`, `clock` | `receivedAt` |
| `file`, `replay` | the file of kept messages, and each `replayPending` that runs |
| `bridges`, `seen`, `answered` | the bound on bridges, and what the assistant was given and answered (history) |

- **Arrival**: `Receive`, `NoteWaits`, `BatchRuns`. `Handle` is `handleMessage` up to
  its first await, where a stopping bridge keeps the message.
- **`runTurn`**: `NoCredit`, `TriesToJoin`, `Joins`, `AlongsideOver`, `GetsInLine`,
  `IsKept`, `Starts`. The guard of `TriesToJoin` is read before the await of
  `preparePrompt`, `Joins` is after it, as in the code.
- **`answer`**: `Prompts`, `PromptOver`, `TriesAgain`, `GivesUp`, `StartsOver`,
  `ClosesKept`, `FollowsUp`, `FollowUpOver`, `Finishes`. The follow-ups are numbered in
  the order the code makes them: tries after an empty answer, one after an answer held
  back as markup, the correction of a file that did not arrive. Which of them a turn
  needs depends on what the assistant wrote and is a free choice.
- **The session manager**: `CallStep`.
- **The file**: `ReplayStarts`, `ReplayExpires`, `ReplayTells`, `ReplayTakes`,
  `ReplayGoesOn`, `ReplayEnds`, one for each await of `replayPending`. A write that
  fails is a choice in `Keep` and in both actions that take.
- **Scheduled messages**: `Injected` is the inject, answered at once and run detached;
  `Delays` a first try that failed without a trace (no tool, no word to the person,
  no restart, no stop), about which nobody is told; `Retries` the second try two
  minutes later, as a message received then. Its outcome is told like any other.
- **The end**: `StopBegins`, `Interrupts`, `StopEnds`, `NextBridge`, which is also a
  crash.

Left out: the refusal of a person who is not allowed; the stream of the answer, its
delivery and the status line, which have modules of their own; voice messages and hosts, awaits of the same kind
as the credit check; the notice sent before a message that could not be kept is
reported as failed. The hold of a turn behind another held one (`afterAnother`) is in
the model and never happens in it, since turns of a conversation run one at a time.

## 5. The adapters

`Adapters.tla` models `adapter-supervisor.ts`, `config-reloader.ts`, `config-diff.ts`
and the parts of `bridge.ts` that start adapters at boot, apply a change of
`agents.yaml` and stop the bridge. Two kinds of code run beside each other: the boot
and the reloads, one chain that goes through its agents one by one, and the timers of
the supervisor. They share the adapters and the two sets that `/internal/status`
reports.

| Variable | In the code |
|---|---|
| `phase` | the boot's loop, the bridge up, `stop()` begun, its `adapter.stop()` calls made |
| `file`, `changed` | `agents.yaml`, and the reloader's timer that is armed |
| `reloading`, `applying`, `snapshot` | the promise chain `reloading` with the configuration each link took, that its first link has begun, `currentSnapshot` |
| `todo`, `step` | what the loop of the boot, of `applyConfigDiff` or of `startRefusedAgain` has not come to, and the await it is at |
| `adapters`, `made`, `config` | the `adapters` map; an agent's adapters are numbered, and each was made with a configuration |
| `skipped` | history: the agents for which none could be made when one was last due; the code keeps no such mark |
| `up` | the adapters whose channel is connected (external) |
| `timers`, `attempting`, `terminal` | the supervisor's maps, and its `attempt()`s that await a `start()` |
| `startFailures`, `credentialRejections` | the same names |
| `writes` | a bound |

- **The file**: `FileWritten`, `Reload` (the debounced read, which skips a file that is
  not valid).
- **A reload**: `ReloadBegins` diffs the file against the snapshot, or finds the
  refused agents to start again; `Begins`, `DropsOld`, `Creates` and `StartEnds` are
  the awaits of one agent. `Done` is what follows the last of them: the snapshot
  advances, or the boot is over. Removals go first, then what changed, then what is
  new. Nothing limits how long a reload waits for a channel's `start()` or `stop()`.
- **The supervisor**: `TimerFires`, `AttemptEnds`. An outcome is up, a failure that can
  pass, or a refused credential; its record is by agent, not by adapter.
- **The stop**: `StopBegins` stops the reloader and the supervisor and has the
  dispatcher refuse turns; `AdaptersStop` waits for the turns (the dispatcher's model)
  and the chain of reloads, and then stops the adapters the bridge holds. It does not
  wait for a `start()` the supervisor had called: `AttemptEnds` may bring that adapter
  up after the stop, and `NoStartAfterTheStop` says only that no other is called.

Left out: a change of `allowed_users` alone, which touches no adapter; how long a
retry waits; the exit of a bridge without an internal server whose adapters all fail;
the end-to-end test mode, which has no supervisor. A write during the boot is not
seen, as in the code, since the watch starts after it.

## 6. The delivery

`Delivery.tla` models what happens to a text once it is to be written to a person: the
queue of a turn (`send-queue.ts`), the send path (`sendThrough` and
`resolveSendTarget` in `bridge.ts`) and the replies kept while the channel cannot carry
them (`kept-replies.ts`). It is about one agent and its people; what writes to them are
*senders*, a turn with a queue or a direct send, which tries once. The channel is
external: it goes and comes back, refuses a message, and cannot reach a person who
shares no server with the bot.

| Variable | In the code |
|---|---|
| `adapter`, `made`, `ready` | the adapter in the `adapters` map, how many were made, and what `channelCanCarry` asks of it |
| `reachable` | whom the channel can reach (external) |
| `marks`, `aged` | `noSharedServerMarks`, and the marks older than `noServerRetryMs` |
| `kept`, `running` | the kept replies of each person, and the chain of `deliverNow()` runs, one of which holds the reply it took out |
| `queue`, `hand`, `at`, `through`, `tries`, `lost` | a `SendQueue`: its items, the chunk it sends and at which await, the adapter its target was made for, the retries, `failures` |
| `wrote`, `received`, `jumped`, `done`, `dropped`, `cut` | history: what was written, what each person received, what went ahead of kept replies, and how each message ended |

- **A sender**: `Opens`, `Enqueue`, `Shift`, `Attempt` (who is marked is tried at once,
  anybody else waits behind what is kept), `Delivered`, `NotCarried` (kept), `Refused`
  (a retry, or lost with its failure marker), `Retry`.
- **The kept replies**: `DeliveryTakes`, `DeliverySent`, `DeliveryRefused`,
  `DeliveryReturns`, `Poll`, `MarkAges`. `DeliverKeptFor` is `deliverKeptFor()`,
  whatever calls it.
- **The channel and the bridge**: `Started`, `Goes`, `Replaced`, `Removed`,
  `LeavesServer`, `JoinsServer`, `Restart`.

A chunk is one message: the split at a channel's limit and the pace between two chunks
are left out.

## 7. The text of an answer

`ReplyStream.tla` models `stream-buffer.ts` and the reply stream of `dispatcher.ts`
(`replyStream`, its `onHeld` and `withheldMarkupStart`). A text is a sequence of tokens,
one for each mark the cuts look at (`stream.buffer`); a heading, a tag or a fence counts at the
start of a line. A heading and a tag are one token or come in two, which may be chunks apart
with a flush between them: `p` and `q` make a heading only when they are sent on together, and
the bracket `u` at the end of the text is held, up to `TagMax`, as the tag it may become.
`stream` has the fields of the buffer (`deferredCut`, `cutFloor`,
`holding`, `ended`, whether each timer runs) and of the reply (`whole`, `fenceOpen`, `endedInMarkup`,
`answer`), with three of the specification: `shown`, `parted`, and `ends`, how the text sent
last ended; `out` is what left in the last step, with the text that followed each cut.

The methods are operators on that record (`Push`, `Cut`, `AtBoundary`, `AtCap`, `Settle`,
`Flush`, `FlushIdle`, `EndBuffer`, `Release`, `OnHeld`), and the actions are what calls them:
`Chunk`, `Tool`, `Idle`, `Ceiling`, `End`, `Discard`, `OpenReply`. The rules by which a
secret is found and replaced are left out: they change the words of a piece and not
where it is cut.

## 8. The status of a turn

`TurnStatus.tla` models `turn-status.ts` and `status-line.ts`: the tools of a turn and
their inputs, the fields of `TurnStatus` with the chain of operations of its line (`st`),
those of `messageStatusLine` (`line`), the platform call under way (`call`), and what is
in the chat (`chat`). `ToolStarts`, `ToolUpdate`, `RanLong`, `SummaryStarts`,
`SummaryEnds`, `AnswerLands`, `AnswerSent` and `TurnEnds` are what the turn reports;
`SentenceComes` is the catalogue's answer or its failure, `PaceOver` the timer between
two edits; `OpStarts`, `CallActs`, `CallAnswered` and `CallFails` are one platform call,
which may fail done or undone. What the sentences say is left out; whether two are the
same is not.

## 9. Google Workspace Chat

`WorkspaceChat.tla` models one app and one person: `SpaceWrites` of
`workspace-chat-api.ts` (the queue of each space, its pace, the waits Google asks for,
the renewal of a token), and of `workspace-chat-adapter.ts` the placeholder of each
message, its edits, the answer, the notice of an upload that is too large, and a
platform notice with the space it goes to (`workspace-chat-spaces.ts`).

`space` is the queue of each space, `out`, `renewing`, `second` and `tries` where each
request is, `turn` the phase of each message with its placeholder (`line`, `posted`,
`edits`, what it `shows`), `known` the remembered space, `notice` where a notice's
delivery is; `theirs` is history: the person wrote from their space, and Google has said
nothing of a space since that the adapter follows. `TurnComes`, `PaceOver`, `Leaves`, `NoToken`, `Answers`, `Fails`,
`TokenRefused`, `Renewed`, `NotRenewed` are the writes; `Accept`, `OversizeNotice`,
`HandOver`, `SendChunk`, `ShowStep`, `TurnEnds`, `NextEdit` a message; `NoticeAsked`,
`Listed`, `LookedUp` a notice. A turn ends from wherever it is: one that fails while its
uploads are fetched (`failed`) closes its placeholder and has opened no conversation.
`Listed` remembers whatever single space Google's list names, also one the person did not
write from since, and Google may call the space of the person wrong, which the notice then
forgets.

Left out: the listener with its verification of requests, its route and `decide()`, and
the file of spaces.

## 10. Discord

`Discord.tla` models `discord-adapter.ts` with `typing-keepalive.ts` and
`reachability.ts`, for one person. `client` is the client in use, by number, `attempted` is
`loginAttempted`; `login` is the login of each client, `closing` counts the `start()`s that
await the end of the client before theirs, `live` are the clients that hold the handlers and
were not closed, `met` those that met Discord's READY (`user` says it of the one in use);
`dm` is the client whose channel is kept; `send` is where each send is;
`handler` where each message's handler is; `active`, `timer`, `ticks` and `last` are the
keepalives, whose refreshes are numbered (`issued`, `landed`); `monitor` is the
measurement. discord.js sends the requests of one route one after another, so the
refreshes land in the order they were made, and a message, of another route, may
overtake them: that order is taken from the library, and the code relies on it, since
a keepalive remembers its latest refresh only.

`Start`, `Connects`, `MeetsDiscord`, `LoginDone`, `LoginFails` and `Stop` are the login.
`start()` has no guard: the bridge and the supervisor may call it on an adapter that is up,
and twice at once. Each call but the first closes the client in use, under whatever DM or
send uses it, and logs in on a fresh one; a channel that a send was fetching with the old
client is kept when it comes, until the next start or message of the person; `Comes`, `FilesStored`, `TypingTick`, `HandlerEnds` a message;
`Ask`, `KeptChannel`, `Expires`, `Fetches`, `Fetched`, `TypingEnded`, `Posted` a send;
`Tick`, `MomentPasses`, `ProbeEnds`, `NoticeClosed` the measurement. Time is counted in
probe intervals, with the moment of the last answer somewhere between two ticks.

## 11. Runs

Every passing run finishes within three and a half minutes with two workers.

| Run | Instance | What it shows |
|---|---|---|
| `SessionsOnePair` | one pair, two prompts (one opens a turn), three children, one restart of the bridge; about 1.0 million states | `NoOrphanChild`, `ConversationKept`, `PromptHasOnePlace`, `AlongsideIsWaitedFor`, `EndedSessionIsSentNothing` |
| `SessionsTwoPairs` | two pairs of one agent, three prompts, limits 1 and 2, one reload; about 1.6 million states | eviction and reload: `RoomForEverySession` |
| `SessionsSettle` | one pair, two prompts, two children, a stop at any point, fairness; about 0.4 million states | `PromptsSettle` (liveness), `StoppingStartsNoTurn`, and `PromisesKept`: the session manager implements `PromptCalls` |
| `DispatcherTurns` | two messages of the person and a scheduled one, two bridges, one stop or crash, one replay at a time, one try of a held turn and one after an empty answer; about 0.8 million states | `OneTurnAtATime`, `FileInOrder`, `AnsweredOnce` |
| `DispatcherNotes` | a message and two platform notes, one bridge that may stop, fairness; about 0.1 million states | `ReportedNotesWereSeen`, `MessagesEnd` (liveness) |
| `DispatcherKeptSeen` | two messages | violated: `KeptWereNotSeen` |
| `Adapters` | two agents, two configurations, two writes of the file, two adapters for each agent, a stop at any point, fairness; about 0.9 million states | `AdaptersFollowTheFile`, `FailureIsRetried`, `StatusIsTrue`, `RefusedIsReported`, `NoStartAfterTheStop`, `StopEnds` (liveness) |
| `Delivery` | a turn that writes two chunks and a direct send, one retry, two adapters, two faults, fairness; about 0.5 million states | `EachHasOnePlace`, `NothingTwice`, `InOrder`, `SentBehindTheKept`, `KeptIsSent` (liveness) |
| `ReplyStream` | every token and three texts of two, the limits 2, 4, 3 and 2, two headings, fairness; about 0.4 million states | `CutIsReal`, `SummaryNotSent`, `PiecesAreWhole`, `FinishedTextLeaves` (liveness) |
| `TurnStatus` | two tools, one change of input, one message of the answer, one summary, one failed call, fairness; about 0.3 million states | `OneLine`, `GoneAtTheEnd`, `BelowTheAnswer`, `NamesTheStep` (the last three liveness) |
| `WorkspaceChat` | two messages, one upload too large, one chunk each, one step, two spaces, one fault, two tries, fairness; about 1.0 million states | `OwnLineOnly`, `RemembersTheirSpace`, `EndsAsEllipsis`, `EveryWriteEnds` (the last two liveness) |
| `Discord` | two messages, one send, two clients, one refresh after the first, silence after three intervals as in the code, fairness; about 0.7 million states | `NoGhost`, `BlipIsNotSilence`, `SendsEnd` (liveness) |

Why the bounds are enough.

- *Sessions.* The properties of one pair need an old child that is still ending, a
  current one and a next one: three children. A race in the queue needs one item running
  and one behind it, or one alongside: two prompts; a second reader of an unfinished
  summary behaves as the first. Eviction needs one pair beside the one that makes room,
  and the second pass of eviction two prompts waiting for one spawn, which
  `SessionsTwoPairs` has for `k2`. One reload reaches every state of the map it can find.
- *Dispatcher.* The order of turns needs three messages: one that runs, one that waits
  behind it, and one that arrives as the first ends. `ReportedNotesWereSeen` needs a turn,
  a note that waits for it and one that joins the batch. The second bridge is enough for
  a message to be kept, replayed and kept again in its place.
- *Adapters.* Two configurations of an agent and two writes are what a change needs that
  is read while another is applied; a second adapter is what replaces the first. A
  retry, its failure and its refusal need no bound: they return to earlier states.
- *Delivery.* A chunk that is kept, one behind it and one of another sender are what an
  order can be broken with; two faults are an outage with a refusal, or an outage in the
  middle of the delivery that follows the first. A second adapter is what a send target
  can be stale against.
- *ReplyStream.* A sentence, its closing mark and the `[[attach:` behind it fit in four
  tokens, and so do two headings, one of them cut in two; two headings make a summary, as
  three do in the code, with one of them sent before the other came.
- *TurnStatus.* A step, a second one that begins while the first one's sentence is
  fetched, a message of the answer during either; one failure of any call, done or not.
- *WorkspaceChat.* Two messages have two placeholders in one queue; a notice competes with both and
  may go to the space that is gone; each write may be refused once for the rate.
- *Discord.* An old keepalive and a new one; a refresh that follows the first; a second
  client while a send has the first one's channel. Three intervals of silence are the code's
  180 seconds of 60 (`discord-adapter.ts:192`): two probes in a row must be missed, so that one is
  not enough.

Deadlock is not checked: once the bounds are used up, or the bridge is down with
nothing left to settle, nothing has to happen.

Views and symmetry. In the runs of `MCSessionManager` `VIEW MCView` drops from the
fingerprint the flags of a child nothing can happen to any more and the outcome of a
prompt that is over: no guard and no property of these runs reads them, so two states
that differ only there go on alike; no run with a liveness property of the session
manager uses it. `SYMMETRY` swaps the two prompts of `k2` that open no turn, which no
property tells apart. `MCView` of `MCDispatcher` drops how a call ended where its turn
makes no difference between the endings, and keeps the order of the times of the messages that
are not reported yet instead of the times; `MCTurnsView`, which `DispatcherTurns` uses,
drops also which result each message had and what the assistant was given, since without
notes nothing reads them. Guards, properties and the enabledness of every action depend
on what a view keeps only, and every step under fairness changes it, so `MCView` is used
with `MessagesEnd` too. `SYMMETRY` swaps the person's messages in `DispatcherTurns`. The
view of `MCAdapters` drops the connections and the configurations of the adapters the
bridge does not hold, and the file once its watch is stopped. That of `MCDelivery` drops
what is said of files, that of `MCReplyStream` what left in the last step (the
action property about it is checked on every step all the same) and `ends`, which only
`HeadingsHold` reads, whose configuration has no view, that of `MCTurnStatus` what the
turn did once it is over, that of `MCWorkspaceChat` what the bounds have used up of a
turn that is over, and that of `MCDiscord` keeps how many refreshes are still on their way instead of
their numbers, and drops what became of a client that is neither in use nor logging in, which client
a kept channel is of and what a measurement that is off knew. In each, every fair step changes what is left.

### Finding

`DispatcherKeptSeen`: *a message the assistant has seen is kept and answered again.* A
turn cut off by a restart of the slot is held and sent again as one that opens a turn. If
the bridge begins to stop meanwhile, the retry is refused as never sent
(`BridgeStoppingError`) and the message kept for the next bridge, whose assistant has it
already (`dispatcher.ts:501`: "only a message the assistant never saw is answered again").
`AnsweredOnce` says what remains true: an answered one is not given again.

### Further divergences

Each of these has a configuration whose trace shows it; TLC ends with the violation.

1. `SessionsReloadInFlight.cfg`, `ReloadedSessionsAreCurrent`: *a reload does not reach a
   spawn in flight.* `killAgentSessions` walks the map only. A child being spawned while
   its agent is replaced or removed is mapped when its handshake ends and serves under
   the old command and mode (`session-manager.ts:816`: "after replaceAgent the next
   prompt spawns under the reloaded AgentConfig").
2. `SessionsLateExit.cfg`, `LiveConversationIsRemembered`: *a late exit overwrites the
   record of the live conversation.* The exit handler records its own session id whenever
   it runs. When the next child of the pair could not load that id and created another
   conversation before the first child's exit event, the record goes back to the old id.
3. `SessionsLoadInterrupted.cfg`, `RestartForgetsNoConversation`: *a slot that restarts
   while it loads a conversation makes the bridge forget it.* The catch around
   `session/load` (`session-manager.ts:1510`) forgets the id on every error, the
   connection closing included, on disk too (`README.md:108`: "Conversations survive
   restarts"). `ConversationKept` says what remains true: another conversation starts
   only after a load that did not succeed, or one that outgrew its summary.
4. `DispatcherJoinsScheduled.cfg`, `JoinsOnlyPersonalWork`: *a message can join a
   scheduled message's work.* Whether a person asked for the running turn is read before
   the prompt is built and not again before it is sent; a scheduled message's turn may
   have started meanwhile (`dispatcher.ts:761`).
5. `AdaptersOldRetry.cfg`, `OnlyHeldAdaptersAreTried`: *a retry starts the adapter a
   reload replaces.* The reload cancels the retry of an agent it removes and not of one it
   changes: while it waits for the old adapter's `stop()` and for the new one to start, a
   retry armed for the old one fires and starts it, and nothing stops it again
   (`adapter-supervisor.ts:174`: "A retry left armed for it would fire against the
   adapter the bridge has already stopped and dropped").
6. `DeliveryFileFirst.cfg`, `FileAfterItsText`: *a file can arrive without the text it
   came with.* The files of a chunk are sent whatever its text met, unless the channel is
   down (`bridge.ts:596`), and the text is tried again after them (`README.md:323`).
7. `ReplyStreamParted.cfg`, `SentenceWithItsMarker`: *a sentence can leave ahead of the
   marker of its file.* `settleDeferred` keeps a sentence back for a `[[attach:` it can
   see; when the chunk ends at `[[`, it does not see it yet (`stream-buffer.ts:239`).
8. `DiscordSlowProbe.cfg`, `EveryProbeWasMissed`: *two missed probes are enough.* "Three
   missed probes, so a single blip cannot flip it" (`reachability.ts:41`): the third need
   only be slower than the last answer was. `BlipIsNotSilence` says what remains.
9. `AdaptersSkipped.cfg`, `SkippedAreSeenTo`: *an agent that was skipped stays skipped.* When
   its adapter could not be created twice the snapshot advances all the same, so the next reload finds
   no change of it (`bridge.ts:173`: "it will not receive DMs until the next reload").
   `AdaptersFollowTheFile` leaves out the agents so marked, and only those.
10. `TurnStatusTextMoves.cfg`, `TextMovesNoLine`: *the assistant's text moves the status.* A
    message of the answer has the line deleted and posted again below it
    (`status-line.ts:14`, `dispatcher-status.test.ts:589`), where `turn-status.ts:25` and
    the repository's `README.md:257` say that the text "neither creates, removes nor moves
    it". `BelowTheAnswer` states what the code and its test do.
11. `WorkspaceChatListed.cfg`, `LastSpaceIsKnown`: *the list replaces the space the person wrote
    from.* A notice that lists the app's spaces remembers the only one it finds, after an
    await in which the person may have written from another
    (`workspace-chat-adapter.ts:452`; `workspace-chat-spaces.ts:11`: "The direct-message space
    each person last wrote to one Chat app from"). `RemembersTheirSpace` says what remains.
12. `ReplyStreamSplitHeading.cfg`, `HeadingsHold`: *a heading cut in two by a flush is not held.*
    `summaryHeadingStart` looks at the text in the buffer; when a flush (the idle
    timer, a tool) comes in the middle of a heading's line, neither half is one, and the text behind
    it goes on being sent (`egress-redaction.ts:319`: "its first heading is the point to stop sending
    at"). `SummaryNotSent` counts the headings that leave in one piece.

Behaviours beside them that the models have, which no comment promises to avoid or which
a comment puts otherwise:

- `session.max_concurrent` ("Most ACP children at once", `README.md:526`) is kept on the
  map of sessions, when a handshake is over: the children in their handshake and those
  being ended are beside it. `RoomForEverySession` says what holds.
- A message whose prompt is being built when the stop begins still joins the turn in
  progress; a correction that the stop cuts off is told to nobody.
- A scheduled message that a stopping bridge keeps is reported ok before any turn ran
  (`README.md:480`: "once it ends"); the second try is lost, unreported, when the bridge
  ends in the two minutes before it; a scheduled turn with an empty answer whose
  follow-up fails is tried again in full.
- A refusal recorded by the supervisor outlives the adapter it was about, so the first
  failure of the adapter that replaces it is not retried (`FailureIsRetried` and the two
  properties of the status therefore speak of an agent's first adapter).
- A reply whose send ends after its agent was removed is kept for an agent that is gone
  (`kept-replies.ts:78`, `bridge.ts:1337`). A direct send to a person who is marked goes
  ahead of what is kept for them, at once (`README.md:464`, `bridge.ts:872`): `InOrder`
  leaves out what `jumped`.
- In Workspace Chat a request sent again after a 401 is not paced, and a head past its
  wait that renews its token leaves inside a hold Google asked for meanwhile; a second start of
  the shared server returns while its `listen` is pending.
- In Discord a second message replaces the keepalive of the first, whose answer then ends
  it, so the second turn runs without the indicator; of two sends at once the second
  finds no keepalive and may be posted before the last refresh lands; a `start()` that
  resolves after `stop()` starts the measurement's timer, and nothing closes its client; a
  login that was pending when another `start()` replaced its client starts the timer of the new one.

## 12. Fairness

The `FairSpec` of the session manager is used for `PromptsSettle` only. A call that is
not settled goes on: the event loop runs every continuation (`WF` on the four ways a
prompt finds its session, on each step of a child's handshake, of its turn and of its
queue). The handshake is the one assumption the code does not enforce: `initialize`,
`session/load`, `session/new` and the mode have no timeout, so a child that neither
answers nor dies holds its pair's prompts for ever; this is listed as a hazard. A turn
ends because the watchdog timer is armed around it. A session with nothing queued and no
turn reaches its idle timer (`WF` on `IdleFires` in that condition only: during a turn
the timer may fire but need not). A child that was told to end, or whose exit was heard,
closes its connection; a prompt alongside rejects once its connection is closed. There is
no fairness on new prompts, crashes, exits, reloads or stops, and none on the answer to a
prompt alongside while its child lives. `PromptsSettle` allows a prompt to wait when the
bound on spawns is used up, since a prompt that needs another child then cannot take its
step.

The `FairSpec` of the dispatcher has `WF` on each message's own steps, which are the
event loop's continuations and the timers of a hold, and on the end of its calls, which
is what `PromptsSettle` says of the session manager, with the same assumption about the
handshake. Nothing is assumed of arrivals, replays, stops or crashes.

The `FairSpec` of the adapters has `WF` on the steps of the boot and the reloads that wait for no
channel, and on the stop of the adapters, which the dispatcher's stop reaches because it
waits a limited time for the turns. A channel's `start()` or `stop()` is not assumed to
end: nothing in the bridge limits it (a Discord login may never be answered, as section 10 has it), and the
stop waits for a reload that waits for it (`bridge.ts:1388`). `StopEnds` therefore has a
hypothesis: the chain does not stay at one channel for ever. Nothing is assumed of the supervisor, of writes or of
the stop's beginning.

That of the delivery has `WF` on each sender's and each delivery's steps (a send to a
channel is answered or rejected by its client), on the poll and on the age of a mark,
which are timers. `KeptIsSent` asks of the channel, as its hypothesis, that it be up and
its person reachable for good.

That of the reply stream has `WF` on its two timers, and `FinishedTextLeaves` supposes
that the agent falls silent. That of the turn's status has `WF` on the catalogue's
answer, the pace, the platform's call and the return of a send, each of which has a
timeout in the client it uses. That of Workspace Chat has `WF` on the steps the bridge
takes by itself: as long as one of them can be taken, one is; the queues are finite, so
each is reached. That of Discord has `WF` on the landing of refreshes, which discord.js
answers or gives up, and on the steps of a send, of which the wait for a login has a
deadline; none on the login.

## 13. Proofs

`SessionManagerProofs.tla` proves, for any finite set of pairs, any agents, prompts
and limits and any values of the bounds (`SessionAssumption`: the constants have
their types, the limits are positive, and `None` is neither a pair nor a prompt):

| Theorem | Statement |
|---|---|
| `TypeCorrect` | `Spec => []TypeOK` |
| `Invariance` | `Spec => []Inv` |
| `NoOrphans` | `Spec => []NoOrphanChild` |
| `EndedIsSentNothing` | `Spec => EndedSessionIsSentNothing` |
| `NoTurnWhileStopping` | `Spec => StoppingStartsNoTurn` |
| `OnePlace` | `Spec => []PromptHasOnePlace` |
| `AlongsideWaited` | `Spec => []AlongsideIsWaitedFor` |
| `ConversationsAreKept` | `Spec => []ConversationKept` |
| `RoomForEach` | `Spec => RoomForEverySession` |
| `KeepsPromises` | `Spec => PromisesKept` |

`NoOrphanChild` is not inductive: that a child which is up is mapped or told to end
depends on its being mapped *under its own pair* and on nobody mapping another child
in its place. `Inv == TypeOK /\ Bound /\ Owned /\ TurnsAreUp` adds just that. `Bound`
says that what a pair maps or waits for is a child of that pair in the right phase,
and that a pair never has both a spawn in flight and a mapped session (which is what
makes the unconditional `entries.set` after a spawn safe). `Owned` says for each child
what it must be: in its handshake only while its pair waits for it, up only while
mapped, told to end or gone, failed only when told to end; and that a session the
bridge ended has a queue that refuses. `TurnsAreUp` says that only a queue of a
session that started runs an item.

Most actions are *gentle* (`Gentle`): they start no child, move no phase, and map
nothing new, and where they unmap a session they end it. `GentleStep` proves once that such a
step keeps `Bound` and `Owned`; one lemma per group of actions shows that they are
gentle, and the four that are not (a spawn, the end of a handshake, its failure,
and a restart of the bridge) have a lemma each. `InvStep` puts them together, and
two action properties, `EndedSessionIsSentNothing` and `StoppingStartsNoTurn`, follow
from `Inv` with `WhoSends`, which says by which steps a prompt is sent.
`RoomForEverySession` follows with `WhoMaps`: only the end of a handshake maps a session,
and `RoomAtHandshake` counts the map at that step, after the evictions that made room.

The rest needs invariants of its own, each on top of `Inv`. `Places` is stated for each queue
and prompt (`PlacedAt`): a prompt is in the queue or is the one that runs, not both, and
exactly while its call says that it is queued or sent there; no queue holds one twice.
`PromptHasOnePlace` is its count (`HeldOnce`). `AlongsideIsWaitedFor` is inductive with `Inv`,
because a prompt is sent alongside only a turn that was prompted, and a turn drains only when none is left.

`ConversationKept` compares two sessions of a pair that may be many spawns apart.
`Conversations` carries the reason from one to the other: `Named` says that the id of a pair that
had a conversation is remembered unless it was lost (`LostBy`: a later child of the pair has one
refused, or one outgrew its summary), that a conversation bears the number of a child that
created it, and that the child being started is the pair's youngest; `NewForAReason`
says that a child which asks for a new conversation is of a pair that had none, or lost it. A step that
opens no conversation is `Quiet`, and `QuietKeeps` says that it keeps both.

`PromisesKept` is the refinement: `PromptCalls`, on which the dispatcher stands, with its variables
mapped as `SessionManagerCalls` maps them. `CallsInit` maps the initial states, `CallsStep`
maps each step to one of `PromptCalls` or to a stutter, from `Inv`, `Places` (what a queue
gives up is what the calls say it held) and `OwnPair` (a prompt is with a session of its own pair, so
that what ends that session is what may end the calls of the pair).

`DispatcherProofs.tla` proves, for any messages of any kinds, any number of tries,
follow-ups, bridges, replays and crashes (`DispatcherAssumption`):

| Theorem | Statement |
|---|---|
| `Invariance` | `Spec => []Inv` |
| `OneAtATime` | `Spec => []OneTurnAtATime` |
| `FileOrdered` | `Spec => []FileInOrder` |

`OneTurnAtATime` is kept by nothing a turn can see of another but the links of the chain:
a turn waits for the one that was last when it took its place. `InLine` says what the chain
amounts to: there is a sequence of the turns that have a place, without repetition, whose
last is `inOrder`, and each of which but the first is still `placed` and waits for the one
before it. So only the first can start and only the first can leave (`FirstLeaves`), a new one goes
behind the last (`LastJoins`), and every other step leaves the line alone
(`LineStays`). `FileInOrder` needs that the messages of the file are over
(`FileIsKept`), so that none of them arrives, is kept again or holds a place, and that no two
messages were received at one time (`Stamped`). `PlaceInFile` shows where a kept message
goes, by counting those received before it; `KeptInOrder` and `OthersStay` are what `keep`
and `take` do to the order.

From that invariant the module goes on to what the assistant is given:

| Theorem | Statement |
|---|---|
| `TypeCorrect` | `Spec => []TypeOK` |
| `ReportedWereGiven` | `Spec => []ReportedNotesWereSeen` |
| `GivenUntilAnswered` | `Spec => AnsweredOnce` |

Both properties are about messages, and the code handles turns: a turn carries its own
message and the notes that joined its batch. `GivenInv` ties them together. `Fresh`: none of
the notes of a turn that was not answered yet (`Unanswered`) was answered. `Shared`: the
notes of a turn are its message and those of its batch, so that no two turns share one
(`NotesApart`) and the answer to one leaves every other fresh. `Batched`: a batch that has
run took in every note that joined it, and the notes of one that waits were not answered.
`Together`: what the assistant was given of a turn, it was given with all its notes. That a
message is given by its own turn only, while it is unanswered, is `WhoIsGiven`.

`AdaptersProofs.tla` proves, for any agents and configurations, any number of writes and any
positive number of adapters (`AdaptersAssumption`):

| Theorem | Statement |
|---|---|
| `TypeCorrect` | `Spec => []TypeOK` |
| `Invariance` | `Spec => []Inv` |
| `FileFollowed` | `Spec => []AdaptersFollowTheFile` |
| `FailuresRetried` | `Spec => []FailureIsRetried` |
| `StatusTrue` | `Spec => []StatusIsTrue` |
| `RefusalsReported` | `Spec => []RefusedIsReported` |
| `NothingStartsStopped` | `Spec => NoStartAfterTheStop` |

`AdaptersFollowTheFile` speaks of the moments between two reloads; `Followed` says what holds
within one: an agent the reload has still to do (`Pending`) follows the configuration before,
any other the one being applied. An agent whose adapter could not be made (`skipped`) has none, and is
the only kind that has none (`Served`). It needs `Chain` (the boot and the reloads run one after the other,
and each does an agent once), `Asked` (what is to be done is what the difference of the two
configurations asks) and `Doing` (and so is what is being done); `DoneKeeps` is the end of an
agent's turn, and of the reload when it was the last. The three properties of a first
adapter are one, `Tried`: while a start of it is awaited the supervisor has neither a timer
nor a try of it, and once none is, what is reported is what the channel is and a failure that can pass is
armed. A stop leaves no timer (`Numbered`) and no reload (`Chain`), hence no start.

`DeliveryProofs.tla` proves, for any people, senders, kinds of chunks and numbers of them, and
any number of retries, faults and adapters (`DeliveryAssumption`: each sender writes to one
person, and `None` is no sender):

| Theorem | Statement |
|---|---|
| `TypeCorrect` | `Spec => []TypeOK` |
| `Invariance` | `Spec => []Inv` |
| `NothingLost` | `Spec => []EachHasOnePlace` |
| `ReadOnce` | `Spec => []NothingTwice` |
| `BehindTheKept` | `Spec => SentBehindTheKept` |
| `ReadAsWritten` | `Spec => []InOrder` |

`Inv` says where every message is (`OnePlace`: what was written is in one of seven places, what
was not is in none) and what makes each step move it from one to another. The lists hold a
message once (`Lists`). A sender has a chunk in hand exactly while it is at work on it
(`Hands`). Only the first delivery of a line has a reply in hand, and a sender awaits one
delivery at most (`Lines`): a second delivery, started by the poll or a channel that is back,
holds nothing until the first returned. A new chunk has a number no other chunk of its sender
has (`Numbered`), and a failure marker is about a chunk that was dropped, by a queue that
lost one (`Marked`): otherwise a second marker could be the first one again. What a person
reads as a text the channel took (`Taken`), and what it took is in no queue, hand or list,
hence `NothingTwice`. `BehindTheKept` needs no more than `Lines`: the sender that goes on
when the first delivery returns finds a line in which nobody has a reply in hand.

`InOrder` is about what the person read; `Order` extends it over the whole way there. A message goes
from its sender's queue to the sender's hand, to the kept replies or to the delivery that
carries it, and to the person, and may go back (a refused reply is kept again, first in
line). `InTurn` says for two messages of one sender that the one written first is never behind
the other on that way. One step moves one message (`OnlyMoves`, `TakesItsTurn`, `MovesOne`),
so each action has a lemma about the message it moves, and the rest stay in turn. The
step that matters is a send from the hand, which must find nothing of the sender kept or carried
while the person is not marked as sharing no server with the bot (`SendsAlone`): a sender that finds replies kept
awaits a delivery first. One that goes ahead of them to try a marked person is what `jumped`
records, and the order does not bind it.

`DiscordProofs.tla` proves, for any messages, sends and clients, any number of refreshes and any
positive number of intervals (`DiscordAssumption`):

| Theorem | Statement |
|---|---|
| `TypeCorrect` | `Spec => []TypeOK` |
| `Invariance` | `Spec => []Inv` |
| `MessageIsTheClear` | `Spec => []NoGhost` |
| `NoBlipIsSilence` | `Spec => []BlipIsNotSilence` |

`NoGhost` holds because of what a send remembers of the keepalive it ended, over all the
steps until its message is posted: `OneKeepalive` (a timer runs for the registered message
only), `RaisedIsDown` (what a send that waits took down stays down, and its refreshes
land before it goes on) and `ClearedIsDown` (the same once it was posted) make it
inductive. For `BlipIsNotSilence` it is `EveryIntervalProbed`: since the last answer every
interval but the running one had a probe, which was missed.

`WorkspaceChatProofs.tla` proves, for any messages, answers, steps, attempts and faults
(`WorkspaceChatAssumption`):

| Theorem | Statement |
|---|---|
| `TypeCorrect` | `Spec => []TypeOK` |
| `Invariant` | `Spec => []Inv` |
| `OwnLine` | `Spec => []OwnLineOnly` |
| `TheirSpace` | `Spec => []RemembersTheirSpace` |

That only its own turn ends a placeholder depends on which writes are on their way: one of a
turn that nobody awaits any more could end what a later one wrote. `AllTold` says of each turn what its
phase and the state of its line tell of each other; `Soles`, that a write of a turn is in one
place (waiting in its space's queue, waiting for a new token, or sent and unanswered), and only while the turn waits
for its end; `Queues`, that a space has its own writes only, and one at the head when it sends. `TheirSpace` says that the space a person
wrote from stays remembered until Google's list names another as the app's only one, or
Google calls it wrong: an answer about the space stored before, however late, does not take it away.

`TurnStatusProofs.tla` proves, for any tools, inputs, answers, summaries and faults
(`TurnStatusAssumption`):

| Theorem | Statement |
|---|---|
| `TypeCorrect` | `Spec => []TypeOK` |
| `Invariant` | `Spec => []Inv` |
| `NeverTwoLines` | `Spec => []OneLine` |

`OneLine` counts what shows in the chat, which several calls put there and take away. `OneKept` names the one
place that may still take a line down: the line's own `message`, or the call under way (a
post that landed and was not answered, a replacement or a removal of the old one). A line that
no place names was left by a post that failed after it reached the chat; `postTried` is then set
without a message, and no post follows. This needs that a call runs for
the operation at the head of the chain (`OpUnderWay`), that no line is in the chat twice
(`ChatOnce`), and, for the types, that the answers in the chat are finite and within their bound
(`AnswersBound`).

`ReplyStreamProofs.tla` proves, for any chunks of text, any limits and any number of headings
that make a summary (`ReplyStreamAssumption`: a chunk is not empty, the limits are positive,
and a sentence may be cut before the cap):

| Theorem | Statement |
|---|---|
| `TypeCorrect` | `Spec => []TypeOK` |
| `Invariant` | `Spec => []Inv` |
| `CutsAreReal` | `Spec => []CutIsReal` |
| `NoSummaryIsSent` | `Spec => []SummaryNotSent` |
| `PiecesAreCutWhole` | `Spec => PiecesAreWhole` |

A cut is held back at one moment and made at another, when the text has gone on, so that
it is inside no marker *now* is not inductive. `Deferrable` says what lasts. The
cut is `Outside`: each marker that starts before it is closed there, or another one starts
right behind it; and no marker begins in a text because of what follows (`MarkersStay`), so
that whatever is pushed the cut stays outside (`OutsideStays`). What is before the cut may be sent
(`HoldFrom` gives 0), and still may with marks and blanks behind it (`StillFree`). And
the cut is `Glued` to a boundary, or stands before a `[[`: that is why a cut that only blanks
followed is found again by the next one and not lost (`CutIsLast`), and why the marks that
arrive join it and no others do (`MarksJoin`). A hold begins at the start of a line, where no marker can be
open (`LineIsNotIn`), the cap cuts before the `[[` of an open marker or takes the whole text,
and so no piece is cut inside one.

No summary is sent because nothing that leaves before the message ends has a heading in one
piece (`ShownOK`): a text is held from no later than its first heading (`HeldFrom`), so a head
of it that may go has none (`SentHeadings`). A heading cut in two by a flush is not counted:
divergence 12 of section 11 shows one leave. What is held is judged once, at the
end, and goes out only with fewer headings than make a summary (`HeldIsJudged`).

TLC checked this `Inv` too, on the instance of `ReplyStream.cfg`, before it was proved.

Model-checked only: the liveness properties, which are out of the prover's reach
(`PromptsSettle`, `MessagesEnd`, `StopEnds`, `KeptIsSent`, `FinishedTextLeaves`,
`GoneAtTheEnd`, `BelowTheAnswer`, `NamesTheStep`, `SendsEnd`, `EndsAsEllipsis`,
`EveryWriteEnds`), and the fairness with which they are stated.

## 14. Not modelled

See `components` in `PROJECT.json`. The control-plane calls, the downloads and the
transfer of files are one request each whose failure the caller swallows or reports: pure
I/O, whose outcomes are inputs of the models. Slack, Telegram and the console are thin
over their clients; what they share with Discord (the keepalive, the measurement) is
modelled there. The allowlist and the permission policy decide on one message at a time.
Wording, metadata, redaction rules, configuration and the command line are data that no
property tells apart.
