# A verification of bolt-cowork

bolt-cowork is an assistant for the files of a directory: a command in plain
language goes to a language model, which returns a plan; the user approves the
plan and its steps, and an executor confined to a sandbox carries them out. It
runs one command from the command line or an interactive terminal UI, and it
can call the tools of MCP servers.

This directory holds TLA+ models of the parts of the program that are hard to
test, the TLC runs that check them on small instances, and theorems about them
proved with TLAPS for every value of the constants. `PROJECT.json` lists the
components, the runs, the mutations each property is known to catch, the source
lines each definition stands for, the findings, the hazards and the theorems.

    tlc -workers 2 -config McpSafety.cfg MCMcpClient
    tlapm McpClient_proofs.tla

## 1. Inventory

| Part | State it keeps | Operations | What is hard |
| ---- | -------------- | ---------- | ------------ |
| MCP client (`internal/mcp`: client, jsonrpc, stdio) | connections by server name, pending requests by id, tool and resource listings, two stale flags | CallTool, ReadResource, Initialize, DiscoverTools/Resources, Connect, Disconnect, Close, one readLoop goroutine per connection | real concurrency: a request is registered, sent and awaited outside the lock, while other goroutines resolve, cancel or drain it |
| Agent loop (`internal/agent/agent.go`) | the message history, counters of one command, the flag "approve all" | Run: skills, planning with retries and revisions, a gate per step, execution, result | two approval modes, two kinds of approver and a sticky flag decide together whether the user is asked |
| Context trimming (`internal/agent/context.go`) | none | trimHistory | two cuts, by count and by size, and slots for a summary and a system message |
| Executor and sandbox (`internal/agent/executor.go`, `internal/sandbox`) | none in memory; the file system | 15 actions, path checks | operations of several system calls that can fail in between |
| Tool and resource registries | tools by composite key, an alias per tool name | add, replace, remove, look up | aliases shared by servers, names that contain the separator |
| Terminal UI session (`internal/ui`) | what is shown, the open modal, a pending approval, the history | keys, messages of the agent's goroutine, open/rename/delete a session | every answer is a message that arrives later, possibly to another view or another question |
| Set-up wizard (`internal/ui/views/wizard.go`) | provider, key, step | verify, discover models, save | late results, restoring what was there, a choice kept in four places |
| Session store (`internal/session`) | one JSON file per session | create, save, load, list, rename, delete | snapshots that arrive after a rename or a delete; a crash inside a save; several programs |
| Providers, FallbackChain (`internal/provider`) | the last active provider | Chat with fallback | which failures move on to the next one |
| Configuration, trusted directories (`internal/config`) | YAML file, keyring | load, migrate keys, trust, save in place, save anew | read-modify-write, in place, of one file by programs that hold an older copy |
| Start-up (`cmd/bolt-cowork/main.go`, `views/setup.go`) | the program's configuration | first set-up, load, flags, validation, trust, exit code | a file and a keyring that are written one after the other, each of which may fail |
| Skills (`internal/skill`) | the store of skills | load from the program and directories, match a command | which of several files of one name counts |
| Redaction, prompts, REPL commands, built-in tools, server registry and permissions | files, templates | load, print, check | text processing, mostly sequential |

**How they interact.** The UI's session starts a goroutine per command
(`runAgentCmd`). It builds a new agent with the session's history and calls
`Run`; chunks, events and the result come back over a channel of 128 messages
that the view reads one at a time. To ask the user, the agent's goroutine sends
an event with a response channel and blocks on it; the view opens a modal whose
selection arrives as another message. The agent calls the planner (a provider
behind the fallback chain) and the executor (the sandbox, and an MCP client
through an interface). The MCP client talks to servers over a transport; its
readLoop updates the pending registry and the stale flags that callers and
discoveries read. No non-test code of the program connects an MCP server to the
agent (`SetMCPCaller` and `SetMCPToolRegistry` have no caller): the client is
modelled as the concurrent library it is, and in the agent the registry may or
may not know a tool.

**What makes each part correct.** The client: no panic on a channel, no call
that waits for ever once it is cancelled, answered or cut off, no response given
to another call, no entry or goroutine left behind, listings that are fresh or
flagged. The agent: nothing the mode protects is done without the user's yes to
that very thing, the plan executed is the plan approved, a command costs a
bounded number of calls of the model and ends, the history stays a dialogue. The
session: an answer reaches the question it was given to, a run's messages reach
the session it was started in, nothing the user did is undone by an older
snapshot. The store: a record is the old or the new one. The sandbox: a failed
operation loses no file. The configuration: a key is in the file or in the
keyring, and a directory that was trusted stays so. The registry: a name some
server offers can be called. The wizard: the view, the App, the configuration
and its file agree on the provider once nothing is on its way, and a key that is
given up in the wizard, or refused, gives way to the one before. The start:
nothing is done in a directory the user did not trust. `PROJECT.json` lists the hazards at their lines, and says of
those no property covers why.

## 2. Modules

In the order of importance, which is the order they were written in:

| Module | Models | Composed with |
| ------ | ------ | ------------- |
| `PendingRegistry`, `McpClient`, which implements `RemoteCall` | the MCP client and its goroutines | `MCMcpClient` |
| `AgentLoop` | a command from the user's words to the end, with its approvals | `MCAgentLoop` |
| `TuiSession` | the event loop of the terminal UI and the runs behind it | `MCTuiSession` |
| `FileOps` | the steps of a plan as checks and system calls | `MCParts` |
| `SessionStore`, which implements `RecordStore` | the session files, by several programs, with crashes | `MCParts` |
| `ConfigFile` | the configuration file over the life of several programs | `MCParts` |
| `ToolRegistry`, which implements `ToolTable` | tools and aliases of connected servers | `MCParts` |
| `AskModel` | trimming, the fallback chain, the active provider | `MCParts` |
| `ProviderSetup` | the wizard and the commands on providers, with late messages | none |
| `Startup` | what `main` does before it works | `MCParts` |
| `Skills` | the store of skills and the match | `MCParts` |
| `McpClient_proofs`, `AgentLoop_proofs`, `TuiSession_proofs`, `ProviderSetup_proofs`, `FileOps_proofs`, `Storage_proofs` (of `SessionStore`, `ConfigFile` and `Startup`), `Asking_proofs` (of `AskModel`, `ToolRegistry` and `Skills`), `Parts_proofs` (of `MCParts`) | the theorems of section 9 | |

Worth doing next, most useful first:

1. `Approval`: an abstract specification of consent (ask, answer, act) that
   `AgentLoop` implements, and `AgentLoop` composed with `TuiSession` through the
   response channel.
2. The registry of resources and the permission profile of servers.

Modules that are proved about declare no RECURSIVE operator; recursion is written
as recursive functions and folds. Nor do they use `SelectSeq` and `SortSeq`, which
the prover cannot expand: filters and sorts are loops, as in the code.

## 3. The MCP client

`PendingRegistry` models `jsonrpc.go`: one registry per connection and one
channel per request. Channels have capacity 1 and are written by Resolve or
closed by Cancel or CloseAll, all after the registry's mutex has been released,
so `Take` and `Drain` (under the lock) are separate from `Deliver` and
`CloseChan`. `pending`, `open`, `buf` and `closeErr` are the map of the
registry, whether a request's channel is open, what is in it, and whether
CloseErr is set.

`McpClient` extends it with the goroutines. Each has a control point, and a step
is one critical section, one channel operation or one call of the transport:

| Code | Control points and actions |
| ---- | -------------------------- |
| `Client.call` | `CallLookup` (conns under the read lock), `CallRegister`, `CallSend`/`CallSendFails`, `CallSelect`, then `CallCancel` and `CallClose` on the context's way out, `CallReturn` |
| `DiscoverTools`, `DiscoverResources` | `DiscoverStart` (snapshot of servers), `DiscoverNext` per server, `DiscoverStore` or `DiscoverError`, `DiscoverEnd` (the flag) |
| `readLoop` | `ReaderReceive`, `ReaderMessage`, `ReaderSend` (Resolve's send), `ReaderFails`, `ReaderDrain`, `CloseDrained`, `ReaderExit` |
| `Connect`, `Disconnect`, `Close` | `ConnectSwap` or `DisconnectBegin`/`DisconnectDelete`, then `TeardownDrain`, `CloseDrained`, `TeardownCancel`, `TeardownRemove`, `TeardownClose`, `ConnectStart` |
| the server (external) | `ServerReply` (late, repeated, failed), `ServerJunk`, `ServerChange` with its notification, `ServerExit` |

A listing is the connection it came from and a version; a message is a reply to
an id, a notification or junk. `gen`, the id counter, never repeats (`MaxId`
bounds the ids, `MaxVersion` the changes of a listing, `MaxInbox` the unread
messages, `MaxStarted` the operations).

### Runs

* `mcp_safety`: one call, one discovery and two managers over two connections of
  one server name, so that a Connect replaces a connection under a call, a
  Disconnect races both, and the server answers late, twice or with an error.
  Three of the four operations run in a behaviour: every hazard of the list needs
  at most three goroutines and the readLoops. Connections and managers are
  symmetric. `ChannelsSafe` (no send on a closed or full channel, no double
  close), `NoLostWakeup` (a call that waits has somebody left to wake it),
  `NoLeak`, `CloseErrVisible`, `ConnectKeepsNew`, and `CallRefinement`: the calls
  are those of `RemoteCall`. A request has an id of its own, reaches the server of
  its connection at most once, and has one end, the server's answer to it or an
  error that is true: `closed` only where the connection was given up, `send` also
  where the request may have arrived. `Exchange` maps the control points of `call`
  to the state of its request, open from Register to the end of the select.
* `mcp_live`: `CallEnds` and `ReaderEnds`. Fairness is weak fairness of each
  goroutine of the client: Go's scheduler is preemptive, so a goroutine that can
  go on does. Nothing is assumed of a server, of those who start operations, or
  of a write the server does not read (`CallSend` is not fair).

Three more configurations are violated on purpose and are no part of the listed
runs: `McpStale.cfg` (`StaleWhenOutdated`), `McpGhost.cfg`
(`DisconnectedNotListed`) and `McpMute.cfg` (`OthersDiscovered`, under the
assumption that every server but one answers and reads). Section 8 says what they
show. `TypeOK` is proved, and not checked again by a run.

Deadlock is not checked in any run: operations are bounded, and a client whose
operations are over rests.

## 4. The agent loop

`AgentLoop` models `Run` and its stages. `pc` is the point in the code; the
counters, `planningCommand`, `approveAll` are the code's locals and are reset
when Run returns. A plan is the number of the call that made it, its length and
the extra text its prompt had: the properties need to tell plans apart, not to
read them. The model is the environment: any plan, any verdict of the match
against the command (`MissesIntent` or `MatchesIntent`), any failure. The action
of a step is one of each class the gates distinguish, chosen when its turn
comes. A delete whose path is not found goes through the picking of a candidate
(`PrepareDelete`). `Decide` is the gate: `Asks` is the condition of the agent
(both branches of `executeStage`, the general one and the MCP one), `PutsToUser`
that of the approver, which in the terminal UI evaluates the general mode a
second time.

The program's two ways to run it are both here: at the command line one command
with an empty history; in the terminal UI a session of commands, each with a new
agent, where the session takes over the agent's history only when the command
succeeded. History variables (`run`, `calls`, `answer`, `blanket`, `feedback`)
record who said yes to what, and are read by properties only (`run` and `calls`
also number messages and plans).

### Runs

* `agent_loop`: all four modes, the five settings of the MCP mode, both
  approvers; the limits of the code for retries and revisions (3 and 3), plans of
  up to 2 steps, 3 commands and a history of 2 turns, so that Approve all at the
  first step meets any second step, and the third command trims the history.
  `DangerousIsAnswered` and `FullIsAnswered` say when a step may run without an
  answer to it, `ExecutedPlanWasApproved` that revisions and retries never leave
  an unapproved plan in the executor's hands, `HistoryOfTurns` that the
  history is made of whole turns, `RunEnds` that a command ends. Fairness: the
  agent's own steps between calls and the user's answer; not that a user gives
  another command, and nothing about what is answered. That a call of the model
  and a step return is no fairness of the code's and is stated as an assumption
  in `RunEnds` itself (`ProviderAnswers`, `StepReturns`): the clients of the
  providers use `http.DefaultClient`, which has no timeout, under a context
  without a deadline (`openai.go:34`, `main.go:189`, `session.go:243`). Of the
  steps, `run_command` has a timeout, the others are calls of the file system or
  of an MCP server. Without `ProviderAnswers` TLC finds the command that waits in
  `planning` for ever.
* `agent_tui_gate` is violated (section 8), and so are the unlisted
  `AgentFeedback.cfg` (`FeedbackHeard`) and `AgentApproveAll.cfg`
  (`DangerousAlwaysPrompts`).

`TypeOK` and `CallsBounded`, what a command can cost, are proved, and not checked
again by a run.

Deadlock is not checked: after the last command nothing happens.

## 5. The terminal UI session

`TuiSession` models `internal/ui`: `App`, the two views, the modal and the
palette, with the session files (single steps here, `SessionStore` has their system
calls) and the goroutine of each run (`runAgentCmd`, `waitNext`, `tuiApprover`, `runTUI`).

| Code | Model |
| ---- | ----- |
| `App.current` | `view`: the session shown, or the welcome screen (`at = Nil`) |
| the JSON files | `store`: a record per session id, `used` the ids handed out |
| a `tea.Cmd` that has not been handled | `posts`, a bag: a command runs in a goroutine of its own, so the event loop may handle any of them next |
| the channel of a run, `waitNext`, an `agentMsg` on its way | `chan`, `readers`, `coming` |
| `ApprovalRequestEvent.ResponseCh` | `resp`, by question (a run and a number) |
| keys and the mouse | `PressEnter`, `PressEsc`, `PressAction`, `PaletteEnter`, `PaletteEsc` only post; `TogglePalette`, `TurnPage`, `Click`, `PressCommand`, `TypeTask` act at once |
| `Session.Update`, `Welcome.Update`, `handleModalSelect` | `Handle...` and `Select...`, one per message and command |
| `App.Update` | `HandleSave`, `HandleOpen`, `HandleCreate`, `HandleStart`, `HandleRename`, `HandleDelete` |

A text is the set of the runs it comes from and a history the sequence of runs
that are part of it: enough to tell whose words end up where. What an agent does
is `AgentLoop`'s subject; here it sends text, announces its plan, asks and ends
in the orders `runTUI` allows. A modal is the set of items that can be selected.
`modalCommand` stays as it was when an approval takes the modal over, as in the
code, so that a selection meets the handler the code would give it to. History
variables: `home`, `mixed` (a view was replaced while a run was in progress),
`hasty` (the user went on before a message of an earlier key had arrived, or
while a snapshot was), `applied`; `from` in a selection is the question on the
screen when the key was pressed. A label is what the code compares: the titles of
sessions (`Titles`) and what else a modal lists (`Others`) are constants, which
may contain "Approve".

Many properties have the exception `~mixed` or `~hasty`. They are where the code
stops keeping the promise, not where the model stops: `tui_switch` is the
consequence of the first. What they leave out stays open: Enter pressed twice
can answer the next question, and a command typed before the snapshot of the last
run is back can be undone by it. `YesIsForTheQuestion` has one more exception,
an answer whose label a session or a skill bears: `Update` compares the label
alone (`session.go:662`), so that selecting a session called "Approve" just as
the question takes its modal over is a yes.

### Runs

* `tui_dialogue`: one session, one run of three messages and its end, any
  approval stage, a channel of one message instead of 128 (so that the agent
  meets a full channel), the palette, two messages of the user's keys on their
  way. The commands are one that opens and replaces its own modal (skills, on two
  pages), one whose modal is replaced by a late result (connect-provider), and
  `/clear`. `QuestionIsOpen`, `StreamInOrder`, `YesIsForTheQuestion`, and
  `CommandEnds` under fairness of the agent's goroutine, of `waitNext`, of the
  event loop (Bubble Tea's loop and Go's scheduler run whatever can run) and of a
  user who answers a question in the end, with whatever answer. That the agent's
  goroutine goes on, and so that the provider answers, is an assumption here as in
  section 4: its client has no timeout. The run has one session whose view stays;
  a goroutine that nobody reads any more is outside it.
* `tui_sessions`: two sessions and two runs, a message of the user's keys on its
  way and any number of snapshots: the smallest instance in which a snapshot
  meets another session, a deleted session, or the next run. Runs send only their
  result (`MaxSends = 0`). Ids are symmetric. `OneRunAtATime`, `QuietIsSaved`,
  `TurnsAreShown`, `HistoryIsOwn`.
* `tui_switch` is violated (section 8).

Deadlock is not checked: ids, runs and messages are bounded, and when they are
used up a welcome screen with its palette closed has nothing more to do.

## 6. The parts that run on their own

Seven components share no state with each other. `MCParts` puts them side by side
in one run, `parts`: the first state chooses a part, and a behaviour is one of
that part alone. The disjuncts of `PartsNext` are the parts, so that a mutation
of one is found by its own properties and by no other's.

### Files: `FileOps`

A step of a plan is one record: what it does, its paths, and the next system call
(`pc`). `Begin` is the part of `ExecuteStep` before the first system call, with
the checks of the executor (`resolveAndCheckProtected`, `resolveDestProtected`)
and of the sandbox (`ValidatePath`, `ValidateWritePath`, no copy over an existing
file); an action per kind of step gives it the checks in their order. Then come
the calls: `MkdirCall` (one directory at a time), `OpenCall` (which truncates),
`FillCall`, `RenameCall`, `ReadCall`, `RemoveCall`, `UnlinkCall` (what
`os.RemoveAll` takes away, in any order), `ConvertCall` (the PDF library). Each
may fail (`CallFails`), and the program may be killed between any two (`Killed`).
`MoveFile` falls back on read, write and remove whatever the rename failed of,
and so does the model.

`NothingLost`: what a file held is still somewhere in the workspace unless a step
was asked to remove or replace it. `SuccessMeansDone`: a step that reports success
has done all of it and left the rest alone. `BarredStays`: protected files and
files below read-only directories change only with a directory above them (the
read-only directory itself is no such file: where it has gone with its parent, a
merge may write a file of its name, and a later one replace it).
Bounds: two steps, the second of which is the retry or the second half of an
accident, over 12 paths with a second file system, a read-only directory, two
protected files and a denied name.

### The store of sessions: `SessionStore` and `RecordStore`

`Save` is `CreateTemp`, `WriteTemp`, `SyncTemp`, `CloseTemp`, `ReplaceRecord`,
with `RemoveTemp` on the way out of an error; `Rename` loads and saves, `Delete`
removes, `List` reads one entry after the other while other programs work.
`dir` is what programs see and `disk` what a power loss leaves: a change of the
directory is kept when the disk gets to it (`DiskKeeps`), and a file that was not
synced comes back cut short. `RecordStore` is what the callers of the store rely
on: a map whose records are replaced and removed as a whole, with a power loss
that takes back what was not kept. `StoreRefinement` says that the one implements
the other, with a file cut short mapped to a value that is neither a record nor
a free name. `ListIsComplete`: what was there all the
time and could be read is listed; what cannot be read the code leaves out without a
word. Bounds: two
programs, two ids, two titles, three operations, so that a save meets another save, a
rename and a listing of the same record.

### The configuration file: `ConfigFile`

One program after the other loads the file, moves its keys to the keyring
(`MoveKey`, `KeysMoved`), asks for trust, changes preferences in place
(`ChangePref`) or writes everything from memory (`SaveAll`). A write is
`Truncate` and then `Written` or `WriteFails`; the program may be killed at any
point (`Exit`). A file cut short is refused by the next start or read as an empty
one. `TrustIsKept` and `KeysAreKept` hold where no write failed (`past.hurt`):
the file is written in place, so a write that fails or is cut off leaves what the
code lets it leave, and the exception is where the code stops keeping the
promise. `KeysAreKept` also supposes a keyring that takes every key; what happens
where it refuses one is the run `config_keys`. Bounds: two providers, one
directory, five starts and changes.

### The registry of tools: `ToolRegistry` and `ToolTable`

`AddTools`, `ReplaceServerTools`, `RemoveServer`, `Clear` and the look-ups, each
under the lock and so one action. Where an alias has lost its tool any tool of the
name may take its place: the code takes the first in the order of a Go map.
`ToolTable` says what each server offers, and that a look-up by bare name finds
the server that listed it last, goes on finding it, and finds another that offers
the tool when that one no longer does. `RegistryRefinement` says that keys and aliases
implement it. Bounds: three servers that may share both of two tool names, no
bound on the operations (the state space is finite).

### Asking the model: `AskModel`

`Trim` is `trimHistory` step by step, and `TrimIsLongest` compares it, for every
history a run reaches, with a definition of the longest end of the conversation
that fits both limits. `BuildProviders`, `Skip`, `Chat` and `NextProvider` are
the fallback chain; the clients are functions from the classes of replies they
tell apart to what the chain sees (an answer of Anthropic without text is an
answer, the empty one; of the others an error). `ShownIsWhoAnswered`: the
provider the panel shows is the one the switches the user was told of lead to.
Bounds: limits of 3 messages and 6 characters with messages of 1 or 3, so that
either limit is met first, five messages, a chain of two and the default
provider, two questions in a run.

### Start-up: `Startup`

`StartProgram` with its mode, flag and directory, the first set-up (`Choose`,
`SaveSetup`, `StoreSetupKey`), `LoadConfig`, `CheckConfig` with the flags,
`IsTrusted`, `AcceptTrust`, `Decline`, and the exit codes. File and keyring are
written one after the other; each write may fail and the program may be killed
in between. `KeyIsAtHand`: a program that set a provider up has the key it was
given, past the keyring and the environment, and a key lost at its end is one the
user was told of. `WorkIsTrusted`: no work in a directory that the file, too, does
not say is trusted. Bounds: two starts, so that the second meets what the first
one left, two providers, one with a key in the environment, two directories.

### Skills: `Skills`

`LoadFile`, `WalkEnds` (at the end of a source or where it breaks off) and
`MatchCommand`. The stable sort of the matches is an
insertion, skill by skill. `LatestIsMatched`: a command gets exactly those skills whose last
file is triggered by it, each once. Bounds: two names, the program's own skills
and two directories, three files, with names from the front matter or the
directory and front matter that is damaged.

Deadlock is not checked in `parts`: operations are bounded.

## 7. Connecting providers

`ProviderSetup` models the wizard (`wizard.go`) and the commands on providers and
models of both views, with the App that is told of the choice and the functions
behind them in `main.go`. A choice is kept in four places: `shown` (the view),
`app`, `cfg` (the configuration all of them share) and `file`. A command of the
event loop that has not been handled is a record in the bag `post`; it reads the
key when it runs (`VerifyReads`), and its message is handled later
(`DeliverVerify`, `DeliverModels`, `DeliverDirect`, `DeliverChanged`,
`DeliverRequired`), in any order. A result is matched by the provider's name only,
as in the code. `restoreWizardCredential` is `RestoreCredential`,
`commitProviderSwitch` is `CommitProviderSwitch`, with its two ways of writing.
`OpenSession` opens a stored session, which gives the App and the view the provider
and model of its record and tells neither the configuration nor the file; any
choice the program can have saved is possible (`Records`, bounded by `Recorded`).
Every write of the file may fail (`Save`, `saved`): the code then shows a message
and goes on. History variables: `kept` is the key a provider had when last one was
settled, by a wizard that finished or a removal; `past` says whether the App's last
write failed (`unsaved`), whether a session was opened since the App was last told
of a choice (`opened`), and whose wizard was taken away with a typed key in effect
(`dropped`).

* `setup`: a native, a hosted and a local provider, good and bad keys, keys in
  the environment and in the keyring, four commands or keys of the user; three
  providers because a provider that is replaced, one that replaces it and one
  whose late result comes in may all differ. Stored sessions name one provider,
  which is enough as opening one only replaces a choice. `QuietAgrees`: once no
  choice is on its way the configuration and the file agree, unless the App's last
  write failed, and the configuration and the App, unless a session was opened
  since; a write that failed before, in a view, is made good. `CancelRestores`: a
  key given up or refused gives way to the one settled last, but for the
  providers in `past.dropped`. `VerifyEnds` under weak fairness of the messages (a
  verification has a deadline of ten seconds and a discovery of five,
  `wizard.go:239` and `268`, so every command delivers).
* `setup_restart`, `setup_key` are violated, see the findings.

What the two exceptions hide is shown by configurations that are no part of the
listed runs (section 8): `SetupOpen.cfg`, what an opened session does while no
provider is chosen (`NoneIsInUse`), and `SetupDropped.cfg`, that a wizard taken away
leaves a refused key in effect (`ReplacementIsUndone`).

Deadlock is not checked: acts are bounded, and a view with no message on its way
rests.

## 8. Findings

Each is a property quoted from the repository's documents or comments that the
code does not have, and a run in which TLC shows the behaviour.

| Run | Statement | Behaviour |
| --- | --------- | --------- |
| `agent_tui_gate` | MCP mode full prompts before every call (`README.md:134`) | in the terminal UI the approver says yes by the general mode |
| `tui_switch` | a run is saved in its session (`docs/superpowers/plans/2026-06-21-session-history-runtime-model.md:66`) | the result of a run is applied to, and saved as, the session shown when it arrives |
| `setup_restart` | a discovered model is persisted, "keeping configuration valid after restart" (`CHANGELOG.md:90`) | a model the server of a listed provider has is chosen on the welcome screen; the chain in the file names it and the provider's entry does not list it; the next start refuses it |
| `setup_key` | credentials are persisted "only after successful verification" (`CHANGELOG.md:86`) | the late result about the existing key passes for that of the key typed since |
| `config_keys` | keys are stored in the keyring and then removed from the file (`config.go:222`) | a key the keyring refuses is removed with those it took |

These configurations show more of the kind. They can be run as they are, and are
no part of the listed runs:

| Configuration | Statement | Behaviour |
| ------------- | --------- | --------- |
| `McpStale.cfg` | ToolsStale reports a change since the last discovery (`client.go:113`) | a notification handled during a discovery is erased by its final `Store(false)` |
| `McpGhost.cfg` | the tools of a disconnected server are not discoverable (`tool_registry.go:149`) | a discovery stores a listing after the Disconnect removed it |
| `McpMute.cfg` | an unresponsive server does not block the others (`client.go:375`) | servers are asked in turn without a deadline of their own |
| `AgentFeedback.cfg` | plans are revised with feedback (`README.md:32`) | the text is lost when the plan made from it misses the intent |
| `AgentApproveAll.cfg` | dangerous steps always prompt in dangerous-only (`CHANGELOG.md:376`) | Approve all covers MCP calls when the MCP gate has mode full |
| `AskErrors.cfg` | a provider that returns an error is passed over (`fallback.go:42`) | only `ErrNotAvailable` moves on to the next one |
| `SetupDropped.cfg` | the previous key is "restored if replacement fails or is cancelled" (`session.go:194`) | a message to the App takes the wizard away, and the key typed in it stays although it is refused |
| `SetupOpen.cfg` | having no provider "blocks starting a session" until one is reconnected (`CHANGELOG.md:26`) | a stored session that is opened puts the provider it names in use, whatever the configuration says |

Met while modelling, in the models but without a property, as no document says
otherwise:

* Files. Copying a directory fails and leaves an empty file in its place. Move
  and rename replace an existing file, copy never does. Merging and splitting
  check denied patterns neither on the file they write nor on those they read.
* Registry. Keys are `server/tool`: names with a slash collide (`a` with `b/c`,
  `a/b` with `c`). `KeyAssumption` excludes them.
* Providers. The key taken by "Use $VAR" or "Continue without key" stays when the
  wizard is left, and a typed key given up later gives way to the one before the
  wizard, not to that one. A late failure takes away a newer typed key. Two
  `RuntimeModelChangedMsg` in the wrong order leave a view that shows one
  provider while another is asked. A snapshot that
  arrives after a switch gives the view the provider it had when the run ended
  (`session.go:879`). `--provider` has no effect where a
  fallback chain is configured.
* Configuration. Writing all of it from memory drops placeholders. Flags are
  persisted when preferences are saved next.
* Start-up. `bolt-cowork init` writes the configuration anew from the defaults;
  trusted directories and other providers are gone. A key the keyring refuses
  during `init` is announced as kept for this session, which ends there. A
  program killed between the file and the keyring leaves a configuration without
  a key, and the set-up is not offered again. A single command in a directory the
  user trusts creates a file with nothing but that, and the set-up is not offered
  either.
* Skills. A project below the home directory has its skills labelled global
  (`loader.go:41`). A file with damaged front matter takes its directory's name
  and hides a good skill of that name. `requires_approval` and `priority` are read
  by no code.

## 9. What is proved

All theorems are about the specification of their module, for every value of the
constants that satisfies the named assumptions (`RegistryAssumption`,
`ClientAssumption`, `ModesAssumption`, `BoundsAssumption`, `TuiAssumption`,
`SessionStoreAssumption`, `RecordAssumption`, `FileOpsAssumption`,
`SkillsAssumption`, `KeyAssumption`, `ConfigAssumption`,
`AskAssumption`, `SetupAssumption`, `StartupAssumption`: sets are disjoint,
bounds are natural numbers, limits of retries and turns are positive, keys of
tools are injective, the paths a step may name have all their prefixes and the
workspace it meets is a tree). Every invariant and every action property of the
passing runs, the three refinements included, is the statement of a theorem.

**McpClient_proofs.** `TypeCorrect` needs to know which locals are set at which
control point (`Typed`). The safety theorems follow from one inductive invariant,
`IInv`, whose idea is that a request id is a token: from Register until its
channel is written or closed it is in exactly one place (one registry, the hand
of one readLoop, the list of one CloseAll, or one Cancel), and one call knows it.
`ChannelsSafe` alone is not inductive: two CloseAll could hold the same id, or a
new request could reuse one that is still held. From it follow
`ChannelsAreSafe`, `NoCallIsForgotten`, `NoEntryIsLeaked`, `CloseErrIsVisible`
and `RepliesAreOwn`. `NewListingsAreKept` adds `QuietInv`: a connection whose
readLoop has not begun has answered nobody, so nothing of it is in a channel, with
a call or in a listing when Connect removes the old ones. `ClientImplementsCalls`,
the refinement of `RemoteCall`, adds `RemoteInv`: no server has received an id that
was not issued or whose request is not sent yet, one that is waited for has been
received, and a call past the select knows how it ended. Steps are sorted by what
they do to an exchange: those of others leave it alone (`OthersKeepExchanges`),
those of its own goroutine (`ThreadMoves`) map to a step or a stutter each
(`ExchangeSteps`).

**AgentLoop_proofs.** `TypeCorrect` in five parts.
`DangerousStepsAreAnswered` and `FullStepsAreAnswered`: the flag `approveAll` is
set by the user only (`GateInv`), and a step comes to run from its gate or from
`Decide` when one of the two conditions was false. `ExecutedPlansAreApproved`:
the property is inductive by itself. `CallsAreBounded`: each plan the user may
see has a budget, and attempts that missed the intent are paid from the budget
of the plan they were made for (`CallsInv`). `HistoryIsOfTurns`: while a command
runs its agent has the session's history and the user's message and nothing else
(`HistoryInv`), and adding a turn to a history of whole turns, full or not,
leaves one (`TurnAdded`, `TurnReplaced`), which rests on what `AddMessage` keeps
of a sequence.

**TuiSession_proofs.** A step of the event loop is first brought to one of a few
shapes, by what it does to a run and its messages: nothing (`GoesOn`), a message
sent, received, taken or dropped, a run begun, ended or moved on; lemma
`NextSteps` does it once for every action. Each invariant is then proved for the
shapes. `TypeInv` has the types. `StreamInv`: a run has one command waiting on its
channel or one message that arrived and was not handled, and a question or the end
is the last message on its way, in which case the question is neither shown nor
answered; without that a second message could take the question's place, and
`QuestionsStayOpen` would not be inductive. `OneRunInv`: until a view is replaced
under a run, the run in progress is the one the view shows as running
(`OneRunWorks`). `HistoryInv` says where a history can be, in the view, in a
record, in a save on its way, with an agent or in a result, and that each is of
its session's runs (`HistoriesAreOwn`). `OrderInv` counts the messages that left
the channel (`StreamsKeepOrder`). `YesInv`: while the user waits for the effect of
a key there is at most one press on its way, and a yes on its way names the
question shown (`YesIsMeantForIt`).
`SavedInv`: the record of the session shown is the session, or what is missing in
it is in a save on its way or in the run at work, or the session was cleared
(`QuietSessionsAreSaved`). `TurnsInv`: every history there is, in the view, in a
record, in a save on its way or with an agent, comes with messages that show its
turns (`AllShown`), and a session that is not in use has no record and no save on
its way (`IdsInv`); the view alone is not inductive, as opening a session takes
all of it from the record (`TurnsStayShown`).

**FileOps_proofs.** `FilesInv`: the types; `Shape`, that what exists lies below
directories; `StepInv`, what is known at each system call of each action of the
paths it has still to touch, the copy it has made and the tree it began with; and
the two properties themselves. `NothingLost` alone is not inductive: between the
calls of a move the file is in one place, then cut short in another, then in both,
and only `StepInv` says which. From it follow `FilesAreTyped`, `NothingIsLost`,
`SuccessIsDone`, and, with the checks that a step at work has passed,
`BarredFilesStay`. The attempt showed that a read-only directory does not keep its
own place, which `Kept` now says.

**Storage_proofs.** Of `SessionStore`, `StoreInv`: every file in the directory and
on the disk is whole and synced or absent, and the temporary file of a save is whole from the
sync on, synced from the closing on. That no file is cut short is not inductive
without the second half: it is what the rename puts in place. `FilesAreWhole` and
`ListingsAreComplete` follow, and `StoreImplementsRecords` maps each step: the
rename to `Put`, a delete to `Remove`, the disk's catching up to `Keep`, a power
loss to `PowerLoss`, everything else to a stutter.

Of `ConfigFile`: `ConfigInv` holds while no write has failed: the file is
whole, or empty in the middle of a write (`TextInv`); what the user was told is
trusted is in the file, in the memory of the running program and in whatever is
about to be written (`TrustInv`), which is what makes the property survive a
write that replaces the file; keys not yet in the keyring are still to do, and
all are in the keyring when anything is written (`KeysInv`); placeholders are in
every write but that of the whole memory (`HeldInv`). `TrustedDirsAreKept`,
`KeysAreInOnePlace`; with a count of the acts, also `ConfigIsTyped`.

Of `Startup`: `StartInv` has the types, that the trusted directories in memory are
in the file (`BootTrustInv`), and what is known of the key at each point of the
set-up (`BootKeyInv`). The types proper need `DirInv` as well: only directories a
program was started in are ever trusted. `StartIsTyped`, `WorkIsAlwaysTrusted`, `KeyIsAlwaysAtHand`.

**Asking_proofs.** Of `ToolRegistry`, `RegistryInv`: every tool is stored under its
own key (`WellKeyed`), and the alias of a name some server offers leads to a tool of that
name (`Live`). `AliasesStayAlive`, and `RegistryImplementsTable` with the table
read off the map.

Of `AskModel`, `ActiveIsShown`: `AskInv` says that the switches announced
count the providers that were passed over, so the place in the chain and the
length of what was told move together. It needs nothing about what the providers
answer. `SentIsLongest` is a fact about `Trim` for every history: the lengths of
the ends of a conversation grow with it (`LongerEnd`), so the longest that the loop
finds (`FitIsLongest`) is the longest there is, and cutting it again for the slots
gives the longest that leaves them (`KeptIsLongest`).

Of `Skills`: `SkillsInv` says that the store has, of each name, the last skill that
was read and no other, which loading keeps (`LastSkillsAreMatched`); that the loop
of the match collects the skills that are triggered, each once, is
`MatchHasTheHits`.

What the loops of `AskModel` and `Skills` compute holds for every number of turns.
The induction theorems of the library cannot be instantiated by the provers, so it
is done in first-order terms: were there a turn at which the claim fails there
would be a first one (`Least`, `Induct`), and the turn before it leads to it. This
covers what each loop is needed for, and is proved once per loop.

**ProviderSetup_proofs.** `SetupIsTyped`, for bags of messages of any size
(`MessageAdded`, `MessageTaken`). `ChoiceIsAgreed`: that a choice is on its way,
or the configuration agrees with the file and with the App, is inductive given the
types, with the two exceptions of the property: the App's last write failed, a
session was opened since. `KeysAreRestored`: `SettledInv` says it with the
wizard's provider and those in `past.dropped` as the exceptions, and `WizardInv`
that the key the wizard would put back is a settled one, and that until a key was
typed there is nothing to put back. A provider enters `past.dropped` when its
wizard is taken away with a typed key in effect, and leaves it when its wizard
finishes or its key is removed.

**Parts_proofs.** A behaviour of `MCParts` is one of each of its parts, six of which
stutter (`FilesApart` to `SkillsApart`), so that the theorems of the parts hold of
what the run `parts` checks (`PartsAreTyped`, `PartsKeepTheirWord`).

**Model-checked only.** `CallEnds`, `ReaderEnds`, `RunEnds`, `CommandEnds` and
`VerifyEnds`: liveness under fairness is out of the prover's reach.

## 10. Not modelled

The components marked so in `PROJECT.json`, with the reason. The commands of the
REPL: no code of the program starts the loop they were written for. Redaction,
prompts and built-in tools: rewriting and formatting of text; the registry of
built-in tools is filled, and nothing calls a tool through it. The files and
checks of server definitions and permissions, HTTP, presentation, build.

Inside the modelled parts: the bytes of the JSON-RPC framing and of plans, the
wording of prompts, `SendNotification`, notification handlers (registered by no
code of the program), the callbacks that report progress, the registry of
resources (tools without the aliases), deep copies, symbolic links, the error of
closing the file a copy has written, which the code does not look at
(`sandbox.go:498`), and the call
of an MCP tool from the agent to the client, which no code connects. In the
terminal UI: editors and themes, notices, token counts, and Ctrl+C, which ends
the program; providers and models are in `ProviderSetup`, which has no run of a
command in it. That the goroutine of a run reads the shared configuration while
the view writes it (`main.go:742`) is a data race no module has.
