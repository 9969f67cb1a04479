# Verification of mcp-guardian

mcp-guardian is a proxy between an MCP client (the agent) and an MCP server (the
upstream). It decides for every `tools/call` whether it goes through, keeps a
hash-chained receipt of it, learns from failures, and exports receipts to
telemetry backends. This directory holds TLA+ models of it, TLC configurations
that check them, and TLAPS proofs.

`PROJECT.json` is the index: components, runs, a mutant for every checked
property (a plausible bug that the property catches), the source lines every
definition stands for, findings, hazards and theorems.

    tlc -workers 2 -config MCProxy.cfg MCProxy      # a run: its module and its cfg
    tlapm LedgerProofs.tla                          # a module of proofs

## 1. Inventory

Paths are relative to `src/internal/`.

| Component | State | Operations | Talks to |
|---|---|---|---|
| Message core, `proxy/proxy.go` | `pending` (id -> channel) under a mutex; `callCount`, `schemaCache` of the main goroutine | `readAgent` and its handlers on the main goroutine; `readUpstream` on a second one; `forwardRequest` with a timer | everything below |
| Gates, `governance/` | `ConvergenceTracker`: stamps per tool and target, failure signatures | `RunGates`: budget, schema, constraint, authority, convergence; `RecordCall`, `RecordFailure`, `Reset` | called by `handleToolsCall`; read the state files |
| State files, `state/` | `authority.json`, `constraints.json`, `intent.json`, `controller.json`, shared by all processes of a state directory, replaced atomically, no lock | load or create, save, bump, sync, `AddConstraint` | gates, meta-tools, `handleInitialize`, `recordReceipt` |
| Ledger, `receipt/` | one JSONL file per process; `seq`, `lastHash` in memory | `NewLedger`, `Append` (open, write, sync), `Purge` (all files), `VerifyChain` | `recordReceipt`; other processes through the directory |
| Exporters, `otlp/exporter.go`, `proxy/splunkhec.go` | buffer, timer, `stopped`, under a mutex | `Export`, `timerFlush`, `Shutdown`, posts | `recordReceipt`; the collector |
| Transports, `transport/process.go`, `transport/sse.go` | pipes of a child; HTTP session id, queue of 64 lines | `Send`, `ReadLine`, `Close` | message core; upstream |
| Tokens, `transport/auth.go`, `authcode.go` | cached token and expiry; `tokens.json` | `Token`, `Invalidate`, refresh | HTTP transport; other processes |
| Meta-tools, `metatool/` | none of its own | five `governance_*` tools | state files, ledger, tracker |
| Classification, `classify/` | none | `ExtractTarget` makes of a call what gates and constraints know it by | gates |
| Configuration, `config/`, `main.go` | global file, profile | defaults, layers, validation, choice of the token provider | every start |
| Login, `cli/login.go`, `discover.go` | `oauth2-discovery.json`, `tokens.json`; two channels of one callback server | discovery and registration, callback, exchange, save | browser, authorization server; token providers through the files |
| Masking, schema, webhooks, viewers | none, or a file of their own | pure functions and I/O | |

**How they interact.** One `tools/call` runs on the main goroutine from the
first byte to the answer: mask, `LoadConstraints`, gates, count and stamp,
register the channel, `Send`, wait for channel or timer, `AddConstraint` on
failure, receipt (ledger, exporters, genesis hash), answer. The reader goroutine
shares only `pending`, the channels and stdout with it. Other processes share
only the state directory.

**What is hard.**

* The two goroutines: response against timer, a response that is late, doubled
  or carries an id used before, a `Send` that fails after it got through, an
  upstream that ends, a reply the server needs while the proxy waits for it, a
  line nobody can read.
* Several processes over one directory without a lock: read-modify-write of two
  JSON files, and a purge that rewrites the ledgers of processes that run.
* Faults between two steps: a torn line, a failed sync, a failed save whose
  error is dropped, a kill anywhere.
* Timers and goroutines that race for the export buffer.
* A login next to running processes: two files that belong together and are
  written and read one after the other, and a browser that answers late, twice,
  never, or to another login.
* Boundaries: the budget, the window, a lifetime, a cutoff.

**What makes each correct.**

* Core: one outcome per message, in order; a response never reaches another
  request; no goroutine hangs; a receipt before the answer, unless `Send` or
  `Append` has failed; the process ends when its input does.
* Governance: budget and repetition limits hold; nothing passes between a bump
  and the next initialize; epochs and learned constraints persist.
* Ledger: an undisturbed chain verifies; the memory agrees with the file; what
  was accepted stays until it is too old; the purge removes what is.
* Exporters: each receipt in one place, flushed in time, nothing left at
  shutdown.
* Calls: one that failed is not forwarded again while its failure is remembered.
* Login: it ends; its tokens are used, with the client they were issued to.
* Tokens: a login lasts through refreshes, kills and failed saves; a token that
  is handed out lives long enough to arrive.
* HTTP transport: lines in order and complete until it is closed; one retry, with
  another token; nobody hangs on the queue.

The hazards, at their lines, with the properties that cover them, are in
`PROJECT.json`.

## 2. Modules

| Module | Content |
|---|---|
| `FifoService` | abstract specification: messages are finished once each, in order, with an outcome their kind allows |
| `Proxy`, `MCProxy` | the message core; its instances |
| `ProxyProofs` | theorems about `Proxy`, and that it implements `FifoService` |
| `Governance`, `MCGovernance`, `GovernanceProofs` | gates, sessions, the two shared files; instances; theorems, those about `Calls` included |
| `Classification`, `Calls`, `MCCalls` | what a call is about; calls with arguments over `Governance`; instances |
| `Config`, `Login`, `MCLogin`, `LoginProofs` | what a start makes of its configuration; logins and the processes that live on what they leave; instances; theorems |
| `Ledger`, `LedgerProofs` | the receipt ledger (run directly); theorems |
| `Startup`, `StartupProofs` | `Run` around the ledger: authority.json, purge, genesis hash, service (run directly); theorems |
| `Exporter`, `ExporterProofs` | both telemetry drivers (run directly); theorems |
| `Tokens`, `MCTokens`, `TokensProofs` | the token providers and `tokens.json`; its instance; theorems |
| `HttpTransport`, `HttpProofs` | the HTTP transport over the provider of one process (run directly, `MCHttp.cfg`); theorems |

The modules meet at interfaces that one leaves open and the other fills in:
"a gate stops the call" is a free choice in `Proxy` and the content of
`Governance`; "Send fails, or the upstream answers" is free in `Governance` and
the content of `Proxy`; `RecordReceipt` of `Proxy` stands for `Append`, whose
steps are in `Ledger`, and for `Export`, whose steps are in `Exporter`.
`SendReaches`, `SendReturns` and `SendFails` of `Proxy` are what `HttpTransport`
(or a pipe) does inside `Send`; `HttpTransport` extends `Tokens` and takes its
actions for one process as its own, joined with its program counter. `Calls`
extends `Governance` in the same way: each of its actions is one of
`Governance`, joined with the call it is about. `Login` and `Tokens` share
`tokens.json` from two sides: in `Login` it is replaced in one step and has the
client its tokens belong to, in `Tokens` it is written in three steps and has
tokens that expire and are rotated.

### Proxy

`pc` is the position of the main goroutine, `rd` that of the reader with what it
carries. `RouteRaw`, `RouteMeta`, `RouteBlocked` and `RouteForward` are the
branches of `routeAgentMessage` up to the first point at which another goroutine
can see anything; `SendReaches` is the moment inside `Send` at which the upstream
has the bytes, so that a response may come before `Send` returns, and `Send` may
fail afterwards. `Receive` and `Timeout` are the two arms of the `select`.
`MatchResponse` (lookup and delete under the mutex) and `Deliver` (the channel
send, outside of it) are two steps. An id is shared by requests through the
constant `Id`, so that an agent that uses an id again is one of the instances.

The scanners of both sides have a buffer of 1 MB. On the agent's side
`AgentUnread` is a line that is longer, or one behind such a line: it never gets
into `stdin`, and `oversized` makes `ReadEOF` end the session once the lines
before it are handled, with the agent's end still open. On the upstream's side
`ReaderStops` ends the reader. A reply the server waits for may be in the part
that is never read (`ask = "cut"`).

`RecordReceiptFails` is an `Append` that returns an error: it is logged, and the
answer leaves all the same. `settled`, `unsol`, `audited` and `unrecorded` are
histories for the properties; `audited` has the calls that are in the ledger,
`unrecorded` those `Append` failed for.

### Governance

One `pc` per process. `Call` covers `LoadConstraints`, the gates, count and stamp,
up to `Send`, in one step, since only the load touches anything shared;
`AddConstraint` and `SaveConstraints` are its load and its replacement of the
file; `RecordReceipt` and `FindGenesis` are there because they save the authority.
Every save may fail, and its error is dropped where the code drops it. A call is
a key (tool and target); what the schema gate and the mask say is a Boolean
choice. The histories (`stale`, `owed`, `granted`, `behind`, `learned`, `missed`,
...) record what happened independently of the fields the gates look at.

`stale[p]` says whether p owes an initialize: for a bump of its own (`"bumped"`),
or for one that had been granted, that is saved, when p started (`"owing"`).
`owed` is the same of the next start; it is set by a bump that is saved and
cleared only by a save of a process that knows of the bump and has initialized.
Neither is read from the file, so that what `NothingForwardedOutOfSync` says can
be checked against what the gate makes of the epochs it reads there: a process
forwards nothing after its own bump, whether that was saved or not, until it has
initialized; and a process that starts after a saved bump forwards nothing
either, unless an older process has written the epoch back (`regressed`). A bump
that could not be saved is forgotten when its process ends; the tool has reported
the failure, and the property promises nothing for later starts.

### Classification and Calls

`ExtractTarget` of `Classification` is a set: the value under the first known
name, or, where there is none, any of the strings, as the iteration of a Go map
is free. `Calls` has a set of calls; a call goes through the gates under one of
its possible targets, which is then the key of its stamp and of its constraint.
`failures` is what was learned of which call, `excused` of `Governance` what a
save that could not know of it has overwritten.

### Ledger

A line is a record, a record longer than the 64 KB `readLastRecord` goes back
(`"long"`), one longer than the 1 MB `LoadReceipts` accepts (`"huge"`), a torn
beginning, or garbage. `Long` names the processes that may write longer ones. A
long record can be loaded, verified and purged, but a start on a file that ends
in it begins at the genesis (`LastState`), and the refresh after a purge is
passed over (`LastFails`); `afresh` names the processes to which the former
happened. `LastRecord` is the record a file ends in, whoever can read it. The
hash of a record is the sequence of payloads from the genesis to it, which is
what a hash without collisions amounts to. `Append` is `Open`, `Write`, `Sync`;
a purge goes through the files in the order of their names with load, create,
write, rename or removal as steps of their own. A removal that fails
(`PurgeRemoveFails`) is not noticed: the purge goes on. `fd` says what a
process's descriptor leads to after a rename or a removal by another one. A stop
leaves a `.tmp` behind wherever it comes. `disturbed` names the files in which
one of four things happened: a failed sync or a torn line, a purge while the
owner was running, two purges at once, a purge that gave up after it had
rewritten the process's own file.

### Startup

`Startup` extends `Ledger`: each of its actions is a step of `Run`, joined with
the actions of `Ledger` it consists of, with `run[p]` as the position. Of
`authority.json` there is whether it names a genesis hash, which decides whether
a start reads all receipts (`FindGenesis`) and can be ended by one of them
(`RefuseStart`). `SaveSession` is any later save of the copy a process loaded when
it started. Reading all files is one step: a line that cannot be read stays, as
every purge gives up at it.

### Exporter

`sends` is the set of batches under way with the goroutine that sends each and
the next post. The drivers differ in who sends a full batch and in when the timer
goroutine arms the timer again. `time.AfterFunc` may have a goroutine waiting for
the mutex (`fired`) while the timer is armed anew.

### Tokens

`tpc` is the position of `Token` in each process. A token is the number under
which the server issued it; `born` is when it did, `exp` what the client believes,
and the answer arrives any time after. `EndpointAnswers` is the moment at which
the server has issued (and rotated), `ReceiveAnswer` the one at which the process
has it in memory, and `SaveCreate`, `SaveWrite`, `SaveRename` are `saveTokens`.
Two processes share one `tokens.json.tmp`: `fd` says what the descriptor of each
leads to after the other has truncated or renamed it. The histories name the
ways in which a login may be lost: two saves at once (`overlap`), a refresh cut off
between the server's rotation and the rename (`interrupted`), a process whose
refresh token another one has used (`outdated`). The last is permanent in the
code, which reads `tokens.json` only when it starts.

### Config and Login

`Config` has no state: `Configuration` lays the profile over the global file over
the defaults, `ProfileValidate` and `ConfigValidate` are the two validations, and
`Provider` is the choice `CreateUpstreamTransport` makes. Settings that are
layered and validated alike are represented by `enforcement`.

In `Login`, `lpc[l]` is the position of one `--login`. A client is the number of
its registration; of tokens there is the client the server issued them to, which
no file says. `Callback(l, m)` is the tab that m opened arriving at the port of
l, which happens across logins only on a fixed port; `TakeCode`, `TakeError` and
`TimeOut` are the arms of the `select`. `ReadTokens` is a start up to the first
file, `ReadDiscovery` the second file and the choice of a provider; in between a
login may write both. `Refresh` happens only if the server recognises the client.
The histories name what can tear tokens and client apart: a client on disk whose
login has not finished, a client that could not be saved (`unsaved`), logins that
overlap (`crossed`), tokens of an older login saved over newer ones
(`overwritten`), a login that finishes while a process reads.

### HttpTransport

`main` is the main goroutine inside `Send` or `Close`, `stream[n]` the goroutine
that parses the n-th answer, `rd` the reader of the proxy, `queue` and `closed` the
two channels. The server may refuse any token, answer with a body, a stream or
nothing, and assign a session id. Main and reader are each one goroutine, so that
the mutex is never contended and `doPost` never finds the transport closed.

## 3. Runs

| Run | Checks | Bounds, and why they are enough |
|---|---|---|
| `proxy` | `TypeOK`, `NoStalePending`, `ReaderNeverBlocks`, `BypassOnlyAfterGiveUp`, `ReceiptBeforeAnswer`, `RefinesFifoLive`, `ReplyGetsThrough`, `EndsAfterClose` | three request numbers with ids a, b, a, of which a session uses two, so that a late response of one request can meet another with its id; a response to each; a request of the server, so that its reply can stand behind a call, or behind a line nobody reads; budget 1, so that it runs out. A server that answers a request twice, and longer sessions, are left to the proofs, which hold for every number |
| `ledger` | `TypeOK`, `BrokenOnlyIfDisturbed`, `StatusMatchesFile`, `AcceptedStays`, `PurgeRemovesOld` | two processes, three starts (one restarts on its own file), two receipts each, ages 0..2 with cutoff 1, one fault. Process 1 may write records of every length: those of more than 64 KB at will, one of more than 1 MB as its fault; process 2 purges them |
| `startup` | `RefusedOnlyIfDamaged` | two processes, three starts: one that leaves a receipt, one with an older copy of `authority.json`, one that starts later; one receipt of any length each, which may be damaged, and two faults, so that the genesis hash may be lost as well |
| `export` | `TypeOK`, `EachInOnePlace`, `BatchesInOrder`, `NothingLeftBehind`, `FlushedByTimer` | both drivers, five receipts in batches of two: two full batches and a rest |
| `governance_files` | `TypeOK`, `EpochKept`, `LearnedStays`, `NothingForwardedOutOfSync` | two processes (interchangeable: symmetry), three starts, one bump, two calls, one fault, a lifetime that ends within the run |
| `governance_calls` | `BudgetHolds`, `ExhaustedOnlyByForwards`, `RepeatBound`, `RetryBlocked` | one process in both modes, a call with a known name and one without, which has two targets; a budget and a limit that both run out, a window and a lifetime that end within the run, one restart |
| `login` | `LoginTypeOK`, `ClientFits`, `LoginIsUsed`, `LoginEnds` | two logins, for every way one can meet another; a process with two starts, before, between and after them; one failed save or interruption; six profiles, one for each outcome of `Provider` and of the check in `Login`, and a global file that is absent or that the validation refuses |
| `tokens` | `TokensTypeOK`, `LoginKept`, `RefusedOnlyIfOutdated`, `MarginCovers` | two processes (symmetry) over one `tokens.json`, three starts, two refreshes after the login, one lost answer or failed save; a lifetime of two ticks with a margin of one, and a clock that reaches the expiry; a server that rotates refresh tokens or not, and says how long a token lives or not; every provider with Token but the trivial "none" |
| `http_transport` | `HttpTypeOK`, `LinesInOrder`, `RetryIsFresh`, `CallsReturn`, `StreamsGoOn` | two calls of `Send`, so that a second one meets the token the first left behind and a stream of the first competes with the body of the second; a queue of one line and streams of two, so that it is full; tokens for every 401 the server may answer. The clock stands still: expiry is the subject of `tokens` |
| `ledger_parallel`, `governance_shared`, `governance_retry` | one documented claim each, which the code does not meet | see section 4 |

Deadlock is checked for `Proxy` and `Exporter`, whose only end is the exit of
the process. `Ledger`, `Startup`, `Governance`, `Calls`, `Tokens`, `Login` and
`HttpTransport` stop when their bounds are spent.

`SYMMETRY` is used with safety properties and action properties only.

### Fairness

* `Proxy`: weak fairness of the steps of each goroutine that depend on nobody
  else (the Go scheduler and the runtime timer behind `forwardRequest`), and of
  the end of `Send`. The last is an assumption on the environment the code does
  not enforce: the HTTP client has no timeout and a pipe may be full. An
  upstream whose stdin is closed ends. The agent and the upstream owe nothing
  else: no answer ever has to come.
* `Exporter`: the timer fires, goroutines run, a post ends (its client has a
  timeout of five seconds). Nobody has to call `Export` again, and the process
  need not end.
* `Login`: weak fairness of the steps of a login that has begun. Discovery has a
  timeout of 30 seconds for each request and the wait for the browser one of five
  minutes; the exchange uses `http.DefaultClient`, which has none, so that its end
  is assumed of the server. Nobody has to answer in a browser or start anything.
* `HttpTransport`: weak fairness of the main goroutine inside a call, of `Token`,
  of the reader, and of a stream goroutine that has a line in its hand. Server and
  token endpoint are assumed to answer, as in `Proxy`. No server has to send
  another line or end a stream, nobody has to call `Send` or `Close`, and a `select`
  with two ready branches may take the same one each time.

## 4. Where the code and its documentation differ

Each is a `violation` run; the counterexample is a behaviour of the code.

* `ledger_parallel`: parallel processes are not safe without locks
  (`receipt.go:21-22`), since each start purges the files of the others. In the
  trace process 2 deletes the file of process 1, whose one receipt has expired, and
  process 1 goes on with receipt 2 in a new file. A file of which something is
  left is re-chained and replaced, with the same effect.
* `governance_shared`: the epoch, "a monotonic counter" (`README.md:430`), falls
  when a process saves the authority it loaded before another one's bump. In the
  trace that is a process that is still starting: it saves its copy when it has
  created the file or found the genesis hash.
* `governance_retry`: an identical retry of a failed call is not always blocked
  (`README.md:429`): without a known name among its arguments its target is
  whichever string the map yields first. `RetryBlocked` is what does hold.

Met while reading, without a run: `architecture.md:325` promises a receipt for
every call, "forwarded, blocked, or errored". A call whose `Send` fails has
none, since the handler returns before `recordReceipt` (`proxy.go:384`), even if
the call has reached the upstream; and a receipt that cannot be appended is
logged and the answer leaves (`proxy.go:526`). `ReceiptBeforeAnswer` has both as
exceptions. A start on an existing file "recovers state from the last record"
(`receipt.go:33-34`), but not from one of more than 64 KB (`receipt.go:385`),
which it takes for damage; the chain breaks at the next receipt.
`BrokenOnlyIfDisturbed` and `StatusMatchesFile` have that as an exception.
`Purge` counts records as purged whose file could not be removed
(`receipt.go:316`). A bump that could not be saved is forgotten at the next
start (`metatool.go:121`). An accepted receipt of more than 1 MB cannot be read
back (`receipt.go:161`), and without a genesis hash it ends every later start
(`proxy.go:78`); `RefusedOnlyIfDamaged` has the conditions.
`architecture.md:321` says the convergence gate does not block, and in strict
mode it does (`gates.go:88-97`; `README.md:149` has it right). The signal "loop"
never blocks, as the gate asks for no signature (`gates.go:88`, against
`README.md:147`). Declared intents are read by no gate (against
`metatool.go:56`). `governance_status` lists constraints that have expired.
After the timer of an exporter has found an empty buffer it is dead
(`exporter.go:108`), while `otlp-setup.md:515` promises a flush after
`batchTimeout`: `FlushedByTimer` is about receipts exported before. The OTLP
timer is armed again with `httpTimeout`, not `batchTimeout` (`exporter.go:128`).
The timeout of a request is started only after `Send` (`proxy.go:465`), which
nothing bounds, while ADR-0002 (lines 69-70) has every timeout answered. The
OTLP driver posts a full batch on the goroutine that serves the agent
(`exporter.go:84`), against "without blocking MCP traffic"
(`architecture.md:372`). Static headers are set after the token, so that a
static Authorization header wins (`sse.go:135`, against the comment at
`sse.go:126`). Tokens of a login are on disk (`architecture.md:454` has them in
memory only). After a second 401 the refused token stays in memory and the next
`Send` tries it first (`RetryIsFresh` has the exact bound). A 401 without a
refresh token empties the memory, and every later `Send` fails until the process
is restarted.

Of login and configuration: "access tokens will be renewed automatically"
(`login.go:317`) does not hold when a login registers a client and then saves no
tokens, as the older tokens stay next to the new client (`discover.go:87`);
`ClientFits` has the conditions under which it does. `--login` accepts a profile
without a flow (`login.go:130`), which the proxy takes for client_credentials
(`profile.go:46`), one with a token command or a child process, and calls neither
validation; a client it cannot save is a warning (`discover.go:88`).
`LoginIsUsed` has just these cases as exceptions. On a fixed port a tab of an
earlier login ends a later one (`login.go:157-161`). The client_credentials
provider does not get the `clientAuthMethod` (`proxy.go:592-597`).
`--inspect` does without the last validation and without the warning about a
global file it cannot read, and takes the first line from the server for the
answer to its initialize (`inspect.go`).

## 5. Proofs

Every invariant and every action property that a passing run checks is also a
theorem, and so is the safety part of `RefinesFifoLive` (`RefinesFifo`), for
every value of the constants under the assumptions their modules name
(`BoundsAssumption`, `IdAssumption`, `GovernanceAssumption`, `CallsAssumption`,
`LedgerAssumption`, ...): bounds are naturals, `Id` maps requests to ids, modes
are strict or advisory, the arguments of a call are finitely many, there is a
token of the `--login` (`MaxTokens # 0`). `Proc`, `Keys`, `Ids`, `CallSet`,
`Logins` and `Proxies` may be any sets. Each invariant below was checked by TLC
on the bounds of the component's run before it was proved.

The proofs have one pattern. A property is seldom inductive; the invariant adds
what the actions rely on, in named parts. There is one lemma for each action or
group of actions, and the theorems follow from the invariant.

**`ProxyProofs`.** `NoStalePending` and `ReaderNeverBlocks` are not inductive:
that the channel is empty when an entry is matched holds because a request that
is still in stdin has not touched its channel, and each number is there at most
once. `IInv` adds that (`Queue`, `Channels`) and what kinds of messages the
stages handle (`Stage`). From it: `TypeCorrect`, `PendingClean`, `ReaderFree`,
and with one more part (`Audited`: a call about to be answered that was not
refused is in the ledger or in `unrecorded`) `ReceiptsFirst`.

`BypassLate` needs to know where a response may be that nobody has matched yet:
`Sent` says that what the upstream owes, has on the wire or in the reader's hand
belongs to a request whose handler waits for it or is done with it, and
`Registered` that a handler that waits has its entry in `pending`, or its
response on the way. A response that finds no entry then finds a handler that is
done.

`Corr` says that a response in a channel, in the reader's hand or in the
handler's has the id of the request it is for. With `IInv` it makes every step a
step of `FifoService` or a stutter (`Refinement`): `Take` moves the head of stdin
into the busy slot, so the backlog is unchanged; the steps that settle a message
finish it. `OwnAnswer` is what it means when ids are not used twice: a request
settled with a response of the upstream is settled with its own.

**`GovernanceProofs`.** The invariant has one part for each property. `Budget`:
the count is the number of forwards and never above the limit. `InStep`: the
authority gate of a process that owes an initialize is closed, and `authority.json`
is such that it will be for whoever starts from it while `owed`, unless an older
epoch was written back. `Epochs`: unless an older epoch was written back, the
file and every process that is not behind know the highest granted one.
`Knowledge`: what a process is about to save has every live constraint of the
file but those it is known to miss. `Stamps`: what the tracker keeps is what
it recorded without a prefix that is older than the window; `PruneDropsOld`
shows that `pruneWindow` on stamps in order drops just those. The theorems are
`TypeCorrect`, `BudgetKept`, `SyncBeforeForward`, `BumpPersists`, `LearnedKept`,
`RepeatBounded`, `ExhaustedByForwards`.

Every step of `Calls` is a step of `Governance` (`CallsImplement`), so that these
hold of calls with arguments as well (`CallsBounded`). `RetriesBlocked` joins
three facts: arguments that leave no choice have one target (`OneTarget`); what a
failed call has left is under a key of that call (`Asking`, `Failed`); and it is
still in the file (`Knowledge`), where the constraint gate finds it.

**`LedgerProofs`.** The invariant `Whole` is about one file at a time, as long as
it is not in `disturbed`: the file is a chain if it can be read, unless its process
did not recover a long record (`Intact`), has what was accepted (`AcceptedIn`), its
owner's memory is at its end (`Follows`), and whoever rewrites it is alone with it
and has a chain in hand that ends in the same record (`Rewrites`), so that a file
whose last record can be recovered is left with one that can. Chains are
lemmas about sequences: what `Rechain` makes of any records is a chain of the
same records, `Appended` and `Overwritten` say what a record or a torn one does
to it. A purge that drops a head needs `Cutoffs`: no process has a cutoff the
clock has not reached. The theorems are `TypeCorrect`, `NoFalseAlarm`,
`StatusHonest`, `ReceiptsKept` and, for the action property, `OldRemoved`.

**`StartupProofs`.** `LedgerInRun`: with `Run` around it the ledger keeps its
invariant; the one step that is not the ledger's, a failed save of
`authority.json`, only counts a fault. `Undamaged` says that before the first
fault every undisturbed file can be read, and `Saved` that unless it was lost the
genesis hash is in `authority.json` once a process knows it, or an accepted receipt
could be read. Together they give `RefusedForDamage`.

**`ExporterProofs`.** `BufferIsTail`: the buffer is the tail of what was exported.
`Disjoint`: no receipt is in two batches, or in a batch and the buffer. `Done`: a
signal has arrived or failed for exactly the receipts that are past its post.
From them `OnePlace`; `Stages` adds that Shutdown empties the buffer for good,
which gives `ShutdownFlushes`. `Ordered` and `TypeCorrect` are parts of it.

**`TokensProofs`.** With a server that rotates, one refresh token is good at any
time (`OneGood`), a process that renews has it alone (`Exclusive`), and it is in
nobody's file until the rename. `OneWriter`: as long as no two processes save at
once, `tokens.json.tmp` is what the one that saves has made of it; a server that
does not rotate needs neither (`SameToken`). These give `LoginSurvives` and
`Overtaken`. `Decided` is about the moment at which a token was found good, or
came; `ReturnedInTime` needs one more assumption, `Life > Margin`: a token that
lives no longer than the margin is returned once after it was issued, with less
left than the margin.

**`LoginProofs`.** `Alone`: unless two logins have crossed, a login past its
registration is the only one, and its client is on disk. `FilesFit`: then the
two files belong together, unless one of them was replaced without the other.
`Current`: what a process has read is what is there, until a login has finished
since. `Clients` and `TokensThere` say what profiles have to do with it, and
that a login past its discovery has left a client on disk unless it could not be
saved, which `LoginIsUsed` rests on. The theorems are `LoginTypeCorrect`,
`RenewedByTheirClient` and `UsedAfterLogin`.

**`HttpProofs`.** Every step of the transport is a step of `Tokens` for its
process or leaves the tokens alone (`ImplementsTokens`). `Calls`: the provider
works only while the main goroutine waits for it, and an answer that is a body
has no stream. `Ids` and `Refusals`: every token was issued, the one in memory
was refused once at most, and never when a second attempt asks for it; so
`FreshRetry`. `LinesInOrder` is inductive with `Calls`, and five lemmas say what
becomes of a line: taken in hand, put into the queue, read, dropped after Close,
or left alone (`NoLineLost`).

**Only model-checked.** The liveness properties (`ReplyGetsThrough`,
`EndsAfterClose`, `FlushedByTimer`, `CallsReturn`, `StreamsGoOn`, `LoginEnds`,
and of `RefinesFifoLive` what goes beyond `RefinesFifo`), since fairness and
ENABLED are out of the prover's reach. Induction over data and RECURSIVE
operators are out of its reach as well, and the modules use neither: the first
known name of a call, the cut of a purge and of a window are given by what they
are, not by the loop that finds them.

## 6. Not modelled, and why

* Mutation types, signatures, masking patterns, schema validation, OTLP
  conversion, client authentication, viewers: pure data; where they decide
  something (masked or not, valid or not) the decision is a free choice.
* Webhooks: goroutines nobody waits for; what is lost when the process ends is
  lost silently by design.
* Intent and controller files: no decision reads them.
* Of a login: the documents of the authorization server, PKCE, the certificate of
  an https callback. Of the configuration: the command line, the directory of
  profiles, telemetry settings.
* The text of events and headers; `--token-command` is taken to return a new token
  each time.
* A wall clock that is set back; `Governance` and `Ledger` have a clock that only
  moves forward.

## 7. Plan

Order: the most important behaviour first. Done: 1 to 13.

1. `Proxy` with `FifoService`: the core, its refinement, its proofs.
2. `Ledger`: chains, purge, faults.
3. `Governance`: gates and shared files, with proofs.
4. `Exporter`.
5. The documented claims that fail, each with a run.
6. `Tokens`: caching, refresh, `Invalidate`, `tokens.json` shared by processes.
7. `HttpTransport`: `Send`, the queue, stream goroutines, `Close`.
8. `Classification` and `Calls`: calls with arguments over the gates.
9. `Config` and `Login`: a login while processes run.
10. `Startup`: authority and ledger together, the refusal to start.
11. `ExporterProofs`, `TokensProofs`, `LoginProofs`: every invariant of `Exporter`,
    `Tokens` and `Login`.
12. `LedgerProofs`, `StartupProofs`: every invariant and action property of the
    ledger, and why a start is refused.
13. `HttpProofs`; `BypassLate` in `ProxyProofs`, `RetriesBlocked` in
    `GovernanceProofs`.
14. An abstract channel (lines in order, cut off only by `Close`) that
    `HttpTransport` implements and `Proxy` could be stated over, and an abstract
    ledger of which `Append` is one step; both with their refinement proved.
15. A clock that jumps, in `Governance`.
