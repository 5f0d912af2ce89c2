# A verification of 9rai

9rai redirects the Kiro IDE's endpoints to a local proxy: an elevated daemon
writes a block into `/etc/hosts`, listens on 127.0.0.1:443, answers chat turns
from a provider of the user's choice and relays everything else.  A desktop
window launches the daemon behind an authorization prompt and talks to it over
a loopback control channel.  This directory holds TLA+ modules translated from
the code in `src/`, the TLC configurations that check them on small instances,
and proofs, checked by TLAPS, of what holds for every instance.

## 1. The system's parts

| part | code | state it keeps | operations | what is hard | what makes it right |
|---|---|---|---|---|---|
| daemon life cycle | `cli/main.rs` run_daemon, `core/session.rs`, `proxy/control.rs`, `proxy/preflight.rs`, `privilege.rs` | where it is in its run; control channel; stop flag; port 443; `/etc/hosts`; `hosts.staged` | enable batch, resolver repair, bind, serve, stop, disable batch | several daemons and restores over one staging file; kills, signals, steps of a batch failing | no redirect left behind by an orderly run; no user edit lost; a stop restores; a start settles |
| desktop supervisor | `desktop/daemon.rs`, `commands.rs`, `main.js` | launcher, session, start time, ready flag, sticky error; `daemon-session.json` | start, stop, status, restore | asynchronous prompt and daemon; 2, 5, 20 and 30 s time-outs; a window that dies and returns | a stop returns, or waits for its own prompt; a launch settles; a stop that shows no error has left nothing behind, or has given its restore up; a daemon that answers can be stopped, unless a command overtook its start |
| chat interception | `proxy/intercept.rs`, `provider.rs` | task position, channel of 32 frames | read, translate, send, finish | bounded channel, silent provider, client abort, failure in mid-stream | everything arrives once and in order; streams end marked; nobody waits for ever |
| stream translator | `translate/response.rs`, `translate/thinking.rs` | tool calls by index, usage, held-back text, open block | on_chunk, finish, push, flush | tags and lines cut anywhere; late usage; odd tool deltas | cutting makes no difference; tool calls are announced and ended once |
| SSE reader | `translate/sse.rs` | bytes of an unfinished line | push, flush | cuts, a last line without newline | no payload lost or made up |
| hosts text | `core/hosts.rs` | none; the text is the daemon life cycle's | apply, strip, is_applied, is_current | a block without its end, blank lines, carriage returns, missing newlines | the block comes and goes, the user's lines stay |
| router, TLS front | `proxy/mod.rs`, `route.rs`, `sni.rs`, `mapping.rs` | listeners | accept, classify, resolve a model | shutdown with connections open | unmapped traffic passes through |
| passthrough, DNS | `proxy/passthrough.rs`, `dns.rs` | address cache, 300 s | resolve, connect, relay | stale entries, concurrent misses | one dead address strands nobody; a move is noticed |
| request translator | `translate/request.rs` | none | to_chat_request | results of calls of other turns or of none, empty turns, images of odd formats, where tools are declared | every result follows its call; all that was said is kept, in order; nothing is made up |
| account pool | `account/pool.rs`, `resolve.rs`, `store.rs`, commands of window and CLI | one accounts file, the IDE's token cache | switch, mark exhausted, refresh, remove | load, await, save; rolling refresh tokens, of which an import drops one | no account or mark lost; a token that is lost costs its own account alone |
| account import, export | `account/import.rs`, `export.rs` | none; the folders are read once | pick the token file and the client registration it goes with, refresh, upsert | a cache of several accounts, rewritten while it is read; older layouts and names | an imported account can be refreshed: token and registration are of one account |
| configuration | `appconfig.rs`, `paths.rs` | one file | set provider, mappings, fallback, all of them | load, change, cut, write by two programs | every setting has the value it was last given |
| certificates | `cert/*.rs`, `session.rs` | `rootCA.crt`, `rootCA.key`; trust settings | load or create, replace when due, ask for trust, install, serve | two creators at once; a failure between the two files; expiry under a serving daemon | root and key match; what is served is what is published; trust lasts |
| batch validation | `privilege.rs` validate | none | accept a batch | - | only shapes the program makes |

How they interact: the window spawns the daemon (through `osascript`, `pkexec`
or PowerShell) and afterwards knows it only by the control channel; both run
privileged batches that stage in the same file; the daemon's listener hands
each chat request to interception, which spawns one task per turn; task and
response body share only the channel.

## 2. The modules

- **DaemonLifecycle** - the daemons of a machine and the elevated restore
  batches ("helpers").  `pc` is the place in `run_daemon`; `hosts` and
  `staged` are the two files (`block`: our block is in it; `user`: which
  version of the user's lines it holds); `ctl`, `stopReq` and `armed` are the
  control channel, the resolved shutdown future and the registered Ctrl+C
  handler.  One action per step: `Start`, `StageEnable`, `InstallEnable`,
  `FlushEnable`, `CheckResolver`, `ReloadResolver`, `Recheck`, `BindControl`,
  `BindListener`, `Shutdown`, `StageDisable`, `InstallDisable`,
  `FlushDisable`, each with its failure.  `UserEdit`, `Kill`, `Foreign*` are
  the surroundings.  `raced` and `mishap` are history: an edit fell between a
  staging and its copy; a process ended owing a restore.
- **Supervisor** extends it with the window.  `gui` is the `Supervisor`
  struct, `file` the session file, `prompt` the authorization prompt of each
  launch, `cmd` what the command that holds the mutex is doing.  `Reap`,
  `AfterProbe`, `StateOf` are the three parts of `status()`.  Every step of it
  is a conjunction of a step of DaemonLifecycle, or none, with what the window
  does.  `restore_if_stranded` has five ways out: `FoundClean`;
  `RescueGivesUp`, without an error, when the file cannot be read as text or
  there is no place for a log; `RestoreRefused`, with one, before anything is
  launched; and `Restored`, after a batch that succeeded or failed.
  `overtaken` is history: the launches that were coming up while a command
  changed the session file or stopped asking for a stop.
- **HostsText** - `hosts.rs` as operators on texts: `strip`, `apply`,
  `is_applied`, `is_current`.  A text is a sequence of symbols; a symbol is a
  line terminator, the first or last line of our block, or a word.
- **HostsEditing** extends DaemonLifecycle with the text of the hosts file and
  of the staging file.  Every step that touches the file also does to its text
  what `hosts.rs` and `cp` do to it; `CutShort` is a batch that ends in the
  middle of its copy, `EditText` the user's editor.  `mine` is history: the
  lines the user owns, as last written.
- **ThinkingSplitter** - `thinking.rs` over symbols: what is held back, what
  is released, which tag closes a block, in either case of the letters.
- **StreamState** - the translator of chunks into frames, with the splitter.
- **RequestTranslator** - `to_chat_request` as an operator from the IDE's
  conversation to the provider's messages and tools, and what it owes.
- **ChatStream** - a chat turn: the conversation it starts from, the call, the
  task, the channel, the client.  `asked` is the conversation, `wire`
  everything sent; the channel holds what lies beyond `read`.
- **EventStream** - the abstract promise to the IDE's decoder (opened at most
  once; tool calls begun and ended once; stopped only when all have ended;
  nothing after the end).  ChatStream is shown to implement it by
  `Decoder == INSTANCE EventStream WITH ...`.
- **AccountPool** - the pool of Kiro accounts.  `file` is `accounts.json`,
  `ide`, `tmp` and `reg` are the IDE's token cache with its temporary file,
  `live` is the refresh token the server takes for each account.  `work` is
  what each command of the window or run of the CLI is doing: the pool it
  loaded, the credential it holds, the step it is at.  `Begin*` load the
  store; `Refresh`, `ProfileResolved`, `UsageRead` and their failures are the
  network; `Register`, `Blank`, `Fill`, `Swap` are `write_sso_cache`;
  `Truncate` and `Write` are `AccountStore::save`.  `marked` is what the
  window was told is exhausted, `mishaps` what has gone wrong so far with the
  files and processes; `lost` and `dropped` are the accounts whose newest token
  nobody has, until one of theirs is taken again: `lost` after a call that
  failed, `dropped` after a lookup of the profile that succeeded
  (`resolve.rs:186-193`).  All four are history.  An import reads a folder: one that was handed over (`Shared`: as
  exported, of an older version, or with its registration renamed), or the
  IDE's own cache as it is by then (`IdeCache`); `find_client_registration`
  picks the registration that goes with the token.
- **DataDir** - the files that window, command line and daemon share beside
  the accounts: `cert` and `key` are the two files of the root (a certificate
  and its key have the same number, `Torn` is a file that was cut or is half
  written), `user` and `system` what the trust stores name, `config` the
  settings.  `work` is what each command is doing, with the root or the
  settings it has in its hands: `ReadCert`, `ReadKey`, `Make`, `CutKey`,
  `FillKey`, `CutCert`, `FillCert` are `load_or_create`; `TrustStands` to
  `TrustRefused` what is done with the root; `BeginSettings`, `CutConfig`,
  `FillConfig` a command that changes a setting.  `met`, `clashed` and `hurt`
  are history: a root was made beside another load, two such commands
  overlapped, one ended in the middle of its save.
- **RootRegistry** - the abstract promise of the two files of the root: one
  root at a time, in place with its key in one step, made only once the one
  before has expired, never one that has expired again; it alone is served and
  trusted.  DataDir is shown to implement it by `Registry == INSTANCE
  RootRegistry WITH ...`, where `Published` is the root in the files if the key
  goes with it and it is not due.  Like `PairsMatch` this is claimed while no
  root has been made beside another load (`met`).
- **ProxyFront** - the daemon while it serves: what DaemonLifecycle takes for
  one step from binding to returning, and what lies around a ChatStream.
  `spawned`, `stop`, `seen` and `ended` are the listener tasks and the watch
  channel that stops them; `conn` is what each connection is doing, one
  request after the other; `cache` is the address cache, `zone` what the public
  resolver would answer.  `full` and `refused` of a connection are history:
  the answer its request was given and the addresses of it that refused.
- **DaemonLifecycleProofs**, **HostsEditingProofs**, **SupervisorProofs**,
  **ChatStreamProofs**, **AccountPoolProofs**, **ProxyFrontProofs**,
  **DataDirProofs** - theorems.  **CommonLemmas** - what several of them rest
  on: induction over sets of numbers and of sequences, functions and loops
  given by a step, parts and concatenations of sequences.
- **MC*** - instances.  Operators named `Action_Variant` next to an action are
  mutated forms of it, the mistake each stands for named above it; each
  makes one property fail, which shows that the property depends on the code.

### What is abstracted

Reading the hosts file and staging it is one step, `chmod` goes with the
flush; in DaemonLifecycle the copy is atomic, in HostsEditing it may be cut
short.  The resolver's answer is an input (a name that does not
resolve counts as redirected, `session.rs:86-88`).  `SetNodeCaEnv` and
`ensure_ca_trusted` change no state modelled here: their failures are part of
the enable batch's, or ignored by the code.  The control channel of a daemon
that was interrupted stays open until it exits; after POST /stop only a
connection that was already open is answered ("draining").  Connections in
flight are not awaited at shutdown (nor by the code).  A launch draws a fresh
port and token, so a session is named by its daemon slot, and in Supervisor
each slot is launched once.  Time-outs are nondeterministic.  At most one
restore batch of the window runs at a time.  The window's death in the middle
of a command is `Reopen`; a batch it started goes on.

In the two modules about text a symbol is a run of characters that nothing in
the code tells apart, and a cut between two symbols stands for every cut
there: a tag is several symbols, and so is a line with its terminator.  The
remark in our block and the second address of every host are left out.

In StreamState a payload carries at most one tool-call delta: the code handles
several in a row without any effect between them, so they behave as successive
payloads.  In RequestTranslator a text, an image, a result and a tool's
specification are names.  `model_id`, tool inputs, schemas and the JSON and
binary encodings are left out.

In AccountPool the score of an account is left out (any active account with
credit may be chosen), and of its credit only whether some is left.  A roll of
a refresh token makes the one before it useless, as `resolve.rs:92-93` has it;
the server may also return the same token.  Headless API keys, the `.bak`
copy and `find_active_label` are left out; exporting only reads the pool and
appears as the folder it writes.  An import of a token the server no longer
takes can only be refused, and is left out.  Registrations of different
accounts have different file names; older names, hashes of a start URL that
accounts may share, are left out.
`Register` writes its file in one step, although `atomic_write` has three: the
temporary file is named after the account, so only two switches to one account
meet in it.  `Register` records their meeting as a `clash`, of which
`CacheIsWhole` and `ImportsAreWhole` say nothing; what else the two could leave
in that file is not modelled.
A command is given once to each slot.  An account's id is its client
registration's hash and the process that imported it, `fam` and `pid`.

In DataDir a setting is named by who gave it; the provider's key stands for
the provider.  Certificates are not computed: a root is a number, it comes due
at any time, and it goes with the key of the same number.  Whether the system
trusts a root is whether a store names it; asking `security verify-cert` is
one step.  The leaves, which a daemon makes in memory for each name, follow
the root it serves.  A file that two writers have mixed is `Torn` like one that
was cut.

In ProxyFront the parallel streams of an HTTP/2 connection count as
connections of their own.  A request is its host, whether its path is the
health probe's, whether it has the form of a chat turn, and the model its body
names, if it parses.  Health probes and chat turns are answered at once (what
a chat turn does is ChatStream).  Addresses refuse or accept at will.  An
answer's order within IPv4 and within IPv6 is arbitrary.  The resolver library
keeps answers for as long as their records allow; that cache is left out.

## 3. The runs

| run | instance | shows |
|---|---|---|
| daemon_pair | 2 daemons, 1 helper, 1 edit | `TypeOK`; `StrandNeedsMishap`; `EditsSurvive` |
| daemon_solo | 1 daemon, no helper, 1 edit, 4 texts of the user's, copies cut anywhere, fair | `ServingIsRedirected`; `BlockAsText`; `OwnLinesStay`; `AppliedIsCurrent`; `StopRestores`; `StartupSettles` |
| enable_fails | 1 daemon | violation: the log line of a failed enable batch |
| supervisor_pair | 2 launches, 1 helper | `SupervisorTypeOK`; `OrphansWereOvertaken` |
| supervisor_life | 1 launch, another process may answer on its port, fair | `ImplementsLifecycle`; `CalmStopLeavesClean`; `CommandsReturn`; `LaunchSettles` |
| stale_pairing | 1 launch, fair | violation: "discarded on the next status poll" |
| reopen_reattach | 2 launches | violation: "reopening the window re-attaches" |
| chat_stream | conversations of up to 2 earlier turns, 3 payloads of 13 kinds, 2 tool indices, 2 ids, channel of 2, fair | `TypeOK`; `ContentIsWhole`; `ToolFramesAgree`; `UsageIsLatest`; `EndIsMarked`; `RequestIsWhole`; `RequestIsAnswerable`; `KeepsPromise`; `AbortFreesTask`; `EndReachesClient` |
| account_pool | 1 window command, 1 CLI run, pools of up to 2 accounts, 1 roll of each token | `PoolTypeOK`; `TokensSurvive`; `CacheIsWhole`; `ImportsAreWhole`; `MarksStand` |
| proxy_front | 2 connections, 1 hijacked host, 1 IPv4 and 1 IPv6 address, 2 listeners, TTL of 2 ticks, fair | `FrontTypeOK`; `NeverStranded`; `MovesAreNoticed`; `DialingEnds`; `StopEndsListening` |
| data_dir | 1 command of the window's main thread, 1 asynchronous one, 1 run of the command line or daemon, 2 roots | `DirTypeOK`; `PairsMatch`; `TrustLasts`; `SettingsStand`; `KeepsRegistry` |
| rolled_tokens | the same as account_pool | violation: "the caller must persist it" |

**Bounds.** Two daemons and a helper are enough for every overlap of two
stagings and a copy; a third adds no new pair, and the theorems cover any
number.  One edit suffices: what matters is whether one falls between a
staging and its copy.  Two launches are what it takes to overwrite a session
file.  Three payloads give a held piece, one more, and the tag that swallows
both, or two tool calls and a usage; reads of one or two payloads, the last of
them cut or not, give every cut; the pieces of content cut both tags in the
middle, and between them.  Two earlier turns are a call and its result, or two
results; a third repeats a neighbourhood.  What the translator of requests
does is over before the first payload, so conversations and payloads are not
multiplied with each other: the conversation is forgotten once the request has
been made.  The channel of 32 is one of two: every
send can find it full.  In `supervisor_pair` the constraint `PortIsOurs`
leaves out other programs on 443, whose only effect, a failed bind, is
possible there anyway.  In `supervisor_*` no edit is made (`MaxEdits = 0`);
the theorems allow any number.

In `account_pool` one command of each process overlaps with the other at every
step; two window commands overlap no differently, except that they die
together.  Two accounts are a marked one and its successor, or two that an
import mistakes for each other; one roll is a token that went stale.  The
constraint `Spared` goes on after any number of failed calls and dropped tokens,
or else after a death or a failed save; it ends a behaviour where one of these
meets one of those, and at every other mishap (an overtaken or torn save, a
clash), of which the properties say little or nothing.  The theorems have no
such bound.

In `daemon_solo` the user's texts are empty, without a last newline, with a
carriage return, and with blank lines at either end and in between: one of each
above and below the block.  One edit is enough for the user to write around a
block that is there, or is not.

In `data_dir` three commands are enough for one that makes a root, one that
loads it and one that serves it, or for two that change settings.  Two roots
are one and its successor.  `Spared` ends a behaviour where the properties
claim nothing any more, and keeps commands that load a root and commands that
change a setting from running at once: they share only whether the settings
are complete, which a start reads in one step.

In `proxy_front` two connections are two misses whose answers overtake each
other; a host of its own would only have a cache entry of its own.  Two
addresses are one to fail and one to fall back on, of either family.  Two
ticks are an age at which an entry is used and has aged.

**Deadlock** is checked where the system never stops (the daemon runs, `data_dir` and `proxy_front`).  A
slot of Supervisor is launched once, and a chat turn or an account command
ends, so there it is off.

**Fairness.** A running daemon keeps running: every command of a batch and
every bounded wait comes back (`WF` on each daemon's own steps), but nobody
need start, stop, kill or edit, and no user owes an answer: not to a launch's
prompt, not to the dialog that trusts the root, which a start awaits without a
time-out while it holds the mutex (`daemon.rs:280-286`), and not to the prompt
of a restore batch.  The window polls on a timer (`main.js:1590`), the grace
period of 30 s runs out, a stop's own waits are bounded by 5 and 20 s, and a
batch that has copied its file ends.  So `CommandsReturn` speaks of stops only,
and lets one wait for the prompt of its own restore; `LaunchSettles` is claimed
of one launch, since a second start may hold the polls up for as long as its
dialog is open.  In a chat turn the runtime polls a task that can go on and
the IDE drains its body; the provider is granted nothing at all, because the
code sets no time-out after the connect (`provider.rs:34-36`).  In
ProxyFront a lookup comes back because the resolver library gives up after
seconds, a connect because the system does; a client, a handshake and an
upstream's response may take for ever, and nothing is claimed of them.  The number of
payloads is bounded, so `select!`, which picks among ready arms at random,
needs no stronger assumption to notice a client that left.

## 4. Where code and documents disagree

1. `main.rs:598` logs that the hosts file is unchanged when the enable batch
   fails; a flush that fails after the copy leaves the redirect in place.
2. `README.md:291` has a stale pairing discarded on the next poll; a session
   that has answered once, or was loaded from the file, never is.
3. `README.md:289` has a reopened window re-attach; a second start during the
   first one's start-up overwrites the session file.
4. `resolve.rs:92-93` has the caller persist a token that rolled forward; an
   account without a profile is refreshed twice (186-193), and the second token
   is dropped.  The import saves the first, which the server takes no more.

Two more have no run of their own.  `daemon.rs:771-777` has a stop put the
hosts file back, lest the window say "stopped" over a redirected machine; when
the file cannot be read as text (787-790), or there is no place for a log
(794), the restore is given up and no error is set.  A file that cannot be read
counts as clean for the banner too (`commands.rs:433`).  In the model this is
`RescueGivesUp`, the one end of a stop of which `CalmStopLeavesClean` says
nothing.  And `account/mod.rs:145` has a label be the key of every lookup;
`upsert` (`store.rs:55-58`) replaces the first account whose id or label
matches, so importing an account again under another account's label leaves two
with that label.

Smaller ones: `eventstream.rs:79` has every stream open
with initial-response, but a provider that breaks off before the first frame
gives a bare exception.  `commands.rs:192` calls a save of several settings
atomic; it is one write, of a file that is cut first.  `hosts.rs:5` calls apply
and strip "exact inverses": blank lines at the end, a missing last newline or
a carriage return before it are not given back, so `OwnLinesStay` speaks of
lines that are not blank.  `is_current` (`hosts.rs:95`) is false of a file in
which the user has written below the block, and the window's start report
(`daemon.rs:445`) then calls it clean.

`README.md:311` promises recovery by running the daemon once more and stopping
it: `StrandNeedsMishap` holds because the next orderly run does repair the
file.  The comment at `main.rs:651` about refusing to start over a stale block
describes nothing in the code.  With two daemons, one that fails to bind 443
takes the redirect from under the one that serves; `ServingIsRedirected` is
therefore claimed of one process at a time.

Four more are known to bite, and no property says otherwise: that daemon's
restore; two programs that save the pool, or the settings, over each other; and
two loads that each make a root.  `TokensSurvive`, `MarksStand`,
`SettingsStand` and `PairsMatch` are claimed as long as the last three do not
happen, which the histories `mishaps`, `clashed` and `met` record.

## 5. The proofs

Assumptions: daemon and helper slots are disjoint, the two port values are no
slots, `MaxEdits` is a natural number (`ProcsAssumption`, `EditsAssumption`),
and, for the supervisor, one helper slot (`HelperAssumption`).

- `TypeCorrect`: `Spec => []TypeOK`.  `TypeOK` is inductive; its conjunct
  "443 is held by d iff d is serving" carries the argument.
- `StrandsNeedMishaps`.  Not inductive alone: a copy installs whatever is in
  the shared staging file.  The strengthening says, while there has been no
  mishap, that a staging file or hosts file with our block in it has a process
  that still owes a restore.
- `EditsSurviveBatches`.  The strengthening says that while a staging is
  under way unraced, the staging file holds the latest edit.
- `LoneDaemonIsRedirected`: `ServingIsRedirected` when all processes are one.
  The strengthening follows block and staging file along the run.
- `SupervisionImplementsLifecycle`: initial states map to initial states, and
  each action of the window, the prompts, the helper and the launched daemons
  is a step of DaemonLifecycle or leaves it alone.  So
  `SupervisedStrandsNeedMishaps` and `SupervisedEditsSurvive` follow without
  another induction.
- `SupervisorTypeCorrect` and `OrphansNeedOvertaking`, for any number of
  launches, from one strengthening (`SupervisorInv`).  Neither is inductive
  alone: that an answering daemon is on file has to be known from the prompt
  on.  `PairOrder` says it of every launch that is coming up or answers and
  that nothing has overtaken: it is on file and in the window's hands, and no
  stop is being concluded; and what a start has drawn while the root is being
  trusted is on file and not launched.  `ChannelOrder` says a control channel
  is had only from "bound" on, so that a daemon's own steps open it once.
  Which launches are alive changes only with a launch (`ChannelStep`); that
  whoever stays alive is held on to or remembered as overtaken is `HoldStep`,
  with one step per group of actions.
- `CalmStopsLeaveClean`: `CalmStopLeavesClean` when there is one launch; with
  two, one can overtake the other in hosts.staged.  It is claimed of every stop
  that has not given its restore up (section 4).  The strengthening
  (`CalmInv`, on top of `SupervisorInv`) says that once our block has been
  anywhere, the banner is up or a restore is under way (`Touched`), the one
  daemon is past its staging (`Past`), so nobody stages the block any more:
  what a running restore installs has no block, and nothing it leaves behind
  has one.  A stop then replies in one of three ways (`CalmEnds`): it has found
  the file clean, shows an error, or has waited for its restore.
- `CacheStaysWhole`: `CacheIsWhole` for any number of commands, whatever fails
  and whoever dies.  The strengthening (`CacheOrder`) says, while no two
  commands have had the temporary file open at once: who is about to write it
  has its registration in place, who has opened it finds it empty, who has
  filled it finds its own whole token in it, and no one else is there.
  Assumption: `Torn`, `None` and the accounts are different values
  (`NamesAssumption`).

- `PoolTypeCorrect`: `PoolTypeOK`, whatever fails, crosses or dies.  What is
  needed besides the types (`PoolInv`) is that no place knows a token the
  server has not given out: the file, a command's copy of the pool, its
  credential, the IDE's cache.
- `TokensKept`, `MarksKept`: `TokensSurvive` and `MarksStand` for any number
  of commands, accounts and rolls, from one strengthening (`OrderInv`).
  `FileOrder`: while no save was stale or torn, no account is in the file
  twice, and whoever is in the middle of a save is the only one whose copy is
  still the file's.  `TokenOrder`: while no mishap has happened, every account
  of the file has the token the server takes, or a command that is under way
  has that token in its hands or in the copy it is about to save, or the
  account is known to have lost it (`Gone`); and so has every copy that may
  still be saved, but for the account its command is about to put in.  A call
  that fails, and a lookup that drops the token it rolled, makes no other
  account lose one (`DroppedTokens`), and the next refresh that is taken
  makes it good (`RolledTokens`).  `MarkOrder`: likewise for what the window was told is exhausted.
- `ImportsWhole`: `ImportsAreWhole` for any folders and any number of commands.
  `ImportInv` builds on `CacheInv`: the IDE's folder holds a whole token with
  its registration beside it, so what `find_client_registration` picks is of
  the same account.
  Assumptions of the four: `BoundsAssumption`, `CommandsAssumption`,
  `NamesAssumption`.
- `StreamTypeCorrect`: ChatStream's `TypeOK` for any pieces, tools, ids and
  channel.  The splitter and the translator are loops over what is held back;
  `LoopEnds` and its companions in CommonLemmas carry an invariant through
  them.  `Typed` adds what is empty between two reads.
- `EndMarked`, `ToolFramesKept`, `UsageLatest`: from one strengthening
  (`StreamInv`) over `Stream`, the frames sent and those about to be.  The
  stream is `WellFormed` (opened first, ended last; opened, a call begun and a
  call ended at most once; no call begun after one has ended; every named call
  ended before the stop, none before an exception; frames of one call agree);
  the translator's state `Mirrors` what the frames have said of the calls; what
  is queued is what the provider said last (`Queued`), and the usage the latest
  of what was fed (`LatestIn`).
- `PromiseKept`: ChatStream implements EventStream.  A prefix of a `WellFormed`
  stream is one, so that each frame the client reads is a step of EventStream
  (`Moves`), and every other action leaves what was read alone.
- `RequestAnswerable`, `RequestWhole`: what `to_chat_request` owes a
  conversation of any length.  That the request is that of the conversation is
  an invariant of two lines (`AskInv`); the rest is induction over turns, a set
  of sequences closed under one more turn being all of them (`SeqInduction`).
  What a request says is gathered message by message, and what the turns say
  turn by turn; both are concatenations, and a turn's messages gather what the
  turn says (`GatheredConcat`, `FlattenConcat`).
- `ContentWhole`: `ContentIsWhole` for content of any length, in whatever
  pieces it comes.  `At(w, i)` is where one reading of the whole text `w`
  stands behind its i-th symbol.  The strengthening relates it to the splitter:
  in whatever text begins with what has been fed, reading stands, behind all of
  it that is no longer pending, where the splitter does (`Standing`).  What is
  released belongs to no tag, whatever comes next (`NoTagReleased`): a tag that
  began in it would have grown from a suffix that is held back.  A tag found
  whole is begun by the reading at the same place (`NoTagAhead`): none began
  before it, and no other one begins with it.  So every turn of the loop keeps
  it (`PassStands`), and by `LoopKeeps` the loop does (`PushStands`); what is
  flushed at the end is the rest of the reading (`FlushStands`).  What the
  frames carry is a concatenation (`CarriedParts`); a chunk and the end of the
  stream put on it what the splitter gave (`ChunkCarries`, `FinishCarries`) and
  everything else carries nothing (`MuteCarries`).  `ContentInv` puts this on
  top of `StreamInv`: while the turn speaks, the stream carries what has been
  fed but for what the splitter holds (`SpokenOf`); from then on it carries a
  beginning of the whole, and all of it if it has its stop (`WholeOf`).
  Assumptions of ChatStreamProofs: what the modules below it say of their
  constants (`SymbolsAssumption`, `TagsAssumption`, `ApartAssumption`,
  `ToolsAssumption`, `AsideAssumption`, `ConversationAssumption`,
  `AsksAssumption`, `ChunksAssumption`, `BoundsAssumption`).  No opening tag
  has another one in it (`ApartAssumption`): the code has the fixed list
  `<thinking>`, `<think>` (`thinking.rs:10`), and with tags `abc` and `b` the
  splitter would depend on where the text is cut.
- `DirTypeCorrect`; `PairsCorrect`, `ServesCorrect` and `TrustCorrect` from one
  strengthening (`RootOrder`), for any number of commands and roots.  It says,
  while no root has been made beside another load: whoever makes a root is the
  only one to load one; there was no root worth taking when it began, and so
  none that a daemon serves or the user trusts is lost; the key is in place
  before the certificate that goes with it appears; and what a command took
  for a root has its key.  `RegistryKept`: on top of it, who makes a root makes
  the newest one (`Newest`); then filling the certificate is the one step in
  which a root appears, and every other step of DataDir is a step of
  RootRegistry or is not seen by it.  `ServesPublished` is proved
  only: no run asks for it, since RootRegistry serves nothing but the root in
  use.  `SettingsCorrect`: while no two commands that change
  settings overlapped and none ended in the middle, what such a command is
  about to write are the settings as last given, and its own.  Assumptions:
  the three kinds of commands are disjoint, `Torn` and `None` are no numbers
  (`ActorsAssumption`, `NamesAssumption`, `RootsAssumption`).
- `TextImplementsLifecycle`: the life cycle over texts implements the one
  without; a copy that is cut short is a batch that fails, or a kill.
  `TextServingIsRedirected` follows.
- `BlockIsAsText`, `AppliedStaysCurrent`: `BlockAsText` and `AppliedIsCurrent`
  for any number of processes, texts of any length and any list of hosts.
  They rest on what `strip` and `apply` do to a text that is `Shaped` (either
  end of our block is in it at most once, and the last line only behind the
  first): `Stripped` (what is left is the user's, with the user's lines),
  `ApplyIs` (what the user has, without the line ends at its end, and the block
  behind it), `StripBack` (stripping that gives it back), `EditedAround` (what
  an edit makes of it), `ShapedPrefix` (so is every first part of it).  The
  strengthening (`FileInv`): file and staged text are `Shaped`; a staged text
  with the block is what `apply` makes of some text; and what the life cycle
  says of either is what its text shows, but of a file that was cut short.
- `OwnLinesAreKept`: `OwnLinesStay` when all processes are one.  The
  strengthening (`OwnInv`): while a staging is under way, the staged text has
  the user's lines, as long as no edit has raced it.  With a second process the
  history `mine` would have to follow whose copy was cut short.
  Assumptions: neither end of the block is one of the user's words, there is a
  host and every host is a word (`HostsAssumption`; the code's list is not
  empty, `config.rs:6-13`), and the user writes words and line ends
  (`TextsAssumption`): nobody but the program writes the two lines of the
  block.
- `FrontTypeCorrect`, `NobodyIsStranded`: type correctness of ProxyFront and
  `NeverStranded` for any number of connections, hosts and addresses.  The
  strengthening: a request that dials has yet to try every address of its
  answer that has not refused it, and a cache entry lacks none of the answer
  it was made from.  Assumptions: there is a listener, TTL is positive, the
  addresses are finitely many (`SizesAssumption`, `AddrsAssumption`).

Only model-checked: everything with fairness (`StopRestores`,
`StopEndsListening`, `MovesAreNoticed`, `DialingEnds`, `StartupSettles`,
`CommandsReturn`, `LaunchSettles`, `AbortFreesTask`, `EndReachesClient`), which
is out of the prover's reach.  Every other property of a passing run is stated
by a theorem.

## 6. The plan

Done: DaemonLifecycle, HostsEditing, Supervisor, ThinkingSplitter,
StreamState, RequestTranslator, EventStream, ChatStream, AccountPool, DataDir,
RootRegistry, ProxyFront.

Left, in order:

1. An abstract store of accounts whose commands are atomic, and AccountPool
   shown to implement it as long as no two commands overlap.
2. The parts that are modelled partly: the bytes of a line in the SSE reader,
   the score of an account.

Not modelled, and why: the check of a privileged batch (`privilege.rs`
validate) and its encoding are a test of shapes without a state; the command
line apart from the daemon and the commands above parses and prints; rendering
is presentation.  Certificate generation, key parsing, JSON and binary framing
and the relaying of bytes are computation by libraries.
