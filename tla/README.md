# Verification of code-server (Claude Code Server)

TLA+ modules for the parts of this repository whose correctness depends on the
order in which things happen, TLC configurations that check them on small
instances, and TLAPS proofs for every value of the constants. `PROJECT.json`
maps every definition to the source lines it models, and lists the runs, a
mutant per property, the hazards and the theorems.

    tlc -workers 2 -config MCProcessWrapper.cfg MCProcessWrapper.tla
    tlapm ProcessWrapperProofs.tla

## Inventory of the system

| Component | Source | State | Operations | What is hard | What makes it correct |
|---|---|---|---|---|---|
| Process wrapper | `src/node/wrapper.ts`, `entry.ts` | parent: current child, listeners, timers; child: handshake, disposal | start, hot-swap (SIGUSR1/2), terminate, handshake, exit, poll of the parent | two processes, signals at any moment, kills, time-outs, a child that is replaced while it starts | no stray child, no orphan, the end of the child is noticed and reported, a healthy child keeps its parent |
| Server life cycle | `main.ts`, `app.ts`, `http.ts` (`disposer`) | two listening servers, their open sockets, the timers of their disposal | create, listen, dispose, force-close | close waits for every socket, and fails for a server that does not listen; a disposal emitted twice | disposal ends; sockets get their second to close |
| Heartbeat, idle shutdown | `heart.ts`, `routes/index.ts`, `main.ts` | last beat, state, heartbeat timer, probe, idle timer | beat, probe, expire, shut down, dispose | two clocks, timers that race with requests, a probe that does not call back | no shutdown under use, none early, a beat per interval, an idle server exits |
| Persistence bootstrap | `railway-entrypoint.sh` | home, links, volume | move once, link back | crash between commands, commands that fail, restart and redeploy | nothing saved is lost, directories survive a redeploy |
| Settings | `settings.ts` | one JSON file | read, merge and write | callers interleave at every await; write truncates first; crash | no key is lost, the file stays readable |
| Update provider | `update.ts` | memo of the running check, stored result | getUpdate, forced or not | concurrent callers share a check; errors | one check at a time, every caller is answered, a failed check is not stored |
| Editor sessions | `vscodeSocket.ts`, `cli.ts` | registry of editor sockets | add, delete, look up with liveness check | the look-up works on a snapshot across awaits while sessions come and go | the best live session is found, live sessions stay registered |
| TLS socket proxy | `socket.ts` | memoised proxy server, pending pairs | createProxy, stop | pairing by id with a time-out; a start that fails | a socket is paired once, with its own peer, or destroyed |
| Emitter | `common/emitter.ts` | list of listeners | subscribe, emit, dispose | a listener list that changes during emit | each listener hears each event once; emit waits for all |
| VS Code route | `routes/vscode.ts` | memoised server and its load; memoised key and its file | load, retry, draw the key, hand requests and sockets over, last opened folder | many requests await one load, which may fail; the process dies while it writes the key | loaded once at a time, a failed load is retried, one key for all and for good |
| Request pipeline | `routes/index.ts`, `wsRouter.ts`, `errors.ts` | none across requests | order of middleware | every route must pass the checks before it; some layers hand on what they do not answer | nothing guarded is reached around its check |
| Authentication | `http.ts`, `util.ts`, `routes/login.ts`, `logout.ts` | the browser's cookies, the limiter | check, log in, log out | cookies outlive the arguments they were made with; several cookies of one name; the domain of a cookie | only today's password opens; the login can be reached, and lets in where it was done |
| Proxies | `proxy.ts`, `domainProxy.ts`, `pathProxy.ts` | none | map host or path to a port | what the login needs has to get past the proxy | see the two rows above |
| CLI, configuration | `cli.ts`, `entry.ts`, `util.ts` (`generateCertificate`) | arguments; config file, certificate and key | parse, create and read the file, generate a pair, defaults | flags, environment and file override one another; several starts share the files and may die | each argument comes from the right source; one config file; a pair that fits |
| Others | `util.ts`, `constants.ts`, `i18n`, browser assets, `ci`, `install.sh`, patches | | | | not modelled |

How they interact. The *parent* forks the *child* and talks to it over an IPC
channel and signals. The child's `runCodeServer` creates the HTTP server and
the session server, registers the routes and hands its `dispose` to the wrapper,
which calls it on SIGTERM or when the parent has died. Every request but
`/healthz` beats the *heart*, whose state changes drive the idle timer of
`main.ts`, which ends the child through the wrapper; the parent sees that exit
and exits with the same code. The routes share one settings file and one update
provider. Extension hosts register with the session server, and a second
`code-server` command asks it where to open a file. Around all of it,
`railway-entrypoint.sh` prepares the home directory before the server starts.

## Modules

### Supervisor

The abstract promise of the wrapper to whoever runs the server: `up`, the
children `seen`, the one in charge (`current`) and those `leaving`. Launching a
child gives its predecessor up, a child given up leaves for good, and a server
that lost its child stops or gets a new one.

### ProcessWrapper

One action per callback of an event loop or deed of the operating system.

| Model | Code |
|---|---|
| `parent` | how far `ParentProcess` is: before `start`, running, after `_onDispose` (its handlers removed), exited, killed |
| `child`, `Spawn` | `this.child`, `_start`/`spawn`; children are numbered in order |
| `listeners`, `timers` | what `onMessage`, `_start` and `disposeChild` leave on each child, and the armed handshake timers |
| `proc` | a child from fork to exit: `booting` (no handlers yet), `handshaking`, `starting`, `listening`, `serving` (its `dispose` is registered), `disposing`, and how it ended |
| `channel`, `sigterm`, `port` | IPC message, signal on its way, owner of the configured port |
| `Hotswap` | `relaunch`: `disposeChild` without await, then `_start` |
| `ExitWith` | `Process.exit` with the `exit` event, which disposes of the child unless disposal removed the listeners |
| `Terminate` | SIGINT/SIGTERM; the second one meets no handler |
| `ParentPoll` | the interval in `ChildProcess` that checks `process.kill(parentPid, 0)` |

What is abstracted: the arguments, the log streams, `preventExit`; that a
process id is reused while a child polls it; that the configured port is fixed
(with port 0 or a socket path the new child never fails to listen). The error
event of `fork` is a child that ends with 1. Time-outs may expire at any moment
while armed, since nothing bounds the duration of the other steps.

### Heart

`age` is `Date.now() - lastHeartbeat`, `timer`, `probe` and `idle` are the
remaining ticks of the three timers. Timers count a monotonic clock; `age`
counts the wall clock, which `ClockStepsBack` may set back. Timers and events
of one tick come in any order, and `Tick` waits for due timers as an event loop
does. `probe` is a `getConnections` that has not called back, which the code
covers with a fall-back of five seconds. `held` and `quiet` are history
variables: a connection open since the last beat, ticks since the last request.
`limit` may be any: `parse` refuses one that does not exceed the interval only
when it can read it already (`cli.ts:431`), so `Init` admits smaller ones, and
the properties name the limits they hold for. `IdleDelay` is what `setTimeout`
makes of a limit: one above 2^31 - 1 ms (`MaxDelay`), or a negative one, is over
at once. Abstracted: connections are there or not; the file that a beat touches (its
write cannot change the state).

### PersistBootstrap

The loop of the entrypoint, command by command, over a list of items that are
directories made at boot, other directories, or files. An item's content is the
set of pieces of user data in it. `mv` onto another file system is a copy, piece
by piece, and a removal. The container may stop at every step; a restart keeps
the home and its links, a redeploy starts with neither. Every command that the
script guards with `||` may fail. `fault` records that one has, or that a copy
was cut short. Abstracted: how `PERSIST_ROOT` is chosen, permissions, the
other steps of the script.

### Settings and UpdateCheck

`Settings` is one file and its writers: page requests and update checks, each
somewhere between the awaits of its handler (`stage`), with the settings it is
about to write (`next`). `UpdateCheck` EXTENDS it with the provider, whose
checks are writers, the clock and the releases.

| Model | Code |
|---|---|
| `file` | `coder.json`: a document, absent, just truncated (`Blank`), or a short document over the end of a longer one (`Torn`) |
| `ReadAndMerge`, `Open`, `Put` | `write`: `readFile` and the merge, `writeFile`'s open with truncation, its write and close |
| `Readings` | `read`: `{}` for every file that does not parse, and for a read that fails |
| `Load`, `ReadLast` | the handler of `/`: store the query, or read the last one and redirect |
| `GetUpdate`, `Settle` | `this.update`, shared by the callers that come during a check |
| `ReadStored`, `Fetch`, `Store` | the awaits of `_getUpdate`: settings, request, write |
| `Restart` | the process dies at any moment; the file stays |

The histories `ours`, `met`, `disturbed` say what the file should hold as long
as no two writes met and nothing failed. Abstracted: the JSON text (one system
call reads or writes it), and how redirects are followed: the request succeeds,
with a version that was the latest at some moment since the check began, or
fails. The clock counts days and does not step back.

### EditorSessions

| Model | Code |
|---|---|
| `entries` | `EditorSessionManager.entries`, a map in insertion order |
| `Lookup`, `Connect`, `Resume`, `NoneLeft` | `GET /session` and `getConnectedSocketPath`: the snapshot of candidates, one connection attempt at a time with an await around it |
| `Launch`, `TakeAnswer`, `LookupLost` | `shouldOpenInExistingInstance`, then `openInExistingInstance` |
| `Unlink`, `Bind`, `Stop` | `listen` on the session socket, and the end of a server, which removes the path if it closes its socket |
| `OpenEditor`, `Terminate`, `CloseEditor` | an extension host (`patches/store-socket.diff`): it registers once, takes its registration back while it still listens, or is killed |
| `posts`, `Handle` | its requests under way, handled in any order |

A file is in a workspace or it is not (the prefix test), and an editor without
a folder has no workspace, at which the comparison of `sort` throws. Socket
names are never used again. The names of the specification begin with `Sessions`,
since its proofs share a module with those of `Startup`. `Lists` has one operator,
`Selected`: the elements of a list that are in a set, which stands for `filter`,
the removal from a map and the stable sort by a yes-or-no property; `Arguments`
uses it, too.

### SocketProxy

The proxy that hands TLS sockets to the editor server, with the part of
`Emitter` it uses.

| Model | Code |
|---|---|
| `proxyServer`, `server` | `_proxyServer`, the memoised promise, and how far each start is that it may stand for |
| `TryNext`, `Found`, `Clear`, `Listen` | `findFreeSocketPath`, one name at a time, then `mkdir` and `rm`, then `listen` in `startProxyServer` |
| `Stop`, `CloseLate`, `Close` | `stop`, which waits for a start under way, and what closing the server does to its pipe and to connections it has not taken |
| `Ask`, `Reject`, `Connect` | `createProxy` up to the awaited server, and after it |
| `Accept`, `Data`, `Takers` | the server's connection event: every pending socket listens for data, and the one whose id comes takes the connection |
| `TimeOut`, `Hangup`, `PipeEnds` | the five seconds of `createProxy`, the end of either side, and the handlers that pass it on |
| `pipe`, `OthersTouch` | the files of the sockets, which other processes of the user remove and take by the same rules |

Abstracted: ids and names (an id is the socket it was made for), the data that
flows through a pair, and the directory. `stop` is called once, by the disposal
of the routes.

### Arguments and Startup

`Arguments` holds the pure part of `cli.ts`: an argument is a flag with or
without a text, or a word. Its options stand for all, one or more of each kind.
`Startup` EXTENDS it with the starts that share the config file and the
self-signed certificate.

| Model | Code |
|---|---|
| `ParseOne`, `Rejected`, `Taken`, `Consumes` | one turn of the loop of `parse`: its errors, what it stores, whether it takes the next argument |
| `FlagsOf`, `ParseConfigFile` | the entries of the file as flags, through the same `parse` |
| `BindAddrFromArgs`, `LogLevel`, `ProxyDomains`, `SetDefaults` | the steps of `setDefaults` |
| `Create`, `WriteDefault`, `ReadConfig` | `readConfigFile`: `writeFile` with `wx` creates the file before it writes it, and another start may read in between |
| `CheckCertificate`, `OpenPem`, `WritePem` | `generateCertificate`: both files there, or both written at once |
| `Serve` | the end of `setDefaults` and `entry`, and `runCodeServer` up to `createApp` |
| `Die`, `Again` | death or an error at any moment, and the next try of the service |

`IsParseOf` and `IsRanked` say the same as `Parse` and `SetDefaults` without a
loop: which occurrence of an option counts, and an order of the sources for
each argument. Of the proxy domains `IsRanked` says that each that was given,
without its wildcard, is there once, with its port. It does not say that all
that come out differ: `org` and `{{port}}.org` do not, yet both are kept, as the
code removes duplicates before it adds the port (`cli.ts:683-700`).

`WriteOnce` is the abstract promise of the config file: one of those that find
none may write it, once; nobody replaces what is there; each is handed what is
kept, or nothing. `configFile` is its `content` (an empty file is none), the
start at `created` its writer, what a start has read is what it was `handed`, and
a writer that dies gives up, after which there is none for good.

Abstracted: numbers and addresses are constants' operators of a
text; short options are their long ones; YAML is a list of entries; one config
path; what a start that only opens a file or runs the editor's CLI does next.

### EditorServer and ServerLife

`EditorServer` is `routes/vscode.ts`: the editor's server, loaded once for all
requests, and the key of `/mint-key`. `ServerLife` EXTENDS it with the process
around it: the two servers of `createApp`, their sockets, disposal, exit and the
next start.

| Model | Code |
|---|---|
| `vscodeServer`, `vscodeServerPromise`, `load` | the two variables of the module, and how far each load is; a load is named after the request that began it |
| `Ensure`, `LoadEnds`, `Resume` | `ensureVSCodeLoaded` up to its `await`, the end of the load, and the continuation of each request that waits |
| `MintKey`, `ReadKey`, `CreateKey`, `WriteKey`, `WriteFails`, `TakeKey` | `mintKeyPromise`: `readFile`, the open and the write of `writeFile`, the answer |
| `sockets`, `cleanup`, `Connect`, `Close`, `Cleanup` | `disposer`: the set of each server and its timer |
| `Emit`, `Terminate`, `ParentPoll` | `_onDispose` by a signal, once, or every five seconds by the poll of a dead parent |
| `Disposed`, `Exit`, `BackupExit` | the promise of the listeners, `wait.then`, and the wrapper's own five seconds |
| `Restart` | the next process; the key's file, and the browsers, remember |

Continuations of an await run before any other event (`Microtask` comes before
`Event` in `Next`). The close of a server that does not listen calls back with an
error as soon as it has no sockets, so one that never listened, or any server the
second time, makes `Promise.all` reject, and the emitter only logs that.
Abstracted: what the editor does with a request; one process runs at a time (two
children of a hot-swap are in `ProcessWrapper`); sockets are paired in
`SocketProxy`.

### Requests

| Model | Code |
|---|---|
| `Redirect` to `Editor` | the layers of `register` in their order; each answers or is `"next"` |
| `Http`, `Ws` | a plain request, an upgrade |
| `Authenticated`, `IsCookieValid`, `HashedPassword` | `authenticated`, and what `util.ts` accepts and makes for each of the three password methods |
| `OriginOK`, `Checked` | `ensureOrigin`, `ensureAuthenticated` |
| `ProxyDomain`, `Matches`, `Proxied` | the domains as `setDefaults` leaves them, as regular expressions, and whether a host names a port |
| `CookieDomain` | `getCookieDomain` |
| `jar`, `LogIn`, `LogOut`, `CloseBrowser` | a browser: one cookie per domain in the order of their age, of which the server takes the first it is sent |
| `args`, `Restart` | the server, started again with other arguments |

A host is the sequence of its labels, so a domain ends a host at a label only
(the code compares strings). One path stands for each group that the routes tell
apart. Abstracted: the limiter, which may refuse a login at any time, body
parsers, the base path of a cookie, hashes (a hash is its password and its
method); the load of the editor succeeds, as its failure is in `EditorServer`.

## Runs

| Run | Instance | What it shows |
|---|---|---|
| `wrapper` | 2 children, faults, outside signals, relaunch messages | the safety and liveness of the wrapper, and that it implements `Supervisor` |
| `wrapper_stale_timer` | 2 children, no faults | *violation*: a hot-swap during a handshake leaves its timer behind, which later takes a serving child down |
| `heart` | interval 3, fall-back 2, limits of 1 to 6 and one no timer can wait for, two clock steps, failing probes | idle shutdown is never early, nor under a held connection if the limit exceeds the interval; beats go on; an idle server exits |
| `persist` | one item of each kind, two pieces of data, all faults | sound links, and no loss until something fails |
| `persist_torn` | one directory | *violation*: a move cut short costs data at the next boot |
| `update_check` | one page, two callers, three days, two versions, all faults | everybody is answered, with nothing too old or made up; undisturbed writes keep the other key; a damaged file is repaired by the next write that is alone |
| `editor_sessions` | two editors, two look-ups, one server | the answer is the best editor that lives; only dead entries are dropped; no open editor loses its registration |
| `socket_proxy` | two sockets, two starts, two further pipe names, another process at the first pipe | a socket gets its own connection or an end; one server at a time; nobody waits forever unless another process took the pipe |
| `startup` | two starts; one with every command line of up to two of 20 arguments and of three of seven, or both generating; four environments, three files or none, three states of the certificate | what each source contributes; one config file for all starts, which is what `WriteOnce` promises; a certificate fits its key unless disturbed |
| `server_life` | two requests, one connection to the session server, two processes, failing file operations | one load at a time, retried after a failure; one key for all; everybody is answered; disposal ends, and gives sockets their second |
| `requests` | a domain, the name of one of its ports, an address; two passwords, eight starts | no way around a check; the login can be reached; only today's password opens; logins and logouts do what they say |
| `requests_login` | the same | *violation*: a login at the name of a port does not count for the domain |

Bounds. Two children are enough for a hot-swap at each moment of the life of
each process, and every property of the wrapper speaks of a child and its
successor; with `MaxSpawns = 3` all properties of `wrapper` hold too (100 853
states, about three minutes). Its safety is proved for any number. The ticks of
`heart` keep the order of the real constants (5 s < 60 s), with limits from one
tick to twice the interval, so below, at and above it, and one above `MaxDelay`;
two clock steps allow a step in two different periods. `persist` has one item for each way through the
loop, and two pieces of data so that a copy can be cut in between. In
`update_check` a page and two callers are three writers, enough for a write to
be overtaken by another while a third reads; three days with an interval of one
let a stored update become too old, and a check last longer than an update is
fresh. Two editors and two look-ups in `editor_sessions` let a look-up work on
entries that the other deletes. Two sockets in `socket_proxy` can take each
other's connection if the pairing is wrong; two starts let a socket come after
`stop`; one more number than the first name lets the search end either way. Two
starts in `startup` meet at every step of each other; the command lines are
long enough for an option, its value and one thing that could be mistaken for
either. Two requests in `server_life` are one that loads and one that waits for the
same load, or that retries after it has failed; two processes are one that
dies and one that finds its file; one connection to the session server makes
each server the one that drains last. The starts of `requests` differ from a
plain one in one thing each, the pairs of them that matter to a cookie being
password and method; the three hosts are one of each kind that `CookieDomain`
and `Proxied` tell apart, and all requests and upgrades are looked at in every
state. The proofs lift these bounds for every safety property of the
passing runs.

Deadlock is not checked for `wrapper` and `heart`: both end when all processes
have exited, nor for `editor_sessions`, which ends with its launchers, `socket_proxy`,
whose sockets end, `startup`, whose starts may all end in help, or `server_life`, which ends with its
last process. It is checked for `persist`, `update_check` and `requests`.

Fairness. `ProcessWrapper` assumes weak fairness of the steps that an event loop
or the operating system takes when they are ready: delivery of messages, exits
and signals, armed timers, the progress of a child. It assumes nothing of the
user's signals, of faults, or of how long the command line takes. `Heart`
assumes that time passes and due timers fire, nothing of browsers.
`UpdateCheck` assumes that a check goes on: file operations end, and the request
is answered or its connection fails. The request has no time-out of its own
(`update.ts:112`), so this is an assumption about the network; nothing is
assumed of pages. `SocketProxy` assumes that a start that is ready goes on and
that the event loop runs what it owes a socket; nothing of browsers, of the
editor, of other processes, or of when a connection is taken or its id arrives.
`ServerLife` assumes that loads and file operations end, one way or the other,
that continuations run and that timers fire; nothing of peers, of the editor, of
a start, and nothing of the wrapper's five seconds (`BackupExit`): disposal ends
without them.

## Findings

1. `wrapper.ts:276`: `removeAllListeners` does not clear the handshake timer of
   the child that is replaced; ten seconds later it rejects `start` or
   `relaunch` and the parent exits with 1 under a healthy child.
2. `railway-entrypoint.sh:105`: a move cut short leaves a partial copy that
   "wins" at the next boot, and the rest is removed.
3. `http.ts:239`: the cookie's domain is looked up among proxy domains that
   `setDefaults` has turned into `{{port}}.` templates (`cli.ts:687-693`), so the
   shortening never happens and a login at one port's name counts only there,
   although it should hold "no matter what sub-domain they use to log in".

Seen while modelling, guarded in the properties instead of run:

In the processes and files: after the wall
clock steps back, the heartbeat timer's `beat` returns early and arms no new
timer (`heart.ts:41`), which `BeatOncePerInterval` excludes with `steps = 0`; an
editor without a folder makes every look-up fail once a second editor is
registered (`vscodeSocket.ts:101`, `Throws`); `.claude.json` and `.gitconfig`
are linked only if they exist at boot, so one that is created later does not
survive the next redeploy (`railway-entrypoint.sh:108`), and `RedeployKeepsDirs`
speaks of directories only; a process that removes the pipe between another's
removal and its `listen` takes it over, and the `listen` that fails has no
listener for its error (`socket.ts:79-87`), so every socket of that process
waits forever, which `Settled` names; a start that failed is remembered, so
`createProxy` fails until the process ends; nothing emits `_onChildMessage`
(`wrapper.ts:258`), so a child cannot have itself relaunched although the
comment says so; a boolean is set whatever its text, so `verbose: false` in the
config file turns it on (`cli.ts:436`); the limit of `--idle-timeout-seconds 30`
is not checked, as its value is not known yet, nor is that of `=30s`, which is no
number until `parseInt` reads it (`cli.ts:431`). With a limit of at most the
interval the idle timer may end the server under an open connection, which
`HeldConnectionKeepsServer` names with `Interval < limit` (without it TLC shows
the shutdown); with one that `setTimeout` cannot wait for, or a negative one, the
server exits at once (`main.ts:174-178`), which `limit <= MaxDelay` names; a start
that dies before it writes the config file leaves an empty one for good
(`cli.ts:757`); a certificate and a key of two starts that met stay
(`util.ts:125`), which `disturbed` leaves out of `PairIsWhole`; `relaunch` does
not await `disposeChild` (`wrapper.ts:285`), so the child of a hot-swap may find
the port taken, and its failure ends the server (`Listen`); writes that overlap
lose each other's keys (`settings.ts:35`), which `disturbed` leaves out of
`AloneMergeKeeps`; of two servers that share the session socket the second
unlinks it from under the first (`app.ts:41`), and the end of either removes the
path, so the other is up and cannot be reached.

In a server's life: a session server that could not listen makes a disposal exit
at once, whatever the main server still has open (`app.ts:102`), and so does a
disposal that is emitted again, which `GraceKept` names; a load under way during
the disposal is disposed of by nobody (`routes/vscode.ts:256`); a
`serve-web-key-half` left empty by a crash is the key from then on
(`routes/vscode.ts:219`); the two children of a hot-swap may each draw a key; a
request for the release has no time-out (`update.ts:112`), and an error of
`getConnections` leaves an idle server without a timer (`heart.ts:61`), so the
liveness of `update_check` and `heart` excludes both.

In the requests: with `--skip-auth-preflight` a preflight to a proxy *domain* is
handed on and ends at the editor's check with 401 instead of being proxied as
one to a proxy path is (`domainProxy.ts:64-67`); a cookie of a parent domain from
before a change of credentials is older than the one a new login sets, comes
first and keeps the browser out, which `Alone` leaves out of `SessionAsAsked`;
`/logout` on the name of a port is proxied, so one logs out at the domain only.

## Proofs

TLAPS checks, for every value of the constants:

- `ProcessWrapperProofs`: type correctness, `NoStrayChild`, `OneChildHeard`,
  `WatchedWhileRunning`, `FailureIsReported`, `HealthyChildKeepsParent` and
  `StepsAsSupervisor` (initial states map to initial states, steps to steps or
  stutters). The first three are inductive only together, and with
  `ForkedInOrder`: children are forked in the order of their numbers, a parent
  that still parses has none, and handshake timers belong to forked children.
  It is what makes the new child of a hot-swap a child nobody listens to yet.
- `HeartProofs`: type correctness, `IdleExitAfterLimit`,
  `HeldConnectionKeepsServer` and `BeatOncePerInterval`. The strengthening,
  `TimersOrdered`, is the race of the timers: with a held connection the
  heartbeat timer outlasts any probe in flight and, if the limit exceeds the
  interval, ends before the idle timer; if a timer can wait for the limit, the
  idle timer never runs ahead of the ticks without a request. Both conditions are
  those of the properties: nothing is assumed of the limit. `OnTime` adds that
  the timer counts exactly what is missing to an interval.
- `PersistBootstrapProofs`: type correctness, `LinksAreSound`,
  `VolumeOnlyGrows`, `UpMeansLinked`, `RedeployKeepsDirs` and
  `NothingSavedIsRemoved`. The strengthening is `LoopState`, what an item looks
  like at each command, and `Seeded`: the user data in the home is on the volume
  once the volume has the item and no copy is running.

- `UpdateCheckProofs`: type correctness, `OneCheckAtATime`, `UpdatesAreHonest`,
  `AloneMergeKeeps`, `AnswersAreRecent` and `WriteRepairs`. `UpdatesAreHonest`
  is inductive with the same said of what each writer is about to write, and
  with `latestOn` growing; `AloneMergeKeeps` with a description of a lone writer
  at each stage.

- `SocketProxyProofs`: type correctness, `OwnPeer`, `NothingLeft`, `OneServer`
  and `HandedOverLive`. `OneServer` is inductive with `ServerKnown`, that the
  server remembered is one that was started; `PipeOwned` says that a pipe which
  is one of our servers is the one it listens at. `HandedOverLive` needs
  `HeardInv`: whoever still waits for data on a connection is pairing, was
  handed over or has timed out; after a hand-over nobody waits for that id any
  more, and after the timer the socket is destroyed.

- `CliProofs`, of what a launch does, on the command line and in the registry of
  editors. Three parts.

  *Editor sessions*: type correctness, `BestAnswer` and `OpenStaysRegistered`,
  and that no editor is registered twice (`DistinctInv`). `LookupInv` says what a
  look-up holds at each await: its candidates are among those it saw, best
  first; one that it saw and no longer holds cannot be reached any more; and one
  whose connection failed is closed. `PostsInv` says that a registration under
  way is its editor's only one and that nobody has seen that editor yet, and that
  a removal comes from an editor that is ending, so requests that are handled in
  another order take no open editor out.

  *Arguments*: `ParsedAsGiven` and `SourcesRanked`, from facts about the operators:
  `ParseIsParse` (whenever `Parse` accepts, `IsParseOf` holds of it),
  `ParseGives` (values are texts), `SetDefaultsRanked` (`SetDefaults` is
  `IsRanked`, with `DomainsOnce` for the domains). `Parse` is a loop over
  positions, a function of `n` that takes its value at `n - 1`. That such a
  function exists, and what it is at `n`, follows from `UpTo`: a set that contains
  0 and with `i - 1` also `i` contains all up to `n`, which is derived from the
  well-foundedness of the strict subset order on finite sets (`LeastNatural`). The
  induction theorems of the library, whose parameter is an operator, are not used. `OneTurn`
  says what one turn may do, `ListRun`, `WordRun` and `OptionRun` what all turns
  together have done to a list, to the words, and to an option. `ArgsInv`
  carries the results through the steps of a start.

  *The files of a start*: type correctness, `OneConfig`, `PairIsWhole`,
  `ImplementsWriteOnce`, and `ConfigIsKept`, that no step changes a config file
  that has content. `ConfigInv` is that at most one start has created the file and
  not written it, and that what any start read of a generated file is still
  there; `PairInv` that an undisturbed start generates alone and finds what it
  wrote when it writes the other file. `ImplementsWriteOnce` is shown step by
  step: creating the file is `Take`, the only start at `created` is the writer,
  every other step is a read, a drop, the end of the writer or a stutter.

- `ServerLifeProofs`: type correctness, `OneLoadAtATime`, `RetriedAfterFailure`,
  `KeyStays` and `GraceKept`. `LoadInv` ties the two variables to the loads: a
  load under way or loaded is the one the promise stands for, and a failed one is
  waited for only by requests that go on before anything else happens. `KeyInv`
  says that until an operation fails a resolved key is in the file, an
  unresolved one has been given to nobody, and whatever was given is in the
  file. `CleanupInv` is that during a disposal a server with sockets has its
  timer armed.

- `RequestsProofs`: type correctness, `GuardedRoutes`, `LoginReachable`,
  `OnlyThePasswordOpens` and `SessionAsAsked`. The first two hold in every state
  of the right type, layer by layer, whatever the hosts, domains and trusted
  origins are. The third needs `CookiesEarned`: every cookie of the browser holds
  a password that was entered and accepted. `SessionAsAsked` needs `DomainOnce`,
  that the browser has one cookie per domain, and `CookieComesBack`, that the
  cookie set at a host is sent to that host again: the domain that
  `getCookieDomain` arrives at ends the host after each turn of its loop.
  `CookieStaysAtHost` is the general form of the third finding: for all proxy
  domains the cookie of a host is that host's own.

`WatchedWhileRunning`, `OneCheckAtATime` and `UpMeansLinked` are parts of the
proofs and have no run of their own; `StepsAsSupervisor` is the safety part of
`ImplementsSupervisor`, which `wrapper` checks. `OneChildHeard`,
`VolumeOnlyGrows`, `NothingLeft` and the type invariants of these modules are
proved for all instances; the runs keep `TypeOK` only where it says most.
Every safety property of every passing run is the subject of a theorem.

The proofs assume only the `ASSUME`s of the modules: types of the constants,
`0 < Fallback < Interval`, the shape of the list of items, distinct contents of
the file that are no documents, names of pipes that are pipes, that no
text, number or host is `None`, that what a user or a start writes as config file
is neither empty nor none, and that hosts and domains are sequences of labels, of
which an address has no `{{port}}`. What a text is as a number or an address,
what removes a wildcard and what adds a port may be any operators.

Model-checked only: liveness, which is beyond the prover. These are `NoOrphans`
and `ChildEndIsNoticed`, the liveness part of `ImplementsSupervisor`,
`QuietServerExits`, `Answered` of `update_check` and of `server_life`, `Settled`
and `DisposalEnds`. So are the three violations, each a trace of the code.

## Not modelled

Listed with the reason in `PROJECT.json`. Straight-line or stateless code
(most of the utilities, translations, the rewriting of proxied headers, build and
install scripts), the watch process for development, and the editor itself, which
is an external project patched in. VS Code appears only as the steps that the
code here waits for. The login limiter is a library's token bucket: no rate is
claimed.

## Plan

Done: `ProcessWrapper` with `Supervisor`, `Heart`, `PersistBootstrap`,
`Settings` with `UpdateCheck`, `EditorSessions`, `SocketProxy`, `Arguments` with
`Startup`, `EditorServer` with `ServerLife`, `Requests`. Left, in this order:

1. `ServerLife` as the detail of what `Dispose` and `DisposeDone` of
   `ProcessWrapper` promise, by a refinement.
2. An abstract specification of the editor's server (one load, one key) that
   `ServerLife` implements, and of the paired sockets of `SocketProxy`.
3. `Emitter` as a module of its own: subscribing and disposal during an emit.
4. The last-opened redirect and the load of one page in one module.
