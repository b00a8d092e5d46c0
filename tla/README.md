# webux in TLA+

webux is a Go server with a Svelte front end, through which an administrator
manages one Linux host: services, packages, logs, cron jobs, the firewall,
databases, a terminal. This directory holds TLA+ models of the parts of it in
which several goroutines, requests, browser tabs, processes or starts of the
server meet, the TLC instances that check them, and proofs of the most important
properties for every value of the parameters.

Contents: 1 the system; 2 what is hard in it; 3 modules and code; 4 the runs;
5 fairness; 6 proofs; 7 where code and documentation differ; 8 what is not
modelled; 9 the plan; 10 how to run it.

`PROJECT.json` holds the same information in a form for tools: the components,
the runs, the lines of code every definition stands for, the hazards.

## 1. The system

One process (`cmd/webux/main.go`) loads its configuration, opens a SQLite file
and migrates it, reads or generates the secret that signs session tokens, and
serves a chi router (`internal/api/router.go`): the API under `/api`, a
WebSocket `/ws` for events, WebSockets for terminals, and the built front end.
Every request has a goroutine of its own. Handlers (`internal/api/handlers`)
call packages under `internal/system`, which read files, run system tools and
talk to container engines and databases. There is no queue and no job system:
what outlives a request lives in one of the few shared objects below, in the
SQLite file, or on the host.

| component | state it keeps | operations | how it interacts |
|---|---|---|---|
| WebSocket hub (`internal/ws`) | map of clients; channels `reg`, `unreg`, `bcast`, one `send` per client | `Broadcast`, `ServeWS`, `Run`, two pumps per client | called by the echo store's subscriber; feeds every tab |
| CLI echo store (`internal/learn`) | ring of 500 entries, table `webux_cli_echo_log`, subscribers, a mutex | `Echo`, `Recent`, `Subscribe` | every handler that changes the host echoes the command; the subscriber broadcasts |
| Learn pane (`lib/ws.ts`, `CLIEchoPane.svelte`) | the store's last event, the list of entries | mount, fetch, subscribe, receive, reconnect | `/api/learn/recent` and `/ws` |
| Sessions (`internal/auth`) | table `webux_sessions`, secret, bypass token | login, middleware, logout, prune | gate in front of every API request; survives restarts through the database |
| Login limiter (`handlers/auth.go`) | failures per address and window, a mutex | check, count | around the password check |
| Start-up (`internal/db`, `main.go`) | `schema_migrations`, ten scripts, the settings | migrate, read or generate the secret | before everything else; also by a second process |
| TLS (`internal/tlsutil`) | two files | load, generate | at start-up |
| Command streams (packages, Ansible, Puppet, LVM) | per request: a process, two pipes, a channel | run, cancel | server-sent events to one client |
| Logs (`system/logs`, `handlers/logs.go`) | per request: a process, a pipe, an `io.Pipe` | follow a file, follow a unit | server-sent events to one client |
| Terminal (`handlers/terminal.go`) | per session: a PTY, a shell, two goroutines | type, print, close | one WebSocket |
| Cron (`system/cron`) | crontabs, addressed by line number | list, add, update, delete | several tabs over the same file |
| Firewall (`network/firewall`) | rules of ufw, nftables, iptables, addressed by position | status, switch, add, delete | several tabs over the same rules |
| Databases (`system/databases`, `handlers/databases.go`) | map from driver to connection, a mutex, `database/sql` pools | connect, list, query, disconnect | requests share one connection object per driver |
| Web servers (`system/webservers`) | configuration file and its temporary file | read, write with test, reload, sites | several editors over the same file |
| Package repositories (`packages/repos.go`) | source lists, `pacman.conf`, `.repo` files | list, add, remove, enable, disable | rows addressed by line or section, several tabs |
| Users and groups (`system/users`) | `passwd`, `shadow`, `group` of the host | list, create, delete, lock, unlock, groups | a command each, creation two |
| Files (`system/files`, `Files.svelte`) | the host's files; per page an editor | browse, open, save, upload, delete, mkdir | answers come in any order; several pages |
| Containers (`system/containers`) | the API version of each daemon; containers live in the daemons | detect, list, run, start, stop, restart, remove, logs | requests with a time limit, which a daemon may carry out late |
| Services (`system/initsys`) | units of systemd or OpenRC | list in two calls, actions | jobs that end after the answer |
| Disks (`system/disks`) | volumes, file systems | list, extend (two commands), size of directories | commands end with the request |
| Network (`network/interfaces`, `netstats.go`) | interfaces of the kernel; per stream the last sample and the time of its tick | list, up, down, address, MTU, stream of rates | a stream per page |
| Hardening (`system/hardening`) | the last score, in the settings | scan at start-up, on request, when a day old | concurrent checks; scans overlap |
| AI assistant (`system/ai`) | the chosen model in the settings; models of Ollama | pull, choose, delete, chat | a provider streams, a goroutine and a channel pass on |
| Health, processes, ports, detection, svccheck, migration generator | none, or a list of enabled checks | snapshots of `/proc` and of tools, text | read only or a single command |
| Password back ends, configuration | none | PAM, shadow, sssd; YAML | an answer, a constant |

What makes each of them correct, in a sentence:

- **Hub**: it never panics on a closed channel, never blocks on a slow tab, and
  gives every tab a subsequence of the events in order; only slow tabs miss any.
- **Echo store and pane**: ring, table and published events tell the same story
  whichever insert fails; what is echoed while a pane listens is shown once.
- **Sessions**: a logout is final, a cookie works until it expires, through
  restarts, prunes and other logins. **Limiter**: the limit holds under
  concurrent attempts and a lock-out has a definite end.
- **Start-up**: any database of any earlier release, left at any statement by a
  crash, is migrated; sessions, secret and settings of the user survive.
- **TLS**: a crash between certificate and key heals; the certificate the users
  accepted is not replaced before its time.
- **Streams, logs, terminals**: what the process prints arrives complete and in
  order, handlers end, and no process outlives its handler.
- **Cron, firewall**: an action taken on a list of some age hits the job or rule
  the user saw, or nothing. **Databases**: the shared map never keeps a closed
  connection, a query runs in the database that was selected. **Web servers**:
  no configuration with errors replaces a working one.
- **Repositories**: a row acts on its own repository. **Users**: the page says who
  can log in, and a lock holds. **Files**: a file keeps its own text.
- **Containers**: a version the daemon does not serve is never adopted, "ok" means
  started. **Services**: a unit is listed once, whatever comes between the two calls. **Volumes**: nobody is told that an
  extension succeeded while the file system is smaller than its volume.
- **Network**: a rate is what the counters say came, in the time it came in. **Hardening**: a fix that was seen stays seen.
  **AI**: an answer is whole or marked as cut, a model said to be ready is there.

## 2. What is hard in it

The hazards are listed in `PROJECT.json`, each at the line where it bites. In
groups:

- *Two channels, one event loop*: registration and unregistration of a tab reach
  the hub through different channels, and `select` takes any that is ready. A tab
  can be unregistered before it is registered.
- *Work outside a lock*: the echo store publishes after its unlock; the login
  limiter checks and counts in two critical sections around a password check that
  takes seconds; `Disconnect` closes a connection before it removes it.
- *No transactions*: a migration is several statements and a record, each
  committed by itself; certificate and key are two files; `lvextend` and the
  resize of the file system are two commands.
- *Pipes of finite size*: a command, a reading goroutine, a channel, a handler
  and a client form a chain in which every link can block, while the client may
  leave at any moment.
- *Addresses that age*: jobs, rules and repository lines are named by their
  position at the time of a listing.
- *Fixed names*: two editors share one temporary file; all requests share one
  connection per driver.
- *Two calls for one answer*: a list of services is made of the units loaded and of
  the files installed, a container of a creation and a start, a user of an account
  and a password. Other requests and the host come in between.
- *Answers nobody waits for*: a daemon carries out a request that was given up; a page
  puts the text of a late answer into the editor of another file; a scan that began
  earlier stores its score later.
- *Success taken for granted*: the end of a stream is the same whether the other side
  was done or broke off.
- *Expiry*: the same instant is compared with `>` and with `<` in three places.

## 3. Modules and code

A module is one component: its variables are the state the code shares between
goroutines, requests or starts, plus program counters; an action is what one
goroutine does between two points at which another can come in. Variables marked
*history* in a declaration are not state of the program: they record what a
property speaks about and guard no action.

Operators introduced by "Slip:" are plausible mistakes in the operation they
precede. They are used by no specification; `PROJECT.json` ("mutants") pairs each
with a property that detects it, so that no property holds whatever the code does.

| module | models | states and steps |
|---|---|---|
| `Topic` | what the hub promises: a best-effort topic | published events, what each tab received, membership |
| `Hub` | `internal/ws/hub.go` | every goroutine and channel; the range over `h.clients` offers to one client per step, while writers run |
| `LearnStore` | `internal/learn/echo.go` | `Echo` in five steps (call, lock, insert with three outcomes, ring, notify), `Recent` |
| `EchoPane` | `lib/ws.ts`, `CLIEchoPane.svelte` | one tab on top of `LearnStore`: fetch, subscription with its replay, lost and re-opened sockets |
| `Sessions` | `internal/auth/auth.go`, `handlers/auth.go`, `router.go` | a request in steps (gate, verify, insert, prune, handle, revoke), restarts, the clock, failing statements |
| `SessionLife` | what the table of sessions promises | per session: none, signed, live, over; expiries, the clock |
| `LoginLimiter` | `handlers/auth.go` | check and count as two critical sections, windows |
| `Startup` | `internal/db/db.go`, its migrations, `main.go` | scripts statement by statement, kill at any step, several processes, failing statements of `main` |
| `CommandStream` | `packages.go`, `ansible.go`, `puppet.go`, `disks.go` and their handlers | command, two pipes, goroutine, channel, handler, client |
| `LogFollow` | `handlers/logs.go`, `system/logs` | command, OS pipe, copying goroutine of `os/exec`, `io.Pipe`, splitting handler, client |
| `TerminalSession` | `handlers/terminal.go`, `Terminal.svelte` | shell, PTY in both directions, pump, loop with its deferred calls, tab |
| `Delivery` | what a stream to a page promises | pieces made, pieces the page has, how it ended |
| `CronTable` | `system/cron`, its handler, `Cron.svelte` | the text as a sequence of lines; read and write of a request are two steps |
| `FirewallRules` | `network/firewall`, its handler, `Firewall.svelte` | rules per chain, what each tab's page shows; a command is one step |
| `DbConnections` | `handlers/databases.go`, `system/databases` | the shared map, MySQL pools with the database each free connection is in, one PostgreSQL connection |
| `ConfigEditor` | `webservers.go` and its handler | write, test, rename, reload |
| `TlsPair` | `tlsutil/tls.go` | load, generate in four steps, kill, days |
| `RepoFiles` | `packages/repos.go`, its handlers | lines of the files of apt, pacman and dnf; read, count, unlink and write of a request are steps |
| `UserAccounts` | `users.go`, its handlers | the entry of each account in the shadow file, groups; `useradd` and `chpasswd` apart |
| `Files` | `files.go`, its handlers, `Files.svelte` | one directory; per page editor, answers on their way and a write in steps (truncate, write, or move for an upload) |
| `Containers` | `containers/*.go`, its handlers | daemons that stop, start and are replaced; the negotiation of a version ping by ping; requests given up and carried out late |
| `ContainerLog` | `Docker.Logs`, `ContainersHandler.Logs` | frames as bytes, split into lines, headers stripped |
| `Services` | `initsys`, `handlers/services.go` | files, loaded units and jobs of systemd, runlevels of OpenRC; a list in two calls, each of which may fail |
| `LvExtend` | `disks.go`, `handlers/disks.go` | volumes of one group, `lvextend` and resize with failures and clients that leave |
| `DiskUsage` | `usage.go` | every tree of a few names; what a walk counts, and the rows of the table |
| `Network` | `interfaces.go`, `network.go`, `netstats.go` | interfaces that are removed and made, the list, commands, streams with a ticker and counters of several widths |
| `Hardening` | `hardening.go`, its handler, `HardeningScore.svelte` | scans check by check, the stored score, its age, restarts, changes of the host |
| `AiModels` | `ai.go`, `handlers/ai.go` | pulls, the list, the chosen model, the form of each page |
| `ChatStream` | `ai.go`, `handlers/ai.go`, `AIAssistant.svelte` | provider, goroutine, channel, handler, wire, page |

Composition. `EchoPane` EXTENDS `LearnStore`: the pane runs against the store
itself. The hub between them is taken at its best there (a connected tab gets
every event, in order); `Hub` shows when that is so (`OnlySlowClientsLose`).
`Hub` implements `Topic` by the refinement mapping `published <- calls`,
`received <- got`, a tab being attached while its `writePump` runs.

Three more specifications say what a component promises and leave out how. `Sessions`
implements `SessionLife` (`EachLivesOnce`): a session is live while its row is in the
table, signed while a request still has to insert it, and over otherwise.
`TerminalSession` and `ChatStream` implement `Delivery` (`TerminalDelivers`,
`AnswerDelivers`), which knows nothing of pipes, goroutines and channels: a page has the
first pieces of what the source made, none twice and none left out, and is told that
this is all only when it is. `CommandStream` is no `Delivery`, as its client gets the two
pipes one after the other and not in the order in which the command writes.

`MCAuth`, `MCStreams`, `MCAdmin` and `MCHost` put modules that share no state into
one instance: a variable `part`, chosen initially, names the one that moves, the
others keep their initial values. TLC explores the sum of the state spaces, not
their product, and the fairness of a part is assumed only when it is the one
that moves. Where several parts promise the same kind of thing, the instance states
it as one property (`StreamsEnd`, `LogsShown`, `OnlyWhatIsShown`). Parts do meet in
the code: the limiter decides in `Login` whether the password is checked, and the
secret that `Startup` reads signs the tokens of `Sessions`; neither reads the
other's state.

What stands for what, where it is not obvious:

- **Events, entries, lines, chunks, secrets, key pairs, sessions** are numbered in
  the order in which they come into being; no component looks into them.
- **Tokens** (`Sessions`) are named by their session id; the signature is taken to
  be sound, and a token can be presented only by a client that was handed it.
- **`issueToken`** is three steps (sign, insert, prune) because other requests,
  a restart and the clock come between its statements. The error of the insert
  and of the delete are ignored by the code; the two `Fails` disjuncts are those.
- **Scripts** (`Startup`) keep the statements that can fail or lose something:
  the two schemas of `webux_sessions`, the drops, and one key of
  `webux_settings` per script that seeds some. SQLite commits each statement.
- **Earlier releases**: the initial file is any prefix of the migrations with the
  settings a user may have left, including databases that recorded version 9 with
  the old sessions table (what migration 010 repairs).
- **Long lines** (`CommandStream`): a `bufio.Scanner` gives up at 64 KiB; a line is
  long or not, which is all the code tells apart.
- **Texts** (`LogFollow`) are cells, a character standing for its line: enough to
  say which lines an event mixes or breaks.
- **Blocking mode** (`TerminalSession`): `resizePTY` calls `Fd`, which puts the
  handler's end of the PTY in blocking mode, so a read in the pump is not
  interrupted by `Close`; the pump sees its end when the shell's side is closed.
- **`crontab -l` that fails** counts as an empty spool in the code when a job is
  added, and so it does in `ReadToAdd`.
- **ufw and nft deletes** change nothing: ufw asks for a confirmation on a standard
  input that is empty, and the id made for an nft rule is not a handle.
- **Pools** (`DbConnections`): `database/sql` takes the connection that was put back
  last, and keeps at most two idle ones.
- **Test** (`ConfigEditor`): nginx is given the temporary file; `apachectl` tests
  the live configuration; Caddy's is not tested.
- **Texts** (`Files`) are known by the file they are a text of, edited or not: what
  matters is whose text is saved where. A file is empty between the truncation and
  the write of `os.WriteFile`.
- **Shadow entries** (`UserAccounts`) are the forms the code tells apart: empty, a
  hash, a star, the marks of a lock, and a hash or star behind one.
- **Versions** (`Containers`) are 1..`Newest`; `Native` is Podman's own, no version of
  the Docker API. A daemon serves a range and advertises its newest version or
  none, or, with something between that routes fewer, one above what it serves. The
  pings of a negotiation are steps of their own (`Detect`, `AskVersion`,
  `ConfirmVersion`), between which the daemon may change.
- **Requests given up** (`Containers`) stay in `late`: the daemon may still carry out
  each, or forget it.
- **Frames** (`ContainerLog`): of the eight bytes of a header two can matter, the
  stream and the low byte of the length, which may be the code of a newline.
- **Clock and checks** (`Hardening`): hours; a check is one truth value that may flip.
  `RunAll` runs the checks concurrently, so that a score may mix two moments.
- **Counters** (`Network`): the server's numbers are below `Word` (2^64) and are subtracted
  modulo that. A counter of the kernel starts again at a width of `Wraps`, which may be
  less (2^32); an interface that is made anew starts at nought.
- **Seconds** (`Network`): `time.Ticker` holds one tick and drops those that come while it
  waits. A rate is a pair, bytes and seconds, and not their quotient.
- **Short lists** (`Services`): the error of `listUnitFiles` is dropped, and what
  `listUnits` gave is the answer; the history `short` says that this happened, which the
  answer itself does not tell.
- **Names** (`DiskUsage`): a node is a name. What has two names, by a hard link or a
  bind mount of the same device, is two nodes and is counted twice, as in the code.
- **Answers** (`ChatStream`): tokens are numbered, 0 is a line without one; what the
  handler writes arrives in halves of lines, so that a piece ends anywhere. `Done` is the
  line that the handler writes last, also after a report of an error; the page does not
  show it.

## 4. The runs

Each run takes between a few seconds and some two minutes. No run has a state
constraint: every bound is a constant in a guard. `CHECK_DEADLOCK FALSE` stands in
each configuration because the bounds end every behaviour (no more calls, logins,
requests or days), and because the system itself may stop: an idle server without
requests has nothing to do. That nobody is stuck *with* work is what the liveness
properties say.

### `hub`: `MCHub` with `MCHub_all.cfg`

Two tabs, all four channels of capacity one, two calls of `Broadcast`; 26 000
states.

| property | says |
|---|---|
| `TypeOK` | types, and no channel above its capacity |
| `NoClosedMember` | no client in the map, or about to be offered an event, has a closed channel: neither a send on a closed channel nor a second close, both of which would end the server |
| `OnlySlowClientsLose` | a registered tab whose channel never filled has been queued exactly the events taken since it registered |
| `TopicSpec` | the hub implements the best-effort topic |
| `AllGetThrough` | a handler that registers, a reader that leaves and the writer of a tab that has gone all get on, and an accepted event is offered to every registered tab |

Bounds: the hazards need a client overtaken by its own unregistration (one
client), a tab that is slow while another is not (two), a full channel (capacity
one) and an event dropped between two that are not (two calls and a full queue).
All but `AllGetThrough` are proved for all values of the constants (6).

### `echo_pane`: `MCEcho` with `MCEcho_all.cfg`

Two requests, a ring and a pane of two, three echoes, a pane that mounts once and loses
its socket once; 435 000 states. The third echo overflows ring and pane; two requests
suffice for the insert of one to overtake the notification of the other.

`RingAgreesWithTable` (the ring is the newest part of what was echoed, in the
order of the row ids it knows), `SentExactlyOnce` (every entry is published once,
or is in the hands of exactly one request), `LiveEchoShownOnce` (what is echoed
while a pane listens is shown once when it has arrived, unless a full pane has pushed it
out for later ones; nothing is shown more than twice), `PaneTypeOK`.

### `auth`: `MCAuth` with `MCAuth_all.cfg`

Three parts; 1.5 million states under symmetry of requests and of attempts.

*Start*: the file of every earlier release, two processes, four starts, one session,
one failing statement of `main`. Four starts: one that is killed half-way, one that is
killed before its record, one that serves, and one after that. The history variable
`shared` marks behaviours in which two processes overlapped; only those may fail to
migrate. *Sessions*: two requests in flight, an account on the allow-list, a bypass
token, two sessions, a lifetime of one tick on a clock of two, one failing statement,
one restart. Two sessions are needed for one login to prune the other's row; two
ticks for a session to be alive, in its last instant, and expired. *Limiter*: three
requests from two addresses, a limit of two, windows of one tick, a clock of four.

| property | says |
|---|---|
| `MigratesToCurrent` | alone, a start never fails to migrate, whatever earlier kills left; a server that serves has every migration and, alone, the sessions table in its new schema |
| `ChoicesKept` | sessions and secret survive every start, settings of the user every migration, also with two processes |
| `LogoutIsFinal` | a request that arrives after the logout of its token was answered reaches no handler, unless the DELETE failed |
| `CookiesWork` | a token handed out and neither expired nor logged out passes the look-up, unless its INSERT failed |
| `FailuresBounded` | with the requests in flight, failures exceed the limit by at most the other slots |
| `LockoutEnds` | a running window never moves, nobody is refused outside the window in which they failed, and no failure in it is forgotten |
| `AuthTypeOK` | types of the three |

### `streams`: `MCStreams` with `MCStreams_all.cfg`

Five parts; 51 000 states. Every command of up to three lines on two pipes of two
and a channel of one; three log texts with lines shorter and longer than a read and a
block, and an empty one; a terminal with three chunks typed and three printed over a
PTY of two; container logs of three frames, each a line, a line of the length that is
the code of a newline, or half a line; answers of up to three lines by a provider
that verifies its status and one that does not, over a channel of two. Capacities
are below the number of lines, so that every buffer fills.

| property | says |
|---|---|
| `OutputFaithful` | what reaches the client is the beginning of stdout and, after the last of it, of stderr, in order and without gaps, the error only at the end, and all of it if the client stays and no line is too long |
| `TerminalFaithful` | what the shell prints is shown and what is typed is read, in order, once, and the tab is told of the end after the last of it |
| `LogsShown` | a followed log arrives without holes; a container's log is shown line by line without headers, if no line spans frames and no length looks like a newline |
| `AnswerWholeOrMarked` | the text shown is the answer from its first token on, whole or with the report of an error at its end |
| `NoOrphan` | no command outlives its request |
| `StreamsEnd` | handlers, goroutines and processes end when the source ends or the client leaves, and what is logged arrives |
| `StreamsTypeOK` | types and capacities |

The properties about content hold of every intermediate state: what was written is
what was sent and what is still in a buffer on the way.

### `admin`: `MCAdmin` with `MCAdmin_all.cfg`

Eight parts, two tabs or requests in each; 446 000 states under symmetry.

| property | says |
|---|---|
| `OnlyWhatIsShown` | cron: a delete or update hits the job the tab showed, in a file whatever the age of the list, in a spool when the list is current; firewall: a delete on a page that is current removes the rule of that row, if it is of the input chain; repositories: a request switches the repository of its row and no other, whatever the age of the page, unless another request changed a file in the meantime or a repository was added |
| `CommentsStayWithTheirJob` | in a crontab file a comment stands above its own job for ever |
| `MapIsLive` | a closed connection in the map is about to be removed |
| `AloneInItsDatabase` | a MySQL query alone on its pool runs in the database it selects |
| `SavedAloneIsGood` | no save with errors replaces a working nginx configuration, unless two saves overlap |
| `LoginsAreAsTold` | a lock holds until the account is unlocked or deleted, unless its creation was still setting a password; the page says of exactly the users who can log in with a password that they can |
| `FilesKeepTheirText` | a file keeps a text of its own and is not emptied, but for the cases it names: saved before its text had come or after an answer that was late or an error, read during a write, a write that failed half-way |
| `PairKept` | a server that is up serves a certificate with its key and leaves such a pair on disk; the accepted certificate stays until it is due, and one that is due is replaced |
| `AdminTypeOK` | types; a text ends with a newline, a closed pool keeps no connection, a server runs no configuration with errors |

Bounds: four jobs (two are there), four changes, four rules; two dials and three
queries, so that two queries can race and a third find the connection they left;
four saves by two editors; a certificate that lives three days, due in its last, on
a calendar of seven, so that two renewals occur; four repositories in two files and
a fifth to add, three clicks; three creations and two other commands, so that an
account can be locked between the two commands of its creation and deleted and made
again; two files, two openings and two writes, so that an answer can be late for
either. Several of these properties carry a condition (`raced`, `alone`,
`overlapped`, `clean`, `excused`, a page that is fresh): section 7 says what happens
without it.

### `host`: `MCHost` with `MCHost_all.cfg`

Seven parts, two pages in each; 1 560 000 states under symmetry.

| property | says |
|---|---|
| `UnusableNeverAdopted` | a prefix other than the fallback is one the daemon serves, also when it was replaced between the pings; a daemon that changes after the version was settled is excused |
| `OkMeansStarted` | a deployment answered with "ok" has started its container, also when answers are late and daemons change |
| `EachUnitOnce` | a list of systemd has every unit of its kind that was loaded all the time exactly once, and - unless its second call failed - every one that was installed all the time; none is there twice, and none of another kind |
| `UnfilledIsTold` | a volume larger than its file system is about to be resized, or somebody was answered with an error or left, and none has filled it since |
| `OneFileSystem` | the sizes of the rows are together no more than what the names below the directory that are on its device add up to |
| `RateIsWhatCame` | the bytes of a rate are those since the sample before it when the counter only went on or came round at `Word`; when it was set back by less, the difference modulo `Word`, which is near `Word` when below zero; the seconds of the rates are those of the stream, none left out or told twice |
| `FixesStaySeen` | what a page was told of a check that has not changed since is what every page is told from then on, unless two scans overlapped or a score could not be stored |
| `HostTypeOK` | types; a name belongs to one container, no volume is larger than its group |

Bounds: versions 1 and 2 and Podman's own, so that a daemon can serve one and
advertise the other; two requests and one event of a daemon; two units, a template,
two events of the host, enough for a unit to be loaded or forgotten between the two
calls; two volumes in a group of four, two extensions and two events outside, so that
an extension can fail between its commands and another follow; every tree of three
nodes; two models and three acts; one interface, numbers below four and counters below four and
three, up to three bytes in a sample and three seconds, so that counters of both widths
come round, an interface is removed and made, and a tick waits while another is dropped;
one check, two scans besides the one at start-up, two flips, and a score that is valid
for one hour of two. One check suffices, as `FixesStaySeen` is about each by itself.

### Runs that find a violation

| run | property | what the code does |
|---|---|---|
| `stream_stderr` | `EveryStreamEnds` | a command that fills the stderr pipe before it closes stdout blocks, and the request with it, until the client leaves |
| `config_tested` | `TestedBeforeWriting` | of two overlapping saves one renames the text of the other, which was never tested |
| `db_use` | `RunsInItsDatabase` | `USE` and the query run on different connections of the pool |
| `repo_only` | `RemovesOnlyIt` | the row of a disabled repository is removed from a file whose one active line is another repository: the file goes, and both with it |
| `pull_ready` | `ReadyMeansThere` | a pull that Ollama refuses or breaks off by an error line is reported as ready |
| `size_total` | `SizeIsTheTotal` | a file that vanished or is on another device ends the walk of its directory, and files after it are not counted |

## 5. Fairness

Only the runs `hub` and `streams` check liveness; the others are safety only, which
is also why they may use symmetry.

- **Hub.** Weak fairness of what a goroutine does by itself (offering, reading an
  error, writing). Strong fairness of the three cases of the hub's `select` and of
  the sends on its channels: Go chooses uniformly among the ready cases and serves
  blocked senders in order of arrival, so a case that is ready again and again is
  taken. With weak fairness alone `AllGetThrough` would fail by a scheduler that
  always prefers broadcasts, which Go does not have. Nothing obliges a tab to
  connect or to leave, nor an event to occur.
- **Commands and logs.** Command, goroutine and handler go on while they can. Nothing
  makes a client leave, a log grow beyond what is written, or a command that follows
  a log exit, except that a process whose context is cancelled is killed.
- **Terminal.** Pump and loop go on, and the shell reads what is typed. Without the
  last assumption `TerminalEnds` is false: the loop blocks in `ptmx.Write` while
  the shell does not read, and notices nothing else (section 7).
- **Assistant.** Goroutine, handler and page go on while they can. The provider
  need not: the client of `ai.go` has a time limit of 120 seconds, which is the
  fairness of `ProviderEnds("cut")`. Nothing obliges the request to be sent.

The fairness of `MCStreams` is a disjunction by part: of the streams only the one that
runs is fair.

## 6. Proofs

Eight modules hold the theorems. They are about the specifications TLC checks, for every
number of tabs, requests, pages and processes, every capacity, every bound and every
database, plan or text the parameters allow.

| module | about | component |
|---|---|---|
| `HubProofs` | `Hub`, `Topic` | events |
| `GateProofs` | `LoginLimiter`, `Sessions`, `SessionLife` | the gate |
| `StartupProofs` | `Startup`, and `MCAuth`, which joins the three | migrations and secret |
| `EchoProofs` | `LearnStore`, `EchoPane` | the echo of commands |
| `StreamProofs` | `CommandStream`, `LogFollow`, `ContainerLog`, `TerminalSession`, `ChatStream`, `Delivery`, and `MCStreams`, which joins them | streams |
| `AdminProofs` | `UserAccounts`, `TlsPair`, `ConfigEditor`, `DbConnections`, `CronTable`, `Files`, `FirewallRules`, `RepoFiles`, and `MCAdmin`, which joins them | editors of shared resources |
| `HostProofs` | `LvExtend`, `Containers`, `Services`, `Hardening`, `Network`, `AiModels`, `DiskUsage`, and `MCHost`, which joins them | operations on the host |
| `DataLemmas` | induction over numbers and finite sets; sums, joined sequences, counters that come round | what the three modules above share |

Every safety property that the passing runs check is a theorem; what TLC alone checks is
liveness.

### Theorems

| theorem | of | statement |
|---|---|---|
| `TypeCorrect`, `NeverPanics`, `OnlySlowClientsEverLose` | `Hub` | `[]TypeOK`, `[]NoClosedMember`, `[]OnlySlowClientsLose` |
| `DeliveredInOrder` | `Hub` | what a tab was sent and what is queued for it ascends |
| `HubImplementsTopic` | `Hub` | `Spec => TopicSpec` |
| `LimiterTypeCorrect`, `FailuresStayBounded`, `LockoutsEnd` | `LoginLimiter` | `[]LimiterTypeOK`, `[]FailuresBounded`, `LockoutEnds` |
| `LogoutStaysFinal`, `CookiesAlwaysWork` | `Sessions` | `[]LogoutIsFinal`, `[]CookiesWork` |
| `SessionsLiveOnce` | `Sessions` | `Spec => EachLivesOnce`: the sessions implement `SessionLife` |
| `AlwaysMigratesToCurrent`, `ChoicesAlwaysKept` | `Startup` | `[]MigratesToCurrent`, `[]ChoicesKept` |
| `AuthTypeCorrect` | `MCAuth` | `[]AuthTypeOK` |
| `RingAlwaysAgrees`, `AlwaysSentOnce` | `LearnStore` | `[]RingAgreesWithTable`, `[]SentExactlyOnce` |
| `PaneImplementsStore` | `EchoPane` | `PaneSpec => StoreSpec`: pane and store together still are the store |
| `PaneTypeCorrect`, `LiveEchoAlwaysShownOnce` | `EchoPane` | `[]PaneTypeOK`, `[]LiveEchoShownOnce` |
| `NeverOrphaned`, `OutputAlwaysFaithful` | `CommandStream` | `[]NoOrphan`, `[]OutputFaithful` |
| `TerminalAlwaysFaithful` | `TerminalSession` | `[]TerminalFaithful` |
| `AnswerAlwaysWholeOrMarked` | `ChatStream` | `[]AnswerWholeOrMarked` |
| `TerminalAlwaysDelivers`, `AnswerAlwaysDelivers` | `TerminalSession`, `ChatStream` | `TermSpec => TerminalDelivers`, `ChatSpec => AnswerDelivers`: both implement `Delivery` |
| `NothingEverLost` | `LogFollow` | `[]NothingLost`, the part of `LogsShown` about a followed log |
| `LinesAlwaysShown` | `ContainerLog` | `[]LogLinesShown`, the part about a container's log |
| `LogsAlwaysShown` | `MCStreams` | `[]LogsShown` |
| `StreamsTypeCorrect` | `MCStreams` | `[]StreamsTypeOK` |
| `LoginsAlwaysAsTold` | `UserAccounts` | `[]LoginsAreAsTold` |
| `PairAlwaysKept` | `TlsPair` | `PairKept` |
| `AloneAlwaysGood` | `ConfigEditor` | `[]SavedAloneIsGood` |
| `MapAlwaysLive`, `AloneAlwaysInItsDatabase` | `DbConnections` | `[]MapIsLive`, `[]AloneInItsDatabase` |
| `CommentsAlwaysStay`, `OnlyTheJobEverShown` | `CronTable` | `[]CommentsStayWithTheirJob`; `OnlyTheJobShown`, the part of `OnlyWhatIsShown` that is about cron |
| `FilesAlwaysKeepTheirText` | `Files` | `[]FilesKeepTheirText` |
| `OnlyTheRuleEverShown` | `FirewallRules` | `OnlyTheRuleShown`, the part of `OnlyWhatIsShown` about the firewall |
| `OnlyTheRepoEverShown` | `RepoFiles` | `OnlyTheRepoShown`, the part about repositories |
| `OnlyWhatIsEverShown`, `AdminTypeCorrect` | `MCAdmin` | `OnlyWhatIsShown`, `[]AdminTypeOK` |
| `UnfilledAlwaysTold` | `LvExtend` | `[]UnfilledIsTold` |
| `NeverUnusable`, `OkAlwaysMeansStarted` | `Containers` | `[]UnusableNeverAdopted`, `OkMeansStarted` |
| `EachUnitAlwaysOnce` | `Services` | `[]EachUnitOnce` |
| `FixesAlwaysStaySeen` | `Hardening` | `FixesStaySeen` |
| `RateAlwaysWhatCame` | `Network` | `[]RateIsWhatCame` |
| `AlwaysOneFileSystem` | `DiskUsage` | `[]OneFileSystem` |
| `HostTypeCorrect` | `MCHost` | `[]HostTypeOK` |

`SessionTypeCorrect`, `BootTypeCorrect`, `StoreTypeCorrect`, `StreamTypeCorrect`,
`UserTypeCorrect`, `DbTypeCorrect`, `CronTypeCorrect`, `FwTypeCorrect`, `RepoTypeCorrect`,
`LvTypeCorrect`, `CtrTypeCorrect`, `ServicesTypeCorrect`, `ScoreTypeCorrect`,
`NetTypeCorrect` and `AiTypeCorrect` are the type invariants of the components that the
instances state together.

### Assumptions

A proof uses the named assumption of each module it is about, and nothing else about
the constants. Bounds are natural numbers, with no upper limit; capacities, lifetimes
and windows are positive. Beyond that:

- `LimiterAssumption`: finitely many slots; `Nobody` is no address.
- `SessionAssumption`: the account of a bypass has a name of its own; no bypass token
  is the mark of an absent one.
- `StartupAssumption`: no user edits the signing secret, and the values that stand for
  "no row" and "blank" are neither values of users nor secrets.
- `PaneAssumption`: the pane holds at least as many entries as it fetches (500 and 50
  in the code). With a smaller pane a mount alone would overfill it.
- `StreamAssumption`, `LogAssumption`: a plan is any sequence of lines, a log any
  sequence of cells in which what stands between two newlines is of one line.
- `TextsAssumption`: a frame of a container's log has at least one byte, and a newline at
  most as its last.
- `CronAssumption`: two jobs or more, as two are there initially.
- `ContainerAssumption`: the Docker API has a version.
- `ServicesAssumption`: the template of a unit is not a unit that runs, every unit has
  a kind.
- `HardeningAssumption`: the scan at start-up is no page's.
- `FirewallAssumption`: there can be a rule.
- `RepoAssumption`: four repositories or more, as four are there initially; the mark of
  an absent file is not the text of one.
- `LvAssumption`: finitely many volumes, with room in their group for one unit each.
- `NetworkAssumption`: no counter is wider than the server's numbers, and less than `Word`
  (2^64) bytes come between two samples. A narrower counter may come round several times.
- `AiAssumption`: no model has the name that stands for "none".
- `UsageAssumption`: a table has room for a row.

### Invariants

Hardly any of the properties is inductive. What had to be added is what makes the
component correct, and it is written as named parts at the head of each section of
the proofs.

**`NeverPanics`.** `NoClosedMember` is not inductive. From a state in which a client
is twice in `h.reg`, or is still in it although its channel has been closed, one
step breaks it, and it is not evident that there is no such state: the `select` may
take an unregistration before the registration of the same client. What saves the
hub is that `close` happens only for a *member*, so an unregistration that comes
first does nothing. `NoPanicInv` says so: no client is twice on its way in
(`RegOnce`), a client on its way in has an open channel and is no member
(`RegFresh`), one that has not been sent is unknown (`Unsent`), the range loop runs
over members, and members are open. (The price is a leak, section 7.)

**`DeliveredInOrder`, `OnlySlowClientsEverLose`.** `OrderInv` orders everything along
the way of an event: what a tab has got is below what is queued for it, both are at
most the event the hub has in hand, strictly below it for a tab the loop has still to
offer to, and that event is below everything in `h.bcast`, whose elements are at most
`calls`. `LossInv` adds what a tab that was never slow has: every event since its
registration, except the one in hand if the loop has not come to it.

**`HubImplementsTopic`.** A write of the pump is `Receive`, starting the pumps is
`Attach`, the end of `writePump` is `Detach`, `Broadcast` is `Publish`, the rest
stutters. A `Receive` must be of an event newer than all before it (`OrderInv`) and
no newer than the last published. `PumpAfterReg` ties the start of a pump to the
place of its handler, so that no tab is attached twice.

**`FailuresStayBounded`.** `FailuresBounded` is inductive together with the types.
The case that matters is `Admit`: it adds a request in flight only while failures
are below the limit, and then the requests in flight, the new one among them, are
at most all the slots. `Fail` moves one from "in flight" to "failures".

**`LogoutStaysFinal`, `CookiesAlwaysWork`** (`SessionInv`). Session ids are numbered and
one that is being stored is in one request only and in nobody's hands (`Numbered`,
`OneStores`). So an insert can never put back the row of a session that was logged out
(`RowsRevoked`): its only insert came before it was handed out. `RowsKept` is the other
direction: whatever removes the row of a session in somebody's hands is its expiry or
its logout, as a prune removes expired rows only.

**`SessionsLiveOnce`** (`LifeInv`). Signing, the INSERT, the DELETE of a logout and the prune are
the steps of `SessionLife`; an INSERT that fails and a restart are `Lose`; the rest
stutters, a logout of a session without a row included. Beyond `SessionInv` it needs that
a session to be inserted has no row (`NotYetStored`), without which an INSERT could
revive one.

**`AlwaysMigratesToCurrent`, `ChoicesAlwaysKept`** (`BootInv`). Migrations are recorded
without gaps (`Closed`), a process has passed only what is recorded (`Passed`), what a
recorded script seeds is there (`SeedsPresent`), and so a script that is run again
after a kill cannot overwrite what a user saved (`Settled`). `Alone` holds as long as no
two processes overlapped: it relates the statement a script has come to with the
schema of the sessions table, which is what a crash between statement and record
leaves in doubt, and every secret used with the one that is stored.

**`RingAlwaysAgrees`, `AlwaysSentOnce`** (`StoreInv`). One request is inside the mutex
(`OneInside`), the log is numbered in the order of the critical sections, row ids ascend
with it (`TableInOrder`), the ring is its tail (`RingIsTail`), and each entry was sent or is
in the hands of exactly one request (`SentOrInHand`, `HandsCounted`).

**`LiveEchoAlwaysShownOnce`** (`PaneInv`, on top of `PaneImplementsStore`). An entry that is
still to arrive is not shown; where one is shown in a pane that was live when it was
echoed, everything from it on has arrived and is shown once (`ShownAs`, `OnceFrom`); one
that has arrived and is not shown was pushed out of a full pane by such entries.
`TwiceAtMost` needs that an entry whose event is to come is shown at most once: by the
history that was fetched.

**Streams.** `CmdInv`, `TermInv` and `ChatInv` say the same of three chains: what has
arrived, followed by what is in each place on the way, read in order, is what the
source has produced. No handing over changes that sequence. What differs is its end.
In `CmdInv` the way narrows at a line that is too long, where the scanner stops; in
`TermInv` there are two directions, and the farewell of the pump; in `ChatInv` lines are
cut in pieces anywhere, so what is on the way is first put together (`Whole`), and a
prefix of the body has left it for good (`LeftTheBody`), after which an error is marked
once.

**`TerminalAlwaysDelivers`, `AnswerAlwaysDelivers`.** That nothing is left out or comes
twice is in `TermInv` and `ChatInv`. The end is the rest: a tab that has been told it
is over never has a shell that runs (`TermOver`), so nothing is made any more; a page
that has been left or told is given nothing (`PageFacts`), and an answer that ends without a
mark has left nothing on the way (`IdleShowsAll`).

**`LogsAlwaysShown`** (`ToldInv`, `Framed`). What was written to a followed log is what the
events hold, joined, then the block in the goroutine's hands, then the pipe (`Told`); the
pipe is the end of the text (`EndOfLog`), the stages of the two goroutines say when the
block is empty (`Stages`), and the characters of a block between newlines are of one line
(`Steady`). Reading a block cuts it at its newlines and every `PieceMax` cells, which
leaves the characters in order. A container's log has a theorem about data alone: the
joined bytes of frames, split at newlines, are the frames with their headers, if no
header and no inner byte is a newline and each frame is a line that is not empty.

**`LoginsAlwaysAsTold`.** `LocksHeld`: no creation that has `chpasswd` before it is of an
account whose lock is said to hold.

**`PairAlwaysKept`.** The certificate of the pair being written is on disk before its key;
until then the one that users accepted is in both files.

**`AloneAlwaysGood`.** Without an overlap there is one save under way, and when it has been
tested by nginx the temporary file is there and has no errors.

**`MapAlwaysLive`, `AloneAlwaysInItsDatabase`** (`DbInv`). A connection that was dialed and
not stored is nobody else's (`DialedIsOwn`), so the map cannot get a closed one.
`Alone`: the connection that a lone request put back after `USE` is the last of its
pool's free ones, and there was room for it, so the query that follows takes it.

**`CommentsAlwaysStay`, `OnlyTheJobEverShown`** (`CronInv`). In a file every line that held
a job in anybody's list holds that job or is blank (`RowsKept`): deletes blank a line
there and additions come at the end, which needs that the text ends with a newline
(`EndsBlank`). In a spool a change that is current has read what was listed (`Pending`).

**`OnlyTheRuleEverShown`** (`FwInv`). No rule occurs twice in a chain (`RulesDiffer`), and the
page of a tab that is fresh shows the rules as they are (`FreshShown`); so the position
that the page sends is the position of the rule that was clicked, and it has no other.

**`OnlyTheRepoEverShown`** (`RepoShape`, `RepoClean`). What the texts of the three package
managers are stays true of whatever is written back: a source line of its repository for
apt, sections with a header of their own for pacman and dnf (`FileText`). The request of
a tab that nothing has disturbed holds the file as it is, and the line of its row still
says whose it is (`Undisturbed`). What an edit does to the *others* is a lemma for each
change: lines are commented out, put in or taken out, and all other sections embed in the
new text in their order (`TakenOut`, `PutIn`).

**`FilesAlwaysKeepTheirText`** (`FilesInv`). What a page that is sure of its editor has in it,
or is going to have when the one answer on its way comes (`EditorFits`), what is being
written (`WritesFit`) and what is on disk (`DiskFits`) are texts the file may have.

**`UnfilledAlwaysTold`.** Inductive with its types. That the volumes fit in their group is a sum
over volumes, which changes by what one of them grows (`LvGroup`, `SumChanged`).

**`NeverUnusable`, `OkAlwaysMeansStarted`** (`CtrInv`). A version is
adopted on the answer of a daemon that serves it (`ConfirmVersion`), whichever daemon
named it; what changes after that is in `replaced`. Numbers of requests are given once, a
container carries the number of the request that created it, and a request that may
still create one, in progress or late, has a number that no container and no other such
request has (`CreatesOnce`): a late creation cannot become the container that another
request is told it has started.

**`EachUnitAlwaysOnce`** (`ServicesInv`). Under systemd a list has, after its first call, a
row for every unit that has been loaded since it began, and none has two (`RowsSoFar`);
after a second call that did not fail, one for every unit installed as long
(`AllInstalledListed`). What is printed by a command is of OpenRC (`PrintedByOpenRC`).

**`FixesAlwaysStaySeen`** (`ScoreInv`). Every score tells the truth of what has not changed
since (`ScoresTell`). Without overlap known, stored and running scores are in this
order of age (`InOrder`), so that what replaces one has seen at least as much.

**`RateAlwaysWhatCame`** (`NetInv`). The counter of an interface is the sample its stream
holds plus what came since less what the counter was set back (`CameSince`); it is below
`Word`, as the sample is, so that the difference modulo `Word` is that number or, if it is
below zero, `Word` more (`RateOfADifference`). The seconds that the rates have told and the
age of the tick that the stream holds are together the seconds of the stream
(`SecondsTold`), which needs that a tick that waits is no older than that (`TicksInTime`).

**`AlwaysOneFileSystem`** (`UsageInv`). The table is that of the directory shown. The ways from
the files to the root part at the rows (`WaysPart`), so no file is counted in two rows
(`CountedOnce`), and sums over parts that have nothing in common are at most the sum over
the whole (`SumOfParts`).

**Compositions.** An instance that joins components behaves, for each of them, like that
component alone, as a step of one part is a stutter of the others (`AdminIsItsParts`,
`HostIsItsParts`, `StreamsInv`); `AuthTypeCorrect`, `StreamsTypeCorrect`, `LogsAlwaysShown`,
`AdminTypeCorrect`, `OnlyWhatIsEverShown` and `HostTypeCorrect` follow from it.

### Data

The library's theorems about induction, recursive functions and folds take an operator as
a parameter, for which the provers have no instance. `DataLemmas` does without: to prove
something of every number, or of every finite set, the numbers or sets for which it holds
are collected in a set, and `EveryNumber` or `EverySubset` says that it has all of them.
In this way a function given step by step exists and is what `CHOOSE` picks
(`StepByStep`), the sum of a function over a finite set does not depend on the order in
which its members are taken (`SumsAgree`), and joined sequences have the elements of their
parts at the places one expects (`FlattenIs`, `PlacesExist`). The recursive functions of
`LogFollow`, `ContainerLog` and `DiskUsage` are defined so that these lemmas apply.

### Only model-checked

Liveness: `AllGetThrough` and `StreamsEnd`. Fairness and `ENABLED` are out of the prover's
reach. The refinements `EachLivesOnce`, `TerminalDelivers` and `AnswerDelivers` are the other
way round: they are proved, and no run lists them.

## 7. Where code and documentation differ

Six differences are runs (section 4). These were met as well; the models follow the
code, and no property claims more than it does.

- *Hub*: a client that is unregistered before it is registered stays in the map for
  ever, its channel filling up and every later event being dropped for it.
- *Sessions*: the settings page says of the bypass token "Leave blank to disable",
  but a token blanked there stays in force until the server restarts. Sessions
  issued for the bypass token are refused afterwards by an allow-list that does not
  name `sso`. A logout answers "ok" when its DELETE failed. A secret that could not
  be read is overwritten by a new one, which ends all sessions. `/auth/bypass` is
  listed among the routes without a handler; `server.port` is never read.
- *Start-up*: `Migrate` is called idempotent; two processes that migrate the same
  file at the same time can drop the new sessions table under the other.
- *Pane*: of two commands echoed between the fetch of the history and the
  subscription the first is never shown, although the pane is to show every action;
  an entry that is in the history and replayed by the store occurs twice in a keyed
  list.
- *Logs*: a line that straddles two reads is sent as two events. A container's line
  that spans frames keeps the header in its middle; a header with the code of a
  newline in it is split; an empty line is shown as its bare header, which is stripped
  only from what is longer (`containers.go:162`).
- *Cron*: a job's id is called stable; in a spool a delete shifts the lines below
  it. A spool whose reading fails is replaced by the one job that was to be added.
  A delete in a spool leaves the comment, which then stands above the next job.
  Two overlapping changes lose one of them.
- *Firewall*: "Status: inactive" contains "active", so ufw is shown as active in any
  case; a delete by ufw is aborted by its own question and reported as done;
  `ufw from ADDRESS allow` has its words in an order ufw refuses; an iptables rule
  of another chain is deleted from the input chain; nft ids are never valid; rows of
  several chains have the same key in the page; a row of exactly nine fields is
  indexed at its tenth.
- *Databases*: `Connect` overwrites a connection without closing it; PostgreSQL
  ignores the selected database, and a client that leaves during a query breaks the
  connection for all.
- *Web servers*: what is tested is the live configuration for Apache and nothing for
  Caddy. *TLS*: the certificate is not renewed while the server runs.
- *Terminal*: "cleans up on disconnect" does not hold while the loop is blocked in a
  write to a shell that does not read.
- *Files*: the page offers to save while a read is on its way or has failed: what is
  saved then is the text of the file opened before. The answer for a file that has been
  left is put into the editor of the next one.
- *Users*: an account that is locked while its creation sets the password is
  unlocked by that.
- *Network*: the page sends the removal of an address without a body
  (`Network.svelte:156`), the handler wants the address in it (`network.go:109`);
  opening another interface leaves the stream of the former one running. A
  difference of unsigned numbers is never below zero, so the clamp to 0 with the comment
  "counter wrap" (`netstats.go:67`) does nothing: a counter of 32 bits that comes round, or
  an interface that is made anew, shows one rate of almost 2^64 bytes a second. The
  sample is taken when a tick is handled and timed as of the tick, so after a slow page
  the bytes of several seconds are shown as those of one, and the next rate has too few.
- *Services*: `List` is to return "all units visible to systemd" (`systemd.go:58`), but when
  the call for the unit files fails its error is dropped (`systemd.go:73`): units
  that are installed and not loaded are missing from an answer that reports success.
  Under OpenRC a service of two runlevels is listed for each, and stopped services of no
  runlevel are not listed, which is what `rc-status` prints; `EachUnitOnce` is therefore
  about systemd.
- *Disks*: a file with two names, or below a bind mount of the same device, is counted for
  each. The drill-down takes any path that begins with the text of a mount point, also a
  sibling whose name begins with its name (`disks.go:123`).
- *Hardening*: of two scans that overlap the one that began earlier may be stored
  last; pages are given its result for a day.
- *AI*: whether a model is chosen is looked at before the one that was pulled is
  chosen; a model chosen in between is overwritten. The page puts the model it pulled
  into its form also when the pull failed.

## 8. What is not modelled

- **Data without control**: parsing of tool output, rendering, snapshots of `/proc`,
  port listings, svccheck, Ansible facts, Puppet reports, what a health or
  hardening check looks at, the dashboard, the migration generator, the route table.
- **Trusted parts**: password back ends, the signature of tokens, SQLite itself (a
  statement is atomic and durable), `os/exec`, `database/sql`, the browser. The
  daemons, providers and tools on the other side are modelled as far as what they
  answer goes.
- **Configuration**: a constant of the models. The ephemeral secret of a server
  without a database and disabled authentication are left out of `Sessions`.
- **Abstracted control**: truncation windows of `os.WriteFile` for crontabs,
  configuration and repositories (`Files` has them), resizing of terminals, the
  display of the pane (autoscroll, clear), the read-only filter of the database browser,
  routes and flatpak remotes, enabling and disabling of sites, of the Puppet agent,
  `chmod` and rename, the logs of a unit and the tail of a file. Except for the
  truncation windows and the resizing, each of these is one command or one read of one
  request.
- **Uncalled code**: `RunSetup`, `ChangeShell`, `PullImage`, `RemoveImage`.

## 9. Plan

Done: hub with its abstract topic; echo store and pane; sessions, limiter, start-up; the
five streams; the editors of shared resources; the operations on the host; the
abstract specifications of a topic, a stream and a session; and the proofs of section 6,
which have every safety property of the runs.

What is left, by what it is worth:

1. An abstract specification of an editor of a shared text (read, change, write back,
   with what happened in between), which `CronTable`, `ConfigEditor`, `RepoFiles` and
   `Files` implement under the conditions their properties name.
2. `Delivery` with two sources that are shown one after the other, for `CommandStream`.
3. The truncation windows and the enabling of sites (section 8) in the models of crontabs,
   configuration and repositories.

## 10. How to run it

    tlc -workers 2 -config MCHub_all.cfg MCHub.tla
    tlapm HubProofs.tla

and so on for the module and configuration each run of `PROJECT.json` names. The
modules need the community modules `SequencesExt`, `FiniteSetsExt` and `Functions`,
the proofs `TLAPS`, `SequenceTheorems`, `FiniteSetTheorems` and `WellFoundedInduction`.
`StreamProofs` takes some ten minutes, `AdminProofs` and `HostProofs` about half of that, the
other proofs a minute or two each. A leaf that names a time limit (`SMTT(30)`) needs it on a
slow machine only.
