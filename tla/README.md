# VizEye in TLA+

A model of the monitoring system VizEye: TLA+ modules for the parts that carry
its own logic, TLC configurations that check them on small instances, and
TLAPS proofs of what matters most for every instance. Paths below are relative
to the repository.

## 1. The system

| Component | State it keeps | Operations | Talks to |
|---|---|---|---|
| Uptime checker (`monitor-checker.service.ts`) | `running`, the set of ids being checked; `lastStatus`, `lastCheckedAt` of rows; `CheckResult` rows | `runDueChecks` every 30 s, `checkNow` on request, `checkMonitor` | targets (probes), database |
| Monitors (`monitors.service.ts`) | `Monitor` rows | create, update, remove | shares the rows with the checker |
| SNMP probes (`monitors/checkers`) | sockets, timers and promises in the backend process | a packet per probe, an answer, an error or a timeout | devices, the name resolver |
| Sessions (`auth.service.ts`, `lib/api.ts`, `use-auth.ts`) | `RefreshToken` rows; cookies and localStorage shared by tabs; a flag per tab | login, refresh, logout, the 401 interceptor | HTTP between tab and backend |
| Accounts (`auth.service.ts`, `users.service.ts`) | `Organization` and `User` rows | register, create, update, remove, behind `JwtStrategy` and `RolesGuard` | database |
| Agent (`apps/agent`) | hashes of watched files, previous network sample, pending ticks | collect, heartbeat, post with retry, stop | HTTP to ingest |
| Agent's collectors | a goroutine each, a channel, the context of a round | `CollectAll`, one `Collect` per collector | the host |
| Installation (`deploy/page.tsx`, `config.go`) | program, configuration, service on the host; the key in the database | the scripts, the service manager, `Load` | backend, host |
| Ingest (`metrics.service.ts`, `agent-key.guard.ts`) | `Metric` rows, `lastSeenAt` | ingest, heartbeat | database; the checker's agent probe reads `lastSeenAt` |
| Assets, discovery | `Asset` rows | CRUD, CSV and network import, scans, connectivity check | database, network |
| Dashboards, alert rules, incidents | their rows | handlers that read and then write | database |
| Events, reports, status page | none | counts and transitions over results, incidents, assets | read what checker, users and agent write |
| Start-up (`docker-entrypoint.sh`, `seed.ts`, `seed-reset.ts`) | the database | schema push, count, seed, reset | database |
| Pages (`apps/frontend`) | forms, wizards, results shown, answers kept per query | open, edit, save, ask, poll | HTTP to the backend |
| API keys, settings, audit, maintenance, notifications, health | rows or nothing | single statements | database |

What makes it hard: the backend is one Node process in which every `await` lets
other handlers run, and no handler uses a transaction; cron runs overlap; users
edit what a check is working on; tabs share tokens but not flags; the agent
retries over a network that loses answers; its collectors run side by side and
one that hangs holds all; every process may be restarted between any two
statements; a page's answers do not say which question they answer.

What makes each part correct:

* checker: one check of a monitor at a time, no id stuck in `running`, every due
  monitor checked, the status shown is that of the newest result and, in the
  end, of the present configuration;
* probes: no socket left open, no probe that can stop the process, packets that
  a device can read;
* sessions and accounts: a browser is not left with a dead token (unless the tab that
  was exchanging it is closed or reloaded), a token is exchanged once per tab, the flag
  always comes down; an e-mail is one account, an organization keeps an admin;
* agent: delivered means stored, copies are bounded, changes are not invented,
  an agent that was cut off comes back; a round gathers every answer once and
  ends; a rate is the traffic there was; a script that reports success has left
  its key;
* back office: one default dashboard, no lost toggle, reports that agree with
  themselves, scans that are exact, one asset per address, demo data that is
  whole but for what users delete of it, an application that starts;
* pages: a form saves the row it names, an answer stands beside its question,
  what was typed stays until it is saved, no button takes an incident back, a list
  shows in the end what was changed, if the answer to the change arrives.

The hazards, each at its line, are in `PROJECT.json`.

## 2. Modules

| Module | Models | Composes |
|---|---|---|
| `MonitorChecker` | checker and monitor rows | both components, users, database faults, crashes |
| `CheckCadence` | the clock of one monitor under the 30 s cron job | |
| `Sessions` | token table and browser tabs | backend and frontend |
| `Upload` | abstract: what an upload promises | |
| `AgentDelivery` | agent, network, guard, ingest, keys | implements `Upload` |
| `Gather` | abstract: what one collection promises | |
| `Collectors` | `CollectAll` and what each collector can answer | implements `Gather` |
| `NetRate` | counters of fixed width, and the rates made of them | |
| `Installer` | a machine, its service manager, the scripts | deploy page, agent's start |
| `MCAgentHost` | the last three on one host | |
| `Desk` | dashboards, alert rules, incidents | |
| `Reports`, `History` | counts beside writers; transitions of an asset | events, status page, incidents, organizations |
| `Discovery` | ranges, scans, imports, users' assets | discovery and assets |
| `Accounts` | organizations and users | registration, users, guards |
| `Seeding` | entrypoint, seed, reset, operator, users | |
| `Wire`, `Probes` | SNMP packets as octets; sockets and timers | |
| `MCBackOffice` | the eight above | |
| `AssetForm`, `MonitorForm`, `Deploy`, `CsvImport`, `ScanTab`, `SnmpTab`, `Palette`, `MetricChart`, `IncidentPanel` | one page, or part of one, each, with the service it asks | |
| `NewRow` | the six forms that add a row to a list | |
| `Lists` | what a filter keeps of a list, in its order | used by `History`, `Palette`, `MetricChart` |
| `LiveView` | what any page shows of the server | every page's queries and mutations |
| `MCScreens` | the eleven above | |
| `MonitorCheckerProofs`, `CheckCadenceProofs`, `SessionsProofs`, `AgentDeliveryProofs` | theorems | each extends its component |
| `ListProofs` | lemmas | numbers, recursive functions over them, kept entries |
| `AgentHostProofs`, `BackOfficeProofs`, `ScreensProofs` | theorems | each extends a composition |
| `MCMonitorChecker`, `MCSessions`, `MCAgentDelivery` | constants and symmetry for TLC | |
| `MCChecker` | the checks, and beside them the clock of one monitor | `MCMonitorChecker`, `CheckCadence` |

The parts of `MCChecker`, `MCAgentHost`, `MCBackOffice` and `MCScreens` share no variable that
one writes and another reads in a guard. A behaviour in which two of them move is
an interleaving of one behaviour of each, so nothing is lost by letting one move
per behaviour: `topic`, chosen in the initial state, says which.

### MonitorChecker

A slot of `checks` is one call of `checkMonitor`; its `pc` is the `await` it
stands at (the module's header lists them). `row` is the table `Monitor` reduced
to what the checker reads and writes, with `due` for the test on
`lastCheckedAt`; `newest` the status of the latest `CheckResult`; `running` the
service's set; `batch` what a run of `runDueChecks` got from its query and has
not yet looped over. The loop has no `await` and is one step (`Dispatch`); it
tests `running` as it is then. `UpdateApplied` and `InsertApplied` are the two
statements at the end of a check; each can fail (`StatementFails`) or find no
row (`UpdateMisses`, `InsertMisses`), and the `finally` is `Finish`. A probe is
reduced to `Outcomes`, to hanging (`MayHang`: `checkHttp` after destroying the
response) and to throwing (`Malformed`). `asked`, `torn` and `measured` are
history: they let the properties say when the code promises nothing.

### CheckCadence

Seconds since the last tick, since the last stamp, and since the last check,
for one monitor whose checks take `MinLatency..MaxLatency` s and whose timer is
up to `Jitter` s late. It shows what the comparison of a stamp at the end of a
check with a threshold equal to the period does: the next tick always finds the
monitor not due.

### Sessions

`token` is the table, `store` the browser's cookies and localStorage,
`refreshing` one flag per tab. A request goes through `sent`, `denied` and then
the interceptor of `api.ts`, whose `refreshTokens` on the server is three steps
(read, revoke, create), because the code has three statements and no
transaction. `getMe` failing clears the store from `use-auth.ts`; a logout that
comes back 401 is retried by the interceptor with its old body.

A tab may be closed, reloaded or left for another site at any point (`Leave`), and the
login form is reached by a full navigation (`ToLoginForm`): its requests and its flag are
gone then, no catch or finally of `api.ts` runs, and what the backend has of the requests
goes on as `orphans`. `cut` is history: the tokens revoked by a call that had no tab any
more, or whose tab went before it could store the new pair (or, of a logout, clear the
store). Such a token stays in the store until the next denied request exchanges it in vain
and clears it. `StoreUsable` excepts these and nothing else: `Owed` is the token that a
call has revoked while its tab is still to mend the store.

### Upload and AgentDelivery

`Upload` has batches, the agent's verdict on each and the copies in the table.
`AgentDelivery` has the goroutine (`agent.pc` is its place in `postWithRetry`,
`agent.phase` its place in `Run`), the two tickers with room for one tick, the
contexts (`cancelled`, `agent.expired`), and the requests in progress: `conns`.
A request the client has given up (`awaited = FALSE`) goes on in the server,
which is where late and double copies come from. `Collect` is the whole of
`FileWatchCollector.Collect` and the beginning of the post: `fileHashes` is
updated there, before anything is delivered. The server's handler is `Guard`,
`Insert`, `See`, one step per statement. `log` and `stored` are the refinement
mapping; `INSTANCE Upload` takes them by name.

### Gather, Collectors, NetRate

`worker[w].pc` is where the goroutine of a collector stands (running, with an
answer, its answer in the channel, done); `ch` the buffered channel, `closed`
and `caller` the goroutine that closes it and `CollectAll` itself, `all` the
points taken. `Collect` lists what each collector can answer, from its error
paths; a panic is an error, a command is killed when the context expires
(`expired`), a reading of a dead file system (`stuck`) is neither. `Gather` is the
same round without goroutines or channel: each worker asked settles, its parcel
is taken once if it is good, the round ends when all have settled and all good
parcels are taken. `Collectors` maps the verdicts and parcels to `worker` and
`all`.

`NetRate` has the counters modulo `2^Width` and what `network.go` remembers: the
previous sample of each interface and one time for all. `moved`, `age` and `truth`
are what really happened, against which the rate is held.

### Installer

The state of a host is its program (`binary`), the key in its configuration, the
service and the agent that is up. The four scripts of the deploy page differ in
a few facts, kept as records (`Linux`, `FreeBSD`, `MacOS`, `Windows`): whether a
failing command ends the script, whether a running program can be replaced,
whether the service file's directory is there, whether the script asks the
agent's state before it reports, what the service manager does with a program
that exits. A script may be run, run again with an older or newer key, refused
or cut off at its download, and cut off by a reboot.

### Desk, Reports, History

`req[r]` is a handler between its read and its write: `Find` is the `findFirst`
with its 404, `Write` the statement by id, `ClearDefault` and `InsertDefault` the
two statements of a new default dashboard; `Fail` is a statement that fails. `want`,
`raced`, `clash` and `solved` are history: what the toggles add up to, which rule
was written between a toggle's read and write, whether two creations overlapped.

`Reports` has one table and one report at a time, each with its counts
(`Promise.all`, in any order) and what of it is part of what; `changes` counts
the writes in between. `History` reads a list of results, newest `Limit` of a time
window, and builds the transitions as `assetHistory` does.

### Discovery

`parseRange` for a network, a run and a single address over addresses of `Bits`
bits in octets of `OctetBits`, with signed numbers as `<<` makes them and the
octets as they are written (`Wrap`). A scan takes its addresses in batches;
an import takes its hosts one after the other, a lookup and a creation each.
`overlapped` are the addresses two imports found missing before either created them.

### Accounts, Seeding

`Accounts` has the statements of registration and of the users' service; a
caller is an active user with the role at the moment of `Enter`, which is when
the strategy and the guard look. `Seeding` has the entrypoint's steps (`boot`) and
the scripts: a table is the set of those whose rows are in it, each statement of
the seed adds to one table, each of the reset takes one away and cascades as
`schema.prisma` says. The container may be stopped between any two, and an operator
may run both scripts beside it. Users add rows and delete them (`Deletable`), and the
database drops metrics after 90 days (`Dropped`); `deleted` notes the tables that have
lost all the demo data they had. In `Accounts`, `excused` notes an organization in which
an admin's role or access was taken away by an edit, which no statement guards; an edit
that leaves the user an active admin, or of one who was none, does not excuse.

### Wire, Probes

`Wire` builds the packets of the monitors' probe, of `runSnmpCheck` and of the
discovery page's tester octet by octet as the code concatenates them (lengths,
base-128 arcs with signed shifts), and reads them back as a device reads BER, octet by octet.
Version 3 and the tester's packet are built and read like the others; `PacketsAsSaid` says
what comments and the monitor's form promise of them, `WireRead` what holds of versions 1
and 2c.
`Probes` has one probe per slot: what answered it, whether its socket is open,
its timer set, its name looked up. A `close()` on a closed socket throws; where
the code does not catch it the process ends, and `culprit` keeps the probe that
did it.

### The pages

`Lists!Kept` is a filter, by the set of the places it keeps: unlike a fold it can be reasoned
about. Lists that are built entry by entry (`Told`, `FileAll`) are recursive functions over
the number of entries taken so far.

Each page is the state of its component: fields, the row being edited, requests
in flight, what is shown. `touched`, `crossed`, `retyped`, `strayed`, `overlapped`
and `slipped` are history, named for what makes an answer or a mark come to stand
beside something else than it belongs to; the properties except them by name, so a
run shows that nothing else does. `LiveView` takes the pages as data: for each the
intervals of its queries and the queries each operation invalidates, with the
client's own rules (one retry, an invalidation drops the answer under way). An operation
may be refused, or it or its answer lost (`NotAnswered`), done or not: no `onSuccess` runs
then and nothing is asked anew. The client's refetch when a window gets the focus back,
which would mend that too, is left to the user and left out.
`MetricChart` has the service's `getLatest` and `getHistory` and the page's
`buildChartData`, which files points under hour and minute.

`IncidentPanel` has the details of the incident selected (`detail`, kept per
incident, `reading` under way), the buttons that move it on from the status shown,
and the field of comments. The service applies an update whatever the status is by
then; the page's requests follow the selection until the next one is sent
(`asks`), since the mutation's callbacks are renewed at each render. `disturbed` and
`late` say when another user, a second update, or an answer to an earlier comment
came between. `NewRow` has the forms for incidents, alert rules, maintenance windows,
members, channels and API keys, which are written alike; where they differ is kept
as records (`tabbed`, `emptied`, `parsed`, `shown`). `opening` counts how often the form
was opened, and a row remembers of which opening it is and how its answer ended.

## 3. Runs

| Run | Question | Instance | Result |
|---|---|---|---|
| `checker_safety` | is `running` exact, are cron checks exclusive, is the status that of the newest result? | 1 monitor, 2 configurations (one may hang, one is malformed), 2 cron runs, 3 calls, 1 fault | holds |
| `checker_liveness` | is a due monitor checked, a stale status replaced, an id released? how long is a monitor left alone? | 1 monitor, 2 well-formed configurations, 1 cron run, 2 calls, no faults; period 30 s, jitter 1, checks of 2 to 10 s | holds; it is checked at every second tick, never later |
| `cadence_interval` | does the interval of the form hold? | the same clock, interval 30 s | violated: finding |
| `sessions_two_tabs` | can the browser be left with a dead token? | 2 tabs, one request each, 3 pairs, 1 fault (a tab left is one) | only if the call that revoked it lost its tab |
| `sessions_one_tab` | is a token exchanged once, does the flag come down? | 1 tab, 2 requests, 2 pairs, 1 fault | holds |
| `agent_safety` | does the agent keep `Upload`, are copies bounded, changes real? | 1 file, 2 contents, 2 attempts, 2 requests, 2 faults | holds |
| `agent_liveness` | does an agent that was cut off come back? | the same without edits | holds |
| `agent_file_changes` | is the length of the list of changes their number? | 2 files, no faults | violated: finding |
| `collectors` | does a round keep `Gather` and end, are rates true, what does a finished script leave? | any 1 or 2 of the 9 collectors; 1 interface of 2 bits; 4 systems, 2 keys | holds |
| `backoffice` | the properties of `Desk` to `Probes` | see below | holds |
| `snmp_packets` | is every packet what is said of it? | the packets of `backoffice` | violated: finding |
| `screens` | the properties of the pages | see below | holds |

What the properties of `collectors`, `backoffice` and `screens` say:

* `GatherSpec`, `RoundEnds`: a round returns the points of every success once and
  nothing else, and ends unless a reading never returns. `RateTrue`: a rate is what the
  interface moved since the last successful collection, wrapped counters included,
  unless the counter restarted. `InstallKeeps`: a script that reports success has
  left its key; an agent that is up on Linux has the configured key unless it came up
  between a later script's fetch and its configuration; a registered service can be
  started unless something was cut off.
* `OneDefault`, `TogglesCount`, `ResolvedCounted`; `Coherent` (the parts of a report
  are not more than the whole, but for the changes made meanwhile);
  `TransitionsTell`; `ScanExact`; `ImportedOnce`; `AdminRemains`, `EmailOnce`;
  `SeedWhole`, `AppStarts`; `WireRead`; `ProbesContained`. Where the code lets two
  requests spoil something, the property names those two as its exception, and a
  run shows there is no other way.
* `FormsTrue` (what a form saves is what it shows, of the row it names; results stand
  beside their questions; no button takes an incident back to an earlier status; what
  was typed stays until it is saved; one opening of a form makes one row),
  `DrawnTrue` (Enter opens what is marked; a chart ends where its card stands),
  `ListsShown` (a page shows in the end what it changed, once the change was answered,
  and what anybody changed where it polls). They are conjunctions of the pages' own
  properties, each stated in its module.

Each property has a mutant in `PROJECT.json`: a change of one definition, such
as a bug could make, under which TLC finds the property violated in that run.
The mutated form stands in the module as a definition of its own, before the one
it changes.

### Bounds

Monitors share nothing but the query's limit, so one monitor shows all
interleavings of its checks; two cron runs are the least that can overlap and a
third behaves like the second once the first is in `running`; three calls allow
two of check-now and one of the cron job. With fewer monitors than the limit,
`take: 50` never cuts: the starvation it allows beyond is not checked. A token pair
matters only relative to the one before and the one after: three cover an
exchange, a second exchange and what is left; beyond them the backend fails, which
is a legal outcome. In one tab two are enough: `ExchangedOncePerTab` is false as soon as a
second request finds the token valid, before it gets a pair. Two attempts with two faults
cover a lost answer, the copy it causes, and the last attempt; two requests in progress are the awaited one and a
late one. One batch is remembered at a time, so a new collection waits until late
copies of the last are done; heartbeats do not. One fault in `checker_safety` is a
crash or a failed statement at any point.

Collectors meet only in the channel, so pairs show every order of two answers; any
number is covered by the theorem. Two bits and bursts of three bytes let a counter
wrap around; two keys are a current and an outdated script. In `backoffice` two
requests overlap on two rows, or on one incident; two changes fall between the counts of a report;
three results, four instants and a limit of two cut a history; the ranges are all
of an address space of 3 bits (2-bit octets, so an address has two), with the
sign bit in use; two accounts, two e-mails and two callers in two organizations;
one restart, and rows deleted from `dashboard`, which takes widgets along, and from
`metric`, the one table the database drops rows of (`Emptied`; another table differs in
what goes with it only); octets of 4 bits with arcs on both sides of every length and of the
sign; two probes. In `screens` a form meets one earlier save and one earlier check
(the code has one of each); two assets, two systems; two versions beyond the
first, three failures of a polled query; a chart's day has three minutes, and seven
instants make it wrap. The panel has two incidents, and is explored three times:
alone, with two updates awaited on one of them; with another user who changes that
one, and one update; and with two comments. A new row's form is opened twice and makes
three rows, the fewest that show a row of an earlier opening beside two of one.

Deadlock is not checked where users and faults can be exhausted (a removed
monitor, a stopped agent, a signed-out browser, a page with nothing left to do).

### Fairness

* Checker: time passes (`BecomeDue`), the cron timer fires (`Query`,
  `Dispatch`), the event loop runs ready continuations and drivers answer
  (`CheckStep`, weak). Whether a probe hangs is left to it; users and faults are
  never required.
* Sessions: the interceptor and the backend's handler go on (weak); users not.
* Agent: tickers tick, the goroutine runs, the server answers (weak). Weak
  fairness of the goroutine as a whole is enough for `BackOnline`, because a
  collection and a heartbeat both refresh `lastSeenAt`; the random choice of
  `select` is not relied on. Faults are finite by the bound: the property is
  about an agent whose network works in the end.
* Collectors: goroutines are scheduled and the context's deadline passes (weak).
  Nothing makes a dead file system answer.
* Seeding: the shell goes on to its next step and a statement ends, in success or
  failure (weak); restarts are finite by the bound.
* Pages: intervals end, queries are handled, their answers are shown (weak). That an
  operation is done or answered is never required. Failures of
  a polled query are finite by the bound; a query that nobody polls is assumed to fail
  once at most, because its one retry is all the code gives it.

## 4. Proofs

Checked by TLAPS for every value of the constants that meets the modules'
assumptions. These say:

* that bounds are numbers, and that the sets counted (connections, rows of a report,
  metrics) are finite;
* that `"none"` is no organization, e-mail, asset, system or incident, and that ids of
  different kinds of rows differ (of organizations, e-mails, rules and dashboards it is
  a hypothesis of the theorems, since TLC's model values are unlike any string);
* (`ScansAssumption`, `ImportsAssumption`) that the addresses tried are of the address
  space, and a scan takes at least one at a time;
* (`MCScreens`) that the lists of the palette are lists of ids (`PaletteAssumption`), and
  that a chart's range is a day at most, which is the widest the page offers
  (`ChartAssumption`);
* (`CheckCadence`) that checks are slower than the timer's jitter and faster than
  its period;
* (`RowsAssumption`) that a listed monitor has a target and a config of its own type, as
  the form wants them of a new one;
* (`WireAssumption`) that a request is no longer than two octets of a length can say (the
  encoder writes no third), that object ids are as X.690 defines them (two arcs at least,
  the first 0, 1 or 2), and that an integer of `&` and `>>` is wider than an octet;
* (`NetRateAssumption`, `ScansAssumption`, `ImportsAssumption`, `WireAssumption`) what the
  provers do not know of powers: that a power of two is a positive number, and that
  `2^Bits = 2^b * 2^(Bits - b)`.

* `MonitorCheckerProofs`: `TypeCorrect` (`TypeInv`), `NoIdLeaks` (`RunningBacked`),
  `Exclusive` (`CronSolo`), `StatusShown` (`StatusMatchesNewest`), for any number
  of monitors, cron runs and calls. The properties are not inductive alone:
  `CronSolo` needs that a batch never starts a monitor in `running`, and that a
  call not yet started by check-now is of a monitor in `asked`;
  `StatusMatchesNewest` needs that a call about to insert carries the status the
  row already shows.
* `CheckCadenceProofs`: `Cadence` (`EverySecondTick`) and `Seldom`
  (`NotTooSeldom`), for any period, jitter and latencies that meet the assumption.
  The invariant relates the three clocks and the phase of the check.
* `SessionsProofs`: `ExchangedOnce` (`ExchangedOncePerTab`) and
  `StoreStaysUsable` (`StoreUsable`), for any number of tabs, requests, pairs and
  faults. The first needs that a request exchanging a token holds its tab's flag
  (`Flagged`), that it has revoked what it presents before it is given a pair
  (`Presents`), that whatever has been exchanged is revoked (`ParentsRevoked`), and
  that a request under way has not been answered yet (`NotYet`). The second adds that
  only issued pairs are stored (`Issued`) and that a pair still on its way is known to
  nobody else, so nobody can revoke it (`OnItsWay`): not to a call whose tab is gone
  either, since what such a call goes on with was presented before (`Inherited`).
* `AgentDeliveryProofs`: `AgentTypes` (`TypeOK`); `KeepsPromise`,
  `Spec => UploadSpec`; `ChangesAreEdits` (`NoPhantomChange`); `CopiesAccounted`
  (`CopiesBounded`). The invariant says that the awaited request is unique and is the
  one the goroutine waits for, that a request's batch has been submitted, and that
  a request past its insert has a copy in the table; without the last, an answer
  `ok` would say nothing about the table. For the changes: a file whose hash
  differs from the remembered one was edited since. For the copies: copies stored
  and requests still able to store one are together at most the attempts made,
  one less while an attempt has not gone out (`Counted`), which counts a finite set of
  connections.
* `AgentHostProofs`:
  * `Gathers`, `Spec => GatherSpec`, for any set of collectors. The invariant
    (`GatherInv`) is that only what is followed runs (`Followed`), that an answer is in
    the channel once and before its points are taken (`Queued`), that points are taken
    once and of successes only (`TakenOnce`), and that what was sent is in the channel
    or taken (`Underway`): so a closed and empty channel has lost nothing.
  * `RatesAreTrue` (`RateTrue`), for counters of any width. The invariant (`NetInv`)
    is that the counter of an interface is its previous sample plus what it moved
    since, modulo the width, as long as it is there and did not restart; the
    difference taken without sign is then what it moved.
  * `InstallationKeeps` (`InstallKeeps`), for any number of keys. `ScriptInv` says what
    a script has done by the line it stands at: past its configuration its key is
    there; past its fetch the program is whole wherever a failure ends the script.
  * `HostTypes` (`MCTypeOK`): with `Room`, no goroutine waits to send.
* `BackOfficeProofs`:
  * `DefaultUnique` (`OneDefault`) from `Alone`: without a clash one request at most
    stands between clearing and inserting, and no default is left while it does.
    `TogglesAddUp` (`TogglesCount`) from `SawRight`: a toggle in flight has seen the rule
    as it is unless it was overtaken. `ResolvedByTheLast` (`ResolvedCounted`).
  * `OneAccountPerEmail` (`EmailOnce`) from what a registration that has looked still
    finds (`EmailFree`, `EmailApart`). `AdminStays` (`AdminRemains`) from `RemoverStays`:
    while one removal at most is under way in an organization, the admin who removes
    stays.
  * `HistoryTold` (`TransitionsTell`), for results of any number, limit and window.
    `HistoryInv` says that results are stored in the order of their time and that
    removing a monitor's keeps it. The rest is about what `assetHistory` makes of them:
    what was told of the first `k` results is a chain of transitions that ends in the
    status of the `k`-th, with one transition for each change among them (`ToldOf`), by
    induction over `k`.
  * `PacketsRead` (`WireRead`), for octets and integers of any width and object ids of any
    length. That the encoder's loop over the groups of an arc and the device's reading of
    items are defined for every argument follows from what is left getting less
    (`MeasureRecursion`). Then: a wrapped value is read as its tag and itself, whatever
    follows it (`Wrapped`, in each of the three forms of a length); what is read of an
    arc's groups is the arc, unless `&` and `>>` made it another number (`GroupsRead`,
    `ArcRead`); and the first octet is read as the first two arcs only in its lower half
    (`PairRead`). `GetRead` puts these together for a packet of version 1 or 2c.
    The packets that no device can read are findings, and model-checked.
  * `ImportsOnce` (`ImportedOnce`) from `MissingSince`: an import that found an address
    missing, which now has an asset, has been overlapped.
  * `ScansExactly` (`ScanExact`), for addresses of any width. `ScanInv` says that what was
    found is who answers of the batches so far; the rest is arithmetic modulo the
    width: a network at a multiple of its size does not run over the end of the
    address space (`NetworkFits`), and the signed shifts name the same addresses as
    unsigned ones (`ModuloShift`, `ModuloApart`).
  * `NoProbeLeaks` (`ProbesContained`) from `ProbeOK`, which relates the socket, the
    timer, the lookup and the answer of one probe.
  * `DemoWhole` (`SeedWhole`), for any number of restarts. `SeedInv`: who has rows has
    the organization, one seed at most has it, and what its rows lack is still to be
    done by it, or was deleted (`DeleteKeeps`), unless a failure left them broken. Removing the organization
    takes its rows along, as `schema.prisma` says.
  * `ReportsAddUp` (`Coherent`), for tables of any size and any number of changes.
    `ReportInv` bounds each report as it would be if its missing counts were taken
    now; a change of one row moves a part and its whole by one at most. For incidents
    that is not enough, since one change may make a row critical and move it to
    another status at once: all that are not resolved have to be bounded too.
  * `OfficeTypes` (`MCTypeOK`) and `OfficeKeeps` (all of the above at once,
    `OfficePromises`) of the composition the runs check: `OfficeInv` conjoins the parts'
    invariants, and a step of one part leaves the variables of the others (`PartsApart`).
* `ScreensProofs`:
  * `FormsKeep` (`FormsTrue`), for any rows, texts, answers and numbers of requests. One
    invariant per page (`PagesInv`): what is awaited is of the question shown, unless
    that was changed since (`AssetInv`, `MonitorInv`, `DeployInv`, `CsvInv`, `ScanTabInv`,
    `SnmpInv`); while nobody else changes an incident, the details shown of it are one
    status behind at most, and the update awaited goes one beyond them at most, and not
    behind the status (`PanelInv`); a row whose answer was shown is of an earlier opening
    than the form's, and than that of the row awaited (`NewRowInv`).
  * `ScreenTypes` (`MCTypeOK`): `PagesTypes` bounds what each page keeps; an import makes
    no more assets than its text has rows.
  * `DrawnKept` (`DrawnTrue`), for any pages, lists, queries, metrics, ranges and times. The
    palette filters one list and draws it group by group, but marks by the place in the
    filtered one: `GroupsJoin` shows that the two orders are one, because the list is made
    group by group (`InGroups`), and `PaletteInv` that the mark stands in it unless the
    lists changed under it. For the chart, `ChartInv` says that a metric's rows are in the
    order they were measured and none is of the future; then the points filed of one
    metric are of increasing minutes (`Filed`), and no two of them under one label unless
    the window wraps around the day (`LabelsApart`), so the last one drawn is what the
    card shows.
* `ListProofs`: induction over numbers without an operator as a parameter. What is to be
  shown for each number is put in a set (`SetInduction`), so that the recursive functions
  the parts use exist (`Recursion`, and `MeasureRecursion` where a measure gets less) and
  what they compute can be proved; what `Kept`
  keeps, in which order, and that kept parts join (`KeptInOrder`, `KeptJoins`).

Model-checked only is everything about liveness (`DueIsChecked`, `StaleStatusHeals`,
`RunningReleased`, `BackOnline`, `FlagReleased`, `RoundEnds`, `AppStarts`, `ListsShown`):
fairness and ENABLED are out of the prover's reach.

## 5. Findings

* The form for a monitor and the seed speak of a check interval per monitor;
  the checker ignores it and, because of the stamp, checks every 60 s
  (`cadence_interval`).
* The events page calls the length of the list the number of file changes; a
  single change makes two rows (`agent_file_changes`).
* The form for a monitor offers SNMP versions and the settings of version 3; no version
  reaches the packet, which is always 2c. A packet of version 3 has its list of bindings
  within a list, and the tester's, a "simple SNMP v1 GET packet" in its comments, has no
  list: no device can read either. The run stops at the first of these packets
  (`snmp_packets`); the property is false of each.

The deploy page says besides that the script for Windows has "installed and started" the
agent (`deploy/page.tsx:134`), whatever failed before, and that an installed agent shows as
online within 30 seconds (`:738-740`), which one that does not report to the service
manager does not. No run is made of this: `InstallKeeps` promises only what a script has
asked before it reports. (In the model the script for Windows passes over failures of its
download and its start; its configuration and registration do not fail.)

Behaviours the modules have, because the code does, and, but for those of the deploy page
just named, no text of the repository denies:

* Checker and probes: a hung HTTP probe takes its monitor out of the cron job until
  a restart; check-now breaks the exclusion. Arcs of 2^31 and more, and
  first pairs beyond one octet, are sent as other objects; any message counts as up.
  The tester's probe can stop the backend when a name lookup fails after its timer.
* Agent: a change whose batch is given up is never reported. On Linux a script run
  while the agent is up cannot replace the program and ends before its key is
  written; if the agent comes up between fetch and configuration, the script reports
  success and the old key stays in use. FreeBSD lacks the unit's directory, so no
  agent is started there; on Windows failures are passed over, "installed" is
  always reported, and the program does not report to the service manager.
* Sessions: two tabs can exchange one token twice. A tab closed or reloaded while it
  exchanges a token leaves the revoked one in the store: the next denied request of any tab
  presents it, is refused, and signs the browser out.
* Assets and pages: a connectivity check can write its host name into another row's
  form; a save's success closes whatever form is open by then; forms save every field
  as loaded, so the last write wins; a deploy script can pair one asset's name with
  another's key; the palette's mark slips when lists arrive; the catalogue's tests may
  overlap and show an older answer. The answer to a comment empties the field, whatever
  was typed meanwhile; that to a new row closes its form, also when it was opened
  again; all these forms but that for members keep what they saved, and after a
  lost answer the same row can be made twice.
* A settings page's own change is not shown if its answer is lost, until the page is
  opened anew or gets the focus back: its queries have no interval. The same goes for
  other lists nobody polls.
* Charts: at most 60 labels whatever the range; a chart of 24 hours may lose its newest
  minute; minutes that earlier series lack are drawn after them; tags are dropped. The
  page asks for names the agent never sends (`net.bytes_sent`, `mem.used_mb`,
  `mem.swap_percent`, `disk.*_gb`).
* Discovery: a network of one or two addresses yields none; a base inside its
  network yields addresses behind it.

## 6. Not modelled

`PROJECT.json` gives the reason for each component. In short:

* Maintenance windows, beyond the form that adds one (`NewRow`) and the list
  (`LiveView`): removal is one statement, and `isMonitorInMaintenance` is never called.
* Live events: `emitToOrg` is never called and the workers are names of queues. What
  stands in for them, polling, is in `LiveView`.
* API keys, settings, audit, notifications, health, widgets, the deletion of a comment,
  beyond the forms in `NewRow` and the deletions in `Seeding`: one statement per request
  over rows nothing else reads.
* Alert events: nothing in the code fires an alert.
* Layout, colours, words, filters; the editing of roles and of the organization's name;
  pages that show one list, beyond their queries; deployment files.
* Passwords, names of hosts, guesses of vendors, values read from the host: data
  that no property tells apart.

Hazards without a property, with the reason in `PROJECT.json`: the starvation that
`take: 50` allows when more monitors are due, since which rows an unordered query
returns is the database's choice; a monitor with a malformed target, which is tried at every
tick and never shows a status; a logout retried with its old body; file changes
lost with a batch or while the agent is down, since nothing promises more; of two toggles
at once the one that is lost; the `resolvedAt` that a reopened incident keeps; more ups than
results in a status page whose counts a new result comes between; transitions told of two
monitors' merged results. In each the code does what its statements say and no text says
otherwise; the properties nearest to them except or allow them by name.
