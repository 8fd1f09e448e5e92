# CasPaste: specifications

TLA+ modules, TLC configurations and TLAPS proofs for CasPaste, a self-hosted
pastebin written in Go. Paths like `storage/paste.go` are relative to the
server's source directory `src/src/`.

`PROJECT.json` lists the components, the runs, which source lines each
definition models, the hazards the properties are aimed at, the disagreements
found, and the theorems.

To check a run: `tlc -config <run>.cfg <module>`. To check the proofs of a
module: `tlapm <module>_proofs.tla`.

## 1. Inventory

One server process serves HTTP with a goroutine per request, runs a task
scheduler, and keeps its data in one SQL database plus, when that database is
not SQLite, a second SQLite copy of it.

| Component | Source | State | Operations | Hard behaviour |
|---|---|---|---|---|
| paste table | `storage/paste.go` | `pastes` in the primary and in `backupPool` | PasteAdd, PasteUpdate, PasteDelete, PasteDeleteIfOneUse, PasteGet (with lazy expiry), PasteDeleteExpired, PasteList | no transaction spans two statements or two databases; statements time out after they may have committed; the process may die between any two |
| endpoints | `web`, `apiv1`, `raw`, `compat`, `graphql`, `netshare/paste.go` | the row a handler has read | get, download, raw, edit, delete, create, list, in some thirty variants | a row is used after the statement that read it; several protocols for one-use pastes |
| scheduler | `scheduler` | task status, LastRun, NextRun; the loop's list of due tasks | Start, Stop, run, checkAndRunTasks, runTask, runCatchUp, RunNow | loop, catch-up and run-now goroutines meet at one task; shutdown; restart |
| rate limiter | `netshare/ratelimit.go` | a window per limiter and address | CheckAndUse, worker | window borders; worker with an old clock reading; several limiters in a row |
| login throttling | `caspasswd/bruteforce.go`, `web/auth.go`, `apiv1/new.go` | failures and lock per address | CheckBlocked, RecordFailure, RecordSuccess, cleanup | check, slow verification and record are three steps |
| admin panel | `admin` | setup token, accounts, invites, sessions, token rows | setup, invite, accept, log in, check a session, log out, restart | look-then-consume of single-use tokens; several statements per request and no transaction |
| credentials | `session`, `token`, `recovery` | rows of sessions, tokens, recovery keys | create, validate, extend, revoke, consume, clean up | times read before the statement that uses them; select, then update |
| password file | `caspasswd/caspasswd.go` | the file | LoadFile, LoadAndCheckWithRehash, RehashPassword, GenerateCredentialsFile | read-modify-write with no lock, in a goroutine per login; truncated before it is written |
| backup and retention | `backup`, the maintenance commands of `server/caspaste.go` | archives, and the files they are made of | Create, Verify, Restore, Apply | two processes; crash in the middle; deleting what is still needed |
| database setup and migration | `storage/storage.go`, `storage/migrate.go`, `server/caspaste.go` | schemas, rows of two databases, `.db-state` | InitDB, MigrateDatabase, checkAndMigrateDatabase | crash in the middle; users change rows between two attempts |
| updater | `updater` | the executable | check, download, verify, replace, restart | crash in the middle; restart from inside the scheduler |
| Tor service | `tor` | a child process and the key of its address | start, stop | key saved after the address is public |
| GeoIP | `geoip` | two database files, two readers | LoadDatabase, UpdateDatabases, Lookup | one of two downloads fails; restart in between |
| server | `server/caspaste.go`, `config` | `server.yml`, the signal channel | start, serve, shut down | failures and crashes at every step; order of shutdown |
| web forms | `web/csrf.go`, `web/auth.go` | a token in the browser's cookie | safe requests, posts, log out | answers to several tabs write one cookie in any order |
| audit log | `audit` | `audit.log`, the process's logger | Init, Log, CloseGlobal | closed while requests still use it |
| log files | `logger`, `server/caspaste.go` | files, writers, copies of the logger | Info, Error, HttpRequest, HttpError, reopenLogs | writers replaced under calls in progress |
| the rest | metrics, TLS, e-mail, pages, client, terminal UI | none that the others read back | - | - |

How they interact: every endpoint asks a rate limiter, then calls the paste
table; the login and the API's create endpoint go through login throttling and
the password file; the scheduler's `paste_cleanup` task and both health
endpoints call PasteDeleteExpired; other tasks of the scheduler call backup,
retention, certificates, GeoIP and the updater; the admin panel's run-now
button and API call RunNow.

What makes each component correct:

* paste table and endpoints: a one-use paste is served at most once; nothing
  that left the table comes back; nothing leaves it without a reason; expiry
  and flags stay what the creator asked for; the copy never holds what the
  primary never had; what should expire does, in both databases;
* scheduler: handlers of one task do not overlap, no task gets stuck, due tasks
  run, Stop ends and leaves the loop quiet, as far as handlers return;
* rate limiter: a bound on what gets through in any period, and a truthful
  Retry-After;
* login throttling: lockouts only for failures in a row, as long as configured,
  and few guesses during one;
* admin panel and credentials: a single-use ticket makes one account, a server
  never becomes one that nobody can administer, what was revoked stays
  revoked, and what was handed out works until it ends;
* web forms, audit and logs: a page that was loaded again can be submitted and a
  foreign one cannot, what is refused is recorded, and rotation neither loses
  lines nor writes to files that were moved away;
* password file: a rewrite loses nobody, and an old password stays old;
* backup: a restore can be undone, and there is always a newest backup;
* server: it serves only with a whole schema, `.db-state` moves on only to a
  database that lacks nothing of the former one, the onion address stays, there
  is always a program to start, and a shutdown ends;
* GeoIP: a denied country stays blocked.

## 2. The paste table: `Endpoints`, `PasteStore`, `PasteLife`

**`Endpoints`** classifies the handlers by the protocol they follow with the
row PasteGet returned, one definition per handler, named after it (with the
package in front where two handlers share a name):

* `confirm`: delete with `PasteDeleteIfOneUse`, serve if this call removed the
  row (the web page after "continue");
* `burn`: delete with `PasteDelete`, serve unless it returned an error (raw,
  download, API);
* `lax`: delete, drop the error, serve; `peek`: serve and delete nothing;
* `ask`: show no body of a one-use paste;
* `edit` and `mbEdit`: write back the row with a new body, with and without
  looking at `is_editable`; `delete`: remove by id.

It also says which lifetimes and flags each creator can ask for. An assumption
evaluated by every run says that the protocols are exactly those of the
endpoints, another one that the forms used in the runs can be created.

**`PasteStore`** runs the protocols. A step is one SQL statement, since the
code opens no transaction and holds no lock across two. `req[r].pc` names the
next statement of request `r`, `req[r].row` is the row it read. Each action
carries the name of the Go function whose statement it is; `Backup...` are the
second statements on the SQLite copy, which the code runs only when the first
one has changed a row (`PasteUpdate`, `PasteDelete`, `PasteDeleteIfOneUse`) and
which never run for PasteGet's lazy delete. `CleanPrimary` and `CleanBackup` are the two
statements of PasteDeleteExpired.

Faults: a statement on the primary fails and has or has not taken effect (its
context ran out); a statement on the copy fails; the process dies between any
two statements. In the model, as in the code, errors of the copy are logged and
forgotten.

`issued`, `versions` and `burnServed` are history for the properties;
`burnServed` counts the deliveries of the claiming protocols only, so that
their guarantee can be stated although the others run beside them.

Abstracted: title, syntax, author, file and URL columns travel with the body,
so `Body` stands for them. An id is drawn afresh: a collision of the random id
is an error of the primary key (`PrimaryError`). The order and page of
PasteList are presentation.

**`PasteLife`** is the promise: unborn, live, then withdrawn, or claimed by one
reader who opens it once or loses it. `LifeSpec` states that PasteStore
implements it; the mapping `lifePhase` computes the phase from the tables and
the requests under way.

| Run | Instance | Shows |
|---|---|---|
| `paste_races` (`MCPasteRaces.cfg`, 208k states) | one paste, two requests, a cleaner, all protocols, all faults, copy present | BurnOnce, ClaimExclusive, PolicyFrozen, BackupFaithful, NoResurrection, RemovalJustified, LifeSpec |
| `paste_expiry` (`MCPasteExpiry.cfg`, 9.5k) | one paste, two requests, two cleaners, all faults, fairness | ExpiredEventuallyGone |

Why the bounds are enough: pastes never interact except in a purge and a crash,
which treat them alike, so one paste shows every race.
Two concurrent requests are what the exclusive claim is about; any number is
covered by the proofs. `MaxTime = 3` lets a paste with a lifetime of one be
created, be good, fall due (`delete_time = now` is not expired yet) and be
expired. The forms include one-use, editable, private and plain pastes, with
and without expiry. `ServedCap = 2` is one more than any property allows.

The copy does not always equal the primary: it may keep a row that the primary
has lost (a delayed or lost second statement). What holds is BackupFaithful,
and ExpiredEventuallyGone for pastes that expire.

Fairness (`paste_expiry` only): time passes; the cleaner keeps being called,
which is what `DueEventuallyRuns` of the scheduler says of the `paste_cleanup`
task while no handler hangs in the loop (section 3), every failed or finished
run of which is followed by another; the purge of the copy, when it is reached
again and again, does not fail for ever (strong fairness of `CleanBackup`).
Nothing is assumed of clients or of their requests, which may stop in the
middle.

## 3. The scheduler: `Scheduler`

State: where the process is between Boot and Exit, the ticker's channel of
capacity one, per task LastRun, NextRun and LastStatus, the scan of
checkAndRunTasks, and per goroutine (`main` for the catch-up inside Start,
`loop`, run-now triggers) the tasks it has still to run and the one whose
handler it is in. A step is what a mutex makes atomic: `EnterTask` and
`LeaveTask` are the two critical sections of runTask. `Scan` is one iteration
of the loop over the task map: NextRun is read there without the task's mutex.
That is a data race; on 64-bit platforms the comparison depends on a single
word of each time (the monotonic reading for `@every`, whole seconds for cron
lines), so the outcomes are the old and the new value.

`Boot` rebuilds the tasks: nothing about them is stored. A panic in a handler is not
recovered and ends the process: an `Exit` at that point.

| Run | Instance | Shows |
|---|---|---|
| `sched` (`MCSched.cfg`, 148k states) | an interval task, a cron task whose handler may hang, a run-now trigger, shutdown, crashes, restart, fairness | NoOverlap, QuietAfterStop, DueEventuallyRuns, StopCompletes |

Two tasks of periods 1 and 2 over four instants let a task fall due, wait
behind the other one in the loop's list, and be triggered meanwhile. The loop
and one trigger contend for a task; any number of goroutines is covered by the
proofs.

Fairness: runnable goroutines run, the ticker ticks and time passes, and the
handlers of tasks outside `Stalling` return. That they do is the code's own
doing: their statements have timeouts, or they work on local files. Two handlers
are in `Stalling`, and nothing in the code makes them return:

* `geoip_update` ignores its context and downloads with `http.Get`, which has no
  timeout;
* `update_check`, once it has installed an update, runs the restart command by
  `cmd.Run()` without context or timeout (`updater/service_linux.go:20`,
  `server/caspaste.go:2773`). That command waits for the very shutdown whose
  `sched.Stop` waits for the handler.

So StopCompletes and DueEventuallyRuns say what the scheduler itself owes: Stop
returns and due tasks run, or else the loop is for ever inside one of these two
handlers (`HangsIn`). A handler that hangs in a run-now goroutine holds up
nothing but its own task. The task of the run that may hang is the cron task;
without the exception TLC refutes StopCompletes, by a Stop that arrives while
the loop enters it. How such a wait ends from outside is in section 6.

`LoopExit` is strongly fair: with a tick and `ctx.Done()` both ready Go's select
picks at random, so a tick cannot win for ever. Stop itself and RunNow are
requests and get no fairness.

DueEventuallyRuns says nothing of what was due before a restart: that is lost
with LastRun (section 8). It covers what falls due afterwards.

Not modelled: AddTask after Start and RemoveTask (the program calls neither
there), Enabled (always true), RetryOnFail and RetryDelay (set but unused),
parsing of cron lines.

## 4. The rate limiter: `RateLimit`

A request asks the limiters of a system one after the other, each under its own
lock (`CheckAndUse`); the first refusal ends it and what earlier limiters have
counted stays counted. The worker of a limiter reads the time, then waits for
the lock (`WorkerWakes`, `WorkerSweeps`). A window is `UseTime`, `UseCount`;
times are whole Unix seconds. The wall clock is assumed not to go back.

`rate_bound` (585k states): periods 2, 3, 4 with limits 2, 3 and 0 (disabled),
two requests at a time on one address (addresses share nothing), four seconds:
the end of a window, its border and the next window all occur, and the worker
may be late by any of them.

SlidingBound is the most that fixed windows guarantee: fewer than twice the
limit in any stretch of one period, where the comment on `limitCount` reads
"Max request count per N seconds period". RetryAfterHonest relates what a refused
client was told to the state of its window at every later time.

## 5. Login throttling: `BruteForce`

`CheckBlocked`, then a slow verification with no lock held, then
`RecordFailure`, `RecordSuccess` or, when the password file cannot be read,
nothing. `cleanup` runs any time after its first period. The web server and the
API server have one protection each, with 5 attempts and 15 minutes; the module
is one of them. (Of the two, only the API's is reached in the assembled server,
section 8.)

`brute_lock` (66k states): two addresses, three requests at once, two attempts,
lockout 3, cleanup period 2, six instants: enough for a lockout, its end, a
second one, and cleanup in each phase, with a request that was under way since
before.

LateGuessesBounded says what check-then-record costs: during a lockout only the
other requests that were already verifying get an answer.

## 6. The rest of the server

### `Admin` (`admin`)

A request is at one SQL statement at a time; between two of them any other
request runs, or the process ends and starts again. Accounts remember the setup
token or invite they came from. `MaybeGenerateSetupToken` runs at every start
and takes a failed count for "no administrator".

A statement may also take effect although its call returns an error, when its
answer is lost or comes after the 10 seconds it is given. For the setup form that
makes an account nobody was told of (`unreported`), and leaves the token; for an
invite, one that is marked and has made no account; for a session, a row whose
cookie nobody has.

`admin` (2.4M states): three usernames, two requests at once, a session, an
invite, a token row, two starts, three instants, so that
the second setup form can arrive before, between and after the statements of
the first, and a token, session or invite can run out in between. Two starts
are what a second setup token needs. Deadlock is not checked: at the end of
the horizon with everything used up the instance is at rest.

InviteOnce holds because the UPDATE that marks an invite repeats the condition
of the lookup. Setup has no such statement, hence SetupOverlapBounded: forms
that overlap make an account each, but those that are told they did are never
more than overlap. Accounts of inserts that took effect with an error come on
top, one for each, since each of these leaves the token for the next try.
SetupLeavesAnAdmin is why the token is consumed last. SessionKept compares the
expiry at the time of the deletion with the one that was read before it.

### `Backup` (`backup`, and the maintenance commands and tasks of `server/caspaste.go`)

The hourly task of the server and a maintenance command are two processes over
the same directories. Create stages one item after the other while the server or
an operator edits them, then renames or, across file systems, copies the archive
to its final name, verifies it there, and applies retention: `ApplyList` lists
the directory and decides, `ApplyRemove` removes one file at a time, whatever
the directory holds by then, and `ApplyEnd` skips what could not be removed.
Restore makes a safety backup by the same steps, verifies and unpacks the
archive, and then truncates and writes one file after the other. Each step may
fail, each process may be killed. An archive is none, broken or whole, with the
version of each item.

`backup` (3.6M states): a file and a directory, one task, three time stamps (a
daily, a weekly and a daily one), two versions, caps that two archives or the
last one alone exceed. Three stamps are a backup, the safety backup of a
restore, and another backup whose retention could take either. At rest when
the stamps are used up, so deadlock is not checked.

RestoreUndoable leaves out what was written after the safety backup read it.
NewestFullKept looks at the moment of a removal, when the other process may have
changed what was listed. It has two exceptions, which the code does not avoid
(`lost`): a backup that alone exceeds a size cap is deleted by applySizeCap, and a
newer backup that was listed may be withdrawn by its maker, whose verification
failed, before the older one goes.

### `Server`, composed of `Migration`, `Tor` and `Updater`

`main` is where the function main is, from reading `server.yml` to exit, with
any number of starts; each step succeeds or fails as the code lets it, and the
process may be killed at each. `Migration` has the statements of InitDB in
groups, the copy of MigrateDatabase row by row, and the two moments of writing
`.db-state` (truncated, filled); users go on changing pastes between starts.
`Tor` has the key file written in two moments after the address is public.
`Updater` has two updaters, the scheduled task inside the process and the
command line outside it, over one executable; the archive they download may be
damaged and is verified by its checksum. A file that is written in place is
torn when the process dies in the middle: `server.yml`, `.db-state`, the key.

`server` (413k states): two databases, two pastes, no update, two faults. Two
faults are a copy cut short and a second thing that goes wrong at the next
attempt; two databases allow a change and a change back. `update` (840k): one
database, two releases, both updaters, signals, one fault, two onion keys,
fairness. `Stable` chooses the branch CheckForUpdate asks for: on stable the
latest release unless it runs, on beta and daily the newest of those that do not
run, which may be older (`update` has the latter, `server` the former).
`update_downgrade`: the disagreement of section 8.

OneAddress counts the times the key of the file could not be read, and those the
only key was not saved or its saving was cut short: each of these costs the
address, nothing else does. A key file that cannot be read is taken for none, so a
good key is overwritten by the next one.

DatabaseReady does not say that a server which answers has completed its
migration: main prints a warning and serves after one that was abandoned
(`server/caspaste.go:2250`). What it says is that `.db-state` then still names the
former database, and changes only to one that has every paste of it.

Fairness (`update` only): main's shutdown runs on (its HTTP part has a deadline
in the code); the update in the task ends, its transfers by their timeouts; the
restart command is carried out; and the service manager kills what it waits for
in vain (`TimeoutStopSec` of systemd). The last one is essential: the restart
command inside the scheduler loop sends SIGTERM, the shutdown waits for the
loop, and the loop for the command. Nothing in the code ends that wait; it is
the `update_check` case of `Stalling` (section 3), for which StopCompletes
promises nothing, and ShutdownEnds holds because the manager puts an end to it.
A stalled `geoip_update` is assumed not to happen here.

### `PasswordFile`, `Credentials`, `GeoIP`

`PasswordFile`: logins check against the file and start a rewrite in the
background when the hash is of the old kind; a rewrite loads, truncates and
writes; an operator sets passwords and removes users; the server may end and at
the next start generates the file of a private instance that has none.
RetiredStaysRetired excepts changes made while a rewrite holds the old line,
which do get lost; RewriteKeepsEveryone is about rewrites that do not overlap
and are not cut short, since others do lose users (section 8).

`Credentials`: one row per session, token or recovery key, and the packages'
calls statement by statement. `given`, `asked`, `ended` and `lapsed` record
what owners were told, so that the two properties say what a caller may rely
on: NoLateAcceptance, nothing is accepted by a call that begins after its end
was confirmed; GivenIsGood, what was handed out stays until asked for or
expired.

`GeoIP`: both files, both readers, the update with its `.tmp` file, the mirror
that publishes editions, good or not. `lastUpdate` is display and left out. A
load closes both readers before it opens them again, and what it finds of a file
is the file, or by an error of `os.Stat` none, or by an error of
`maxminddb.Open` one that does not open (`Found`), however intact it is.
CountryKept therefore counts from the last load that opened the country file:
one that fails on it, or a file the mirror published broken, leaves the server
without until a later load opens one.

### `Csrf`, composed with `Audit`

`Csrf`: the tabs of a browser with one cookie, requests for the parts of the pages
they show (style sheet, scripts), and a page of another site in the same browser.
A request carries the cookie of the moment it was sent (`Open`, `FetchPart`), or
none when a link or form of another site led to it, since the cookie is
SameSite=Strict (`Follow`). The middleware and the handler are one step each;
every answer to a safe request, pages and parts alike, sets the cookie when it
arrives, so answers overtake each other; that of a part may be dropped. Log out
clears the cookie in an order with its Set-Cookie that the model leaves open.
Whether the browser attaches the cookie to a foreign post is open too. The
double submit keeps nothing on the server, hence a restart only cuts what is in
flight. The handlers are the admin panel's (log in, log out) and the web pages'.

A refusal fetches the audit logger and then uses it, two steps between which
main may close the file (`Audit`). `disk` is whether
the write succeeds; the code drops its error.

A page can lose its token without anyone's doing: two tabs opened at once without
a cookie, a style sheet that was asked for before another tab's page arrived, a
link from another site. ReloadNeverRefused is what remains for a user: a page
that is loaded while nothing else is under way, and every page loaded after it
with the cookie, is never refused (`kept`), until a log out, an expired cookie, a
link from another site, or a part asked for when there was no cookie.

Not in the model: pages from the browser's history or cache, log out by a link of
another site (GET; it carries no CSRF cookie and no form is involved), more than
one request for a part at a time (in the run; the proofs have any number).

RefusalsRecorded is about refusals answered before a shutdown began. Afterwards
the audit log is closed under the calls that use it, and it does not hold
(section 8).

### `Logs`

The files of a path over time, the descriptors of the process, the writers of
main's logger and of the handlers' copy, and the calls in progress, each with
the descriptor it copied. A write on a closed descriptor is a lost line.
`reopenLogs` is one step per file and per setter; opening and closing inside
`reopen` are one step, because a call that writes in between cannot be told
from one that wrote before. Each file may fail to open. Go's `Close` does not wait for a
write that already holds the descriptor; such a write, which may land after Close
has returned, counts as landed before it, so RotatedIsFinal is true up to writes
of that kind.

LinesKept is about main's own logger and about logs that were not reopened;
the handlers' copy is the subject of `logs_reopen` (section 8).

### The run `access`

`access` (1.5M states) checks PasswordFile, Credentials, GeoIP, Csrf with Audit,
and Logs. They share no state, so it takes them as five sets of behaviours
instead of all their interleavings.

* Two users and two rewrites with three passwords: the rewrites overlap in every
  way, and a third password can be set while one is being rewritten and another
  is retired.
* Two owners, two credentials and two calls over three instants: before, at and
  after the end of a lifetime, and an extension between them.
* Three editions of each country database, with loads that fail on either file.
* Two tabs, a request for a part, two tokens, two posts, any number of restarts.
  Two tokens are what a race of first requests needs, two posts a failed form
  and its second try. The other site's token is one more than the bound, which
  no cookie has.
* One handler and the tasks, six descriptors per process, so that all three logs
  are reopened once or one of them up to three times, two files of the error
  log, which both kinds of caller write, and any number of restarts. The rotator
  takes care of that log alone; the other two are reopened in place.

## 7. What is proved

All theorems hold for every value of the constants that satisfies the named
assumptions of the modules (types, nonempty sets, distinct null values): any
number of pastes, requests, cleaners, tasks, triggers, limiters and addresses.

* **`PasteStore_proofs`.** The inductive invariant is TypeOK with: `Wellformed`
  (a request past PasteGet has an id and a row; one past a claim has removed a
  row); `SnapshotsAgree` (every row a request holds has the policy the paste was
  created with); `PendingCommitted` (what waits to be written to the copy was
  committed to the primary); `SpentGone` (a paste that was served by a claiming
  handler is not in the primary); PolicyFrozen, BackupFaithful and
  ClaimExclusive themselves. The strengthening is needed because an edit writes
  back a row read any number of steps before: PolicyFrozen is not inductive
  without SnapshotsAgree, BackupFaithful not without PendingCommitted, and
  BurnOnce follows only from claims being exclusive and spent pastes being gone.
  From it: TypeCorrect, ServedAtMostOnce, ClaimsExclusive, PolicyNeverChanges,
  CopyIsFaithful, the action properties NeverResurrected and RemovalsJustified,
  and ImplementsLife, the refinement of PasteLife, step by step.
* **`Scheduler_proofs`.** TypeOK, NoOverlap, RunningIsHeld, its converse
  `HeldIsRunning` (without which the check of LastStatus excludes nobody) and
  `LoopGone` (the loop has nothing to do once it has returned). From it:
  HandlersExclusive, StatusNeverSticks, StopIsQuiet.
* **`RateLimit_proofs`.** TypeOK, RetryAfterHonest and `SweepBehind`: the time a
  worker sweeps with is not in the future, so no live window is swept. From it:
  RetryAfterIsHonest. SlidingIsBounded rests on a second invariant, `SlidingInv`,
  of which SlidingBound is a part: what got through since the window of an entry
  began is what the entry counts, and the rest of the period before adds at most
  limitCount - 1 to it (`WindowCounts`), because the first request of the window
  before, if the period meets it at all, is older (`OverIsQuiet`).
* **`BruteForce_proofs`.** TypeOK, LockoutDeserved and `CountShown`: the counter
  of an address never exceeds its failures in a row (cleanup only forgets). From
  it: LockoutIsDeserved and LockoutIsKept. LateGuessesAreBounded adds that the
  guesses answered in a lockout and the requests still verifying are together
  fewer than all requests.
* **`Admin_proofs`.** TypeOK, InviteOnce, SetupOverlapBounded and
  SetupLeavesAnAdmin with: `InviteShown` (a request between the UPDATE and the
  INSERT of an invite is alone with it, and the invite has no account yet);
  `SetupShown` (while the setup token can be peeked at, every account it
  made and told of belongs to a request that is about to take it: this is what counts
  overlapping forms); `CreatedFirst` (whoever takes the token has its account in the table);
  `ExpireShown` (a row that is about to be deleted as expired is still expired).
  From it: InviteIsUsedOnce, SetupOverlapIsBounded, SetupHasLeftAnAdmin, and
  SessionIsKept for every step.
* **`Access_proofs`**, about the five modules of the run `access`.
  `PasswordInv`: neither the file nor any rewrite has a retired line, and while
  nothing has disturbed the rewrites the one under way has everyone in hand
  (RetiredForGood, RewritesKeepEveryone). `GeoInv`: editions only go forward,
  and the reader of a server that looks countries up is no older than what was
  opened, where nothing is counted as opened any more after a load that failed
  (CountryIsKept). `CredentialInv`: what ended is used or gone, what lapsed is
  in the history, and for each call what it has in hand, of which the least
  obvious is that its time is not in the future (NothingAcceptedLate,
  WhatIsGivenWorks). `CsrfInv`: a page that comes with a cookie has that
  cookie's token, a form that failed comes back without one, and whoever reports
  a refusal has the logger (ForeignFormsAreRefused, RefusalsAreRecorded).
  `ReloadInv`: while there are kept tabs, either the cookie is there, is the
  only token that any answer under way still brings, and every kept tab has it
  or will get it; or there is one such tab, whose first page is on its way with
  nothing else under way (ReloadIsNeverRefused). `LogsInv`: of the descriptors
  of a log only the last one is open, it is not on a file that may be
  compressed, and main's logger writes to the open ones as far as reopenLogs has
  come (RotatedFilesAreFinal, LinesAreKept).
* **`Server_proofs`.** Three invariants, each kept by what the server does to
  one part of its state (`UpdaterNext`, `TorNext` and the database's steps):
  `UpdaterInv` (what an updater has verified is the whole release, and where it
  installs from there is nothing else); `TorInv` (an address whose key is being
  saved has been published, while its key is being written the file holds none,
  and a file without a key, when nothing is being saved, means that the key of
  every address so far was lost or given up); `DatabaseInv` (from the schema's
  statements on the database has all of it; between the rows a copy has made and
  those to do nothing is missing; only main's migration step is between two
  databases). From them: ExecutableIsWhole, AddressIsKept, DatabaseIsReady, and
  with `ProcessTypeOK` TypeCorrect.
* **`Backup_proofs`.** TypeOK with `OwnNames` (every process writes under names
  of its own, the command under its time stamp), `ReadIsCurrent` (what the
  command has read is what is there unless it was written since: staged, in the
  archive, and for the files it still has to overwrite) and `ReplacedIsKept`
  (what was overwritten is in a safety backup that is whole and being written by
  nobody). RestoreUndoable is not inductive without these: it speaks of a file
  only once it is replaced, when it is too late to know what the safety backup
  holds. From them: TypesAreKept and RestoreCanBeUndone. `RetentionInv` is for
  NewestIsKept: whatever a process is going to remove is too large by itself, or
  a newer full backup is there or was lost (`Outlived`); so the last of them is
  not removed by a process that listed it beside a newer one.

Every inductive invariant was first checked by TLC on the instances of the runs.
With these proofs every invariant and every step property that a passing run
checks is a theorem.

Two assumptions on constants are there for the proofs: there are finitely many
requests at once (`BruteForce`, `Admin`), since the theorems count them; and the
scheduler's task is not one of the handlers (`Logs`). ReloadIsNeverRefused has a
hypothesis of its own, that `security.csrf.cookie_name` and `field_name` are
what the templates have; without it the theorem is false (section 8). `GeoSpec`
and `CsrfSpec` give GeoIP and Csrf a specification to prove about; the run takes
their initial states and steps through `MCAccess`.

Sums and greatest elements. The library's induction theorems take an operator for
the property, which the provers cannot instantiate. The few inductions needed are
therefore done with sets: the set of cases that go wrong, if not empty, has a least
element (`LeastExists`, from the library's theorem on minimal elements of well-founded
relations). `SubsetInduction` is the form used for finite sets; with it
`RateLimit_proofs` shows that the fold in TakenFrom is a sum: it unfolds
(`SumUnfolds`), does not depend on the order (`SumOfRest`) and grows with its set
(`SumOfSubset`).

Only model-checked: the liveness properties (ExpiredEventuallyGone,
DueEventuallyRuns, StopCompletes, ShutdownEnds), which are out of the proof
system's reach, and the two disagreements of section 8, which are counterexamples.

## 8. Disagreements between the code and what is said of it

`update_downgrade`: CheckForUpdateEligible skips a release only when its tag
equals the running version. When the newest release runs, the next older one is
the first match, and the task installs it if `auto_install` is on; at the next
check the newest one is installed again. Its comment says "It selects the
newest eligible release newer than the running version."

`logs_reopen`: reopenLogs "rebinds the logger writers" of main's logger; the
handlers have copies of it, made at the start, whose files are now closed.
After one SIGUSR1 access.log and the requests' part of error.log stay empty
until the next start.

Seen while modelling, with no run of their own:

* Pastes: `apiv1/compat.go` hastebinGet drops the error of its delete, so two
  readers can both get a one-use paste ("Burn-after-reading: delete after first
  view"); the compat Hastebin, Pastebin and Stikked readers and GraphQL never
  delete one ("One-time view pastes auto-delete after viewing", docs/index.md);
  PasteList lists public one-use pastes ("exclude expired, one-use, and private
  pastes"); the Microbin API edits pastes that are not editable; a web form
  without expiration makes a paste without expiry whatever the maximum.
* Scheduler: LastRun is not stored, so nothing is made up for after a restart
  ("Missed tasks run on startup if within catch-up window", AI.md); the loop
  runs a task it has collected as due although a run-now has just run it.
* Login throttling: cleanup forgets failures however recent ("no recent
  failures").
* Admin panel: overlapping setup forms make an administrator each ("one-time
  setup token"); a failed count at start opens setup again; an insert that fails
  burns the invite; a setup form whose insert took effect with an error leaves
  an account and the token; log out is served outside the path of the cookie, so
  the session row stays for its 30 days; a failing query deletes the session it
  was about; CleanupExpiredSessions is never called; the panel's revoke form
  does nothing, and the tokens it makes are in a table no validation reads.
* Password file: a rewrite that loads between another one's truncate and write
  drops the other users; a rewrite that holds an old line undoes an operator's
  change; an interrupted write leaves a file that the next start of a private
  instance replaces by a new administrator; a missing file is taken for "no
  authentication required".
* Web login: `/server/auth/` belongs to the admin panel (`server/caspaste.go:2364`),
  so web's handleLoginSubmit, and with it RehashPassword and the web server's login
  throttling, are not reached in the assembled server. `PasswordFile` and
  `BruteForce` model them as they are written.
* Credentials: two overlapping calls can both accept one recovery key;
  GenerateKeys that fails midway leaves the user without keys; a session
  extended between Validate's test and its delete is deleted. The server calls
  only the two cleanups of these packages.
* Backup: the retention of a restore's safety backup keeps one backup and may
  delete the archive that is about to be restored; the pastes database is in no
  backup, though the help text says so; directories are not restored; an
  incremental archive replaces its predecessor before it is verified, and goes
  when verification fails; errors of the copy back are logged and the restore
  reports success.
* Tor: a key file that cannot be read is replaced by a new key.
* Server: a signal that arrives while another one waits is lost (the channel
  holds one); a torn `.db-state` makes the next change of database start without
  migrating; a migration that was cut short stops at the first row that is
  there already, and never completes; its failure is a warning; a start without
  `--data` does not look for a migration at all; a torn
  `server.yml` makes every start exit; environment and flags count on the first
  start only, but for the critical ones.
* Audit: main closes the audit log before it waits for the requests in flight,
  whose refusals are lost without an error; AI.md has "Wait for in-flight
  requests" before "Flush logs and metrics", and the audit log "records ALL
  security-relevant events". RefusalsRecorded is therefore about refusals
  answered before a shutdown began.
* Web forms: with `security.csrf.cookie_name` set to anything but `csrf_token`,
  GetCSRFToken's fallback ("Falls back to reading the cookie directly") finds no
  cookie, and the login page shown after a wrong password has a token that no
  cookie holds (ReloadNeverRefused fails for such a CookieName); the templates
  have the field name `csrf_token` fixed, so another `security.csrf.field_name`
  refuses every form; RegenerateCSRFToken, to be called "after a successful
  login", has no caller; log out in one tab, or a link from another site,
  refuses the forms open in the others; the answer for a style sheet can take a
  page's token away.
* Logs: audit.log is not reopened on SIGUSR1 and goes on in the file that was
  moved away; lines in progress while main reopens are lost in any logger; of
  the audit events only start, stop and CSRF failures are ever reported.
* GeoIP: the comment in main says the databases are "downloaded on first run",
  but only the weekly task downloads them; a broken country file replaces a good
  one unseen; a load that fails on an intact file leaves no reader until the
  next one; Lookup has no caller, so denied countries are not blocked yet.

## 9. Plan

Done: the modules of sections 2 to 6 with their runs, and the proofs of all
their safety properties. Next:

1. Composition of Scheduler and PasteStore, with the cleaner's fairness derived
   from the scheduler's instead of assumed.
2. Abstract specifications of more components, like PasteLife: a ticket that is
   used once (implemented by invites and recovery keys), a lockout.
3. Cron times (`scheduler/cron.go`) as an operator against a reference definition.

## 10. What is not modelled

* Differences of the SQL drivers: `one_use = 1` on a PostgreSQL BOOL column, and
  MySQL's count of changed rather than matched rows in PasteUpdate.
* Power failures: a file that was written and renamed is taken to be on disk.
* Formats of requests and answers, syntax highlighting, pages, translations,
  GraphQL and OpenAPI schemas, themes: presentation.
* The session cookie of the web pages: a signature check without state.
* Metrics: counters that nothing in the program reads back. TLS certificates and
  e-mail: found once at start, or calls to outside services.
* Parsing of the configuration and of cron lines; TOTP codes.
* Tor's Restart, UpdateConfig and RegenerateAddress, and the setters of GeoIP:
  nothing calls them. Dropping privileges, PID files, service installation.
* The updater's Windows variant.
* The command line client and terminal UI: separate programs over HTTP.
* A lifetime below one second in `handleLenpasteCompat` gives a delete time of
  now; `Endpoints` has it as lifetime 0, the runs use lifetimes of one.
