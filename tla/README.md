# SysWatch: a TLA+ model of its control logic

SysWatch watches hosts: agents report metrics, a Flask server stores them in MySQL,
scheduled jobs turn them into alerts and insights, and admins run commands on the
hosts. This directory holds TLA+ modules translated from the Python source, the TLC
runs that check them on small instances, and theorems that TLAPS proves for every
instance. All paths below are relative to `src/backend/modules/` unless they start
with `src/`.

## 1. Inventory

The server runs as four Gunicorn workers (`src/backend/Dockerfile`), each with its own
APScheduler (`src/backend/app.py:103-111`). They share nothing but MySQL, Redis and
the files of the machine. `database.py` opens every connection with `autocommit=True`
and nothing in the repository uses its transaction class, so **each statement is a
transaction of its own**: whatever a handler reads may have changed when it writes,
and a failure between two writes undoes nothing. Nearly all that is hard in this code
follows from that sentence and from the number of workers.

| Component | State | Operations | Interacts through | Correct when | Hard because |
|---|---|---|---|---|---|
| Scheduled jobs and lock (`scheduler.py`) | Redis key with expiry, lock file, module's Redis client | fire, acquire, skip, release | Redis, flock | a job runs once at a time; nothing stays locked | Redis fails or expires keys mid-run, workers die, two kinds of lock |
| Alert engine (`alert_engine.py`, `api_alerts.py`) | alert_rules, alerts, events, notifications | evaluate, trigger, acknowledge, resolve, edit rules | MySQL, with agents and host checker writing what it reads | a standing condition is one announced alert | check-then-insert, cooldowns, operators in between |
| Remediation (`ai/assistant.py`, `api_remote_exec.py`) | remediation_suggestions, remote_executions | generate, approve, reject, execute, execute directly | MySQL, SSH | only approved commands run, once, and are recorded | check-then-update, a side effect nobody can undo, without a time limit |
| Host status (`host_checker.py`, `api_hosts.py`, `api_discovery.py`, `api_agent.py`) | hosts, metrics, metric_history | check, register, report, heartbeat, discover, add, change, delete | MySQL, ping | the status follows the network; changes are announced; data belongs to a host | stale snapshot while pinging, check-then-insert, deletion in three statements |
| Agent (`src/agents/syswatch_agent.py`) | in its loop or not, what it was answered | register, report, heartbeat, restart | HTTP | what it believes is what the server stored | lost and late answers, endpoints that differ from the server's |
| LLM providers (`ai/llm.py`) | ai_provider_health | ask, record, open and reset the circuit | MySQL, HTTP | failures from before a success do not count | counters in two statements, replies of all kinds |
| Anomaly analysis (`ai/log_intelligence.py`, `api_ai.py`) | ai_insights, suggestions | analyse (job and by hand), resolve | MySQL, LLM | a standing anomaly has an open insight, and few of them | check-then-insert, job and manual call, a threshold at its boundary |
| Backups (`backup_manager.py`) | backup_metadata, files | create, delete, verify, clean up | MySQL, file system | a completed row has its file, and a file its row | two stores, creation takes minutes |
| Sessions (`security.py`, `api_users.py`) | users, refresh_tokens, login_attempts | log in, refresh, log out, manage accounts | MySQL | attempts are limited, lockouts end, a session is its account's | check-then-record, accounts changed under tokens |
| Database layer (`database.py`) | pool, schema | query, execute, init | MySQL | bounded connections; the tables are those of the schema file | a failed statement of the schema is logged and passed over |
| Runbooks (`api_runbooks.py`) | runbooks, steps, executions | create, replace steps, execute | MySQL | readers see whole runbooks | delete and inserts apart |
| The rest (`api_snmp.py`, `api_cloud.py`, `api_events.py`, `api_notifications.py`, `api_reporting.py`, `api_system_logs.py`, `web_ui`, `config.py`, `logging_manager.py`) | | single reads and inserts | MySQL | | wiring, I/O and pages |

**The notifications table.** `src/backend/schema.sql:412-427` names a column `read`
without quotes (lines 421, 425), a reserved word of MySQL: the CREATE is refused,
`init_db` logs that and goes on, and as shipped the table does not exist. So the
INSERTs into it always raise. Three of them (alert_engine.py:151, host_checker.py:75,
ai/log_intelligence.py:120) are in the middle of a pass that no handler resumes: the
rest of the rules, hosts or pairs is not visited until the next pass comes to the same
point. The fourth (ai/log_intelligence.py:171) is the last of its function, and its
caller catches it (line 125). The models do not choose: each of the three may succeed,
as it does once somebody creates the table, or raise every time (`NotificationFails`,
`NotifyFails`), and what is checked and proved holds of both.

`PROJECT.json` lists under "hazards" what is hard to test in this code, each at its
line with the properties that cover it.

## 2. Plan

Done, in the order of what matters most:

1. `DistributedLock`, since every job runs under it; `AlertEngine`, the purpose of the
   program; `Remediation`, its only effect on the hosts; `BackupManager`, two stores
   that nothing keeps in step but its own code. Each with its proofs.
2. `HostMonitor`, the server's side of hosts and agents, and `AgentFleet`, which
   composes it with the agents, with its proofs.
3. `LlmFallback`, the chain of providers, and `Insights`, which composes it with the
   analysis and the other callers, with its proofs.
4. `Sessions`, with its proofs.
5. `ScheduledAlerts`, which puts `DistributedLock` around `AlertEngine` in the place
   of the constant `Overlap`, and `SuggestionLife`, what `Remediation` owes a
   suggestion. Both with their proofs.

Open: `HostMonitor` as the environment of `AlertEngine`, which now takes any agent and
any check; runbooks; alert notes; the start of the database layer.

Conventions: one module per component, one action per database statement (or other
indivisible effect) named after what it does, processes with a control state `pc`,
constants like `Faulty` and `Overlap` that switch a kind of behaviour on so that a run
can tell what a property depends on. What a failure may do to a property is written
down where it happens, in a history variable that no guard reads, and the property
excepts what is written there and nothing else: it then says who alone can break it,
and is checked with the failures on. No operator is declared RECURSIVE; every module
can be proved about. Beside the definitions stand "faulty variants", for each property
a definition with one plausible mistake in it. They are no part of any specification:
put in place of the action, they make the property fail.

## 3. Modules

### DistributedLock (and JobExclusion)

One job name. `pc[p]` is where worker p is in `wrapper` / `__enter__` / `__exit__`
(lines 59-123): idle, about to `SET`, about to `flock`, running, releasing, unlocking,
down. `key`/`ttl` are the Redis key; `flock` the lock file of each machine; `token[p]`
the `_redis_token` of the worker's lock object, `client` the workers whose
`_redis_client` is set: the first use pings, and if the ping raises the client stays
set. `KeyHeld` is what the code does with a held key: the `BlockingIOError` of line 66
is caught by line 69.

Redis calls may fail before or after they are applied (`SetFails`), the release may be
lost, Redis may restart without the key, workers die and come back; the kernel then
drops their flock. Time is counted in ticks that expire the key and is otherwise
asynchronous: a run may outlive its key. Tokens are readings of `time.time()`; two
lock objects that coexist are assumed to have read different values (`FreshToken`).
`JobExclusion` is what a lock per machine owes a job: at most one of the machine's
processes runs it.

Not in the model: `remove_job` and `trigger_job` have no caller; a job's own
exceptions release the lock like its return does.

### AlertEngine

One evaluator per scheduled invocation. `work` is what its loops still have to visit,
computed in `ReadMetrics` from the snapshot (choice of hosts, comparison of columns),
while the status lookup, the duration query, the cooldown and the search for an
existing alert read the live tables, as the code does. Rules are visited one after the
other, hosts of a rule in any order: neither query has an `ORDER BY`. `alerts` is the
table; `age` is the time since `last_triggered`. `UpdateAlert` writes by id, so it may
refresh an alert closed since it was read. `DeleteRule` sets `rule_id` to NULL in its
alerts (`ON DELETE SET NULL`), and an insert for a deleted rule violates the foreign
key and ends the evaluation (`InsertFails`). `Abort` is any statement that raises and
any death of the worker; `NotificationFails` is the INSERT into the missing table, and
needs no `Faulty`. `silent` is history: the alerts whose own evaluation broke off
between their INSERT and their notification (`EndsSilently`). No later evaluation
makes up for it, since it finds them OPEN.

Operators acknowledge and resolve without a check of the status, as the API does. A
metric column is one number per row; `rows[h]` are the newest of them. A rule's
columns other than `enabled` do not change in the model.

`Overlap` says whether two evaluations may be under way at once. FALSE is the promise
of the job's lock, TRUE is what `DistributedLock` shows to be possible;
`ScheduledAlerts` settles which of them a deployment gets. `BeginEvaluation` is the
first statement of an evaluation, `ReadRules` the same where `Overlap` allows it.

### ScheduledAlerts

It EXTENDS `AlertEngine` and instantiates `DistributedLock` with the evaluators as its
workers (`scheduler.py:203-205`). The job's call is the body of the `with` block: an
evaluation starts (`Start`) only where the lock is "running", none of its statements
looks at the lock (`Proceed`), and its return or exception begins `__exit__`
(`Finish`, and `FinishAtOnce` when the first SELECT finds no rule or raises). A worker
dies in both modules at once (`Crash`). `Overlap` does not occur in `ScheduledSpec`:
which evaluations meet follows from keys, lock files and failures. `LockFails` lets
Redis fail and workers die, `Faulty` statements raise: an evaluation dies under way
when both are TRUE. `KeysLast` says that no key ends while an evaluation runs under
it: none outlasts `lock_timeout`, 120 s for this job, and Redis loses no key in use.
What the composition shows is that the lock is no exclusion but a limit: a key and one
file per machine let as many evaluations meet as there are locks (`RunsPerLock`), and
that is how many OPEN alerts a standing condition may become, however many workers
there are (`OpenAlertsPerLock`).

### Remediation

A request handler is a read that decides and a write by id alone. `cmd` is what the
request holds in between: the command it is going to approve, or the one it read and
is going to run. `runs` and `approvals` are history: what each suggestion ran, and
what was ever approved. `RunSuggested` and `RunDirect` are `execute_command_on_host`:
a failure may precede the command or follow it; a blocked command is always refused.
Requests overlap, as four workers' do. `Abort` is a statement that raises, which the
UPDATE of a result does for an output too long for its column, or the death of a
worker. The command itself has no time limit: the timeout of `exec_command` is that of
reads from its channels, and `recv_exit_status()` (api_remote_exec.py:67) waits until
Gunicorn kills the worker after 120 s. So the module has no fairness: no request is
obliged to end, and a row may stay 'running'.

Three more histories say what may disturb a suggestion: `met`, two requests were about
it at once; `unrecorded`, a request failed or died at the UPDATE of its result;
`abandoned` the same for direct executions, at any point.

Left out: the host a command runs on (the execute endpoint takes it from its body or
from the row), SSH credentials and the temporary key file, the `events` row of a
generated suggestion, the branch for a missing module of the program itself
(assistant.py:121-124), early returns (they change nothing).

### SuggestionLife

What the assistant's own header asks for (assistant.py:1-9), in six steps: a command
is proposed, a human approves it (or a modification of it) or rejects it, once; then
that command runs at most once, no blocked one runs, and the row is closed as
completed only when it ran. `Remediation` maps onto it with a row's status, its
command and the history `runs`; what a request holds between its SELECT and its UPDATE
is hidden. Requests overlap and fail in the refinement as they do in the code. What
the code does not keep is the life of a suggestion that two requests are about at
once, or whose result was not stored: `Disturb` is where the abstract life ends for
it, and `Remediation`'s `Disturbed` says exactly when. Everything before that moment,
and every other suggestion, is held to the six steps.

### BackupManager

A worker's call goes through `create_backup` (row, archive, size and checksum, UPDATE,
with the handler that `Raise` enters from any step), `delete_backup` and
`cleanup_old_backups` (one loop: the first deletes one row), or `verify_backup`.
`status` and `checksum` are the table, a deleted row has the status "deleted"; `disk`
is each directory's archives. An archive is missing, partial or whole, and so is what
its checksum tells. UPDATEs go by id and do nothing to a row that is gone; an archive
that is unlinked while it is written stays missing, and `StatArchive` then raises.
`home[w]` is the `backup_dir` the call read: it may change under any call. `unlinked`,
`missed` and `abandoned` are history: archives somebody removed, those a deletion
looked for where they were not (`Elsewhere`: not yet written, or written under another
`backup_dir`), and rows a call died over.

A call's first read of its row and its read of `backup_dir` are one step. The name of
an archive is its second; two backups of one second collide at the UNIQUE key before
anything is done, and a name is taken not to come back after its row was deleted.
`Die` is also a statement that raises in the handler itself. Left out: what the
archive contains, the schedule, the age of rows (any rows up to some id may be old),
the temporary directory, which `rmtree(ignore_errors=True)` may leave behind with the
dump and `.env` in it (backup_manager.py:105, 112) so that nothing can be promised of
it, log entries (log_event swallows its own failures).

### HostMonitor and AgentFleet

`HostMonitor` is the hosts table and its writers. `call[r]` is the request a server
thread is at, with what it has read; each database statement is an action
(`RegisterSelect`, then `RegisterUpdate` or `RegisterInsert`, and so on). A checker
keeps the rows it read in `todo` and the change it is writing in `cur`: `CheckPing`
compares the network with the *snapshot's* status, so that a change somebody else has
made since goes unnoticed or is undone. `Insertable` is what MySQL asks of an INSERT
in strict mode (`database.py:45`): a hostname that is new and values in their ENUMs.
An INSERT beyond that raises, which ends a scan half-way and makes `POST /hosts`,
whose status is 'UNKNOWN', fail whatever it is given (api_hosts.py:31): the only hosts
there are came from agents and scans.

`due` and `overlapped` are history: the hosts that went DOWN and were not notified of
since, with the checker that wrote it as long as it has not broken off (`BreakOff`),
and hostnames with a report and a deletion under way at one time. `CheckNotify`
succeeds; `NotifyFails` is the same INSERT raising, any number of times.

`AgentFleet` EXTENDS it with the agents. An agent registers once when it starts
(`Register`), waits for the thread's answer, and goes on to its loop whatever comes,
also when nothing comes (`TimeOut`): it does not retry, although its log says so
(syswatch_agent.py:223-224). Its reports go to `/agent/metrics`, which the server does
not have, and nothing carries the agent's key, which it drops (syswatch_agent.py:146,
168, api_agent.py:51): `Accepted` is FALSE of every turn. So the only requests that
store metrics come from clients that kept a key, `NewRequest`. Stops and restarts are
the service manager's.

Left out: the columns that no decision reads (system, version, ports, credentials),
`last_seen`, the events of registrations and deletions, psutil, the agent's id file,
which nothing reads, and the installation as a service.

### LlmFallback and Insights

`LlmFallback` is `ask_llm`. A thread walks along `Order`; `last` and `failed` are the
two columns of a provider's health row that the circuit breaker reads. `Replies` are
the ways a request may end: with the expected text, with JSON that lacks it ('odd'),
with something that is not JSON, with an error, with a timeout. A success is recorded
*before* the body is parsed (llm.py:83-85), so a garbled reply is recorded as both,
and an odd one leaves `ask_llm` as an exception: the rest of the chain is not asked.
`IsFalse` is Python's `is False`, which holds of no integer, and a driver gives
integers for a BOOLEAN column. The circuit therefore never opens (llm.py:51), in the
code and in the model, although the file promises "circuit-breaker pattern" (llm.py:5,
176). That is a disagreement on record here and not a property: what holds because of
it says nothing in the code's favour.

`Insights` EXTENDS it with the callers: `analyze_anomalies`, by the job's threads and
by others without the job's lock, and the questions of the API (`Question`). `open`
and `resolved` count the insights of a pair of host and metric. `Exceeds` is the
z-score test over integers: with n values, |x - mean| / stdev > z holds when (n x -
sum)^2 (n - 1) > z^2 n (n sum of squares - sum^2). `Sample` renews a pair's history,
which agents do. `NotifyFails` is the INSERT of line 120, which ends the pass.

Left out: trend, EWMA and forecast (stored as details that nothing reads), counters of
statistics, prompts, `interactive_analysis`'s reads. All hosts are taken to have
reported within the hour.

### Sessions

`failures` holds the failed rows of `login_attempts`: source, name, age in ticks, and
a number that tells rows apart which agree in the rest; a row older than the lockout
counts no more and goes. A source, name and age has at most `MaxCount` rows, more than
the property admits. `tokens` is `refresh_tokens`: whose, whether revoked, and under
which name it was stored. A login is its two counts, the read of the account and
either the record of a failure or the insert of a token, which a foreign key refuses
when the user is gone (then only `RequestFails` goes on). Whether the password is
right is a choice.

`POST /auth/refresh` is no action. The driver gives `expires_at` without a zone,
`utcnow()` has one, and Python raises a TypeError for the comparison
(security.py:201): every token that is stored is answered with 500 and every other
with 401, and neither changes anything. The file promises "JWT authentication with
refresh tokens" (security.py:4) and the endpoint goes on to issue a token
(api_users.py:44-47); that this is never reached is a disagreement on record here, not
a property.

Left out: access tokens (no state), API keys, changes of passwords, roles, the audit
log, which decides nothing.

## 4. Runs

| Run | Instance | Shows |
|---|---|---|
| lock_failures | 3 workers, 2 machines, Redis fails, workers die, fair; 120 312 states | types; a lock file belongs to a live run; a skip means somebody holds it; no process takes another's lock away; keys are freed; the job keeps running |
| lock_file_only | 3 workers, 2 machines, no redis package, failures | refinement of `JobExclusion`: at most one worker of each machine runs the job |
| lock_mutex | 2 workers, 1 machine, Redis up, no failures | **violated**: two workers run the job |
| alerts_file_lock | 2 workers of one machine, no redis package, deaths and failures anywhere, a column rule of duration 2, fair; 52 734 states | types; refinement of `AlertEngine` with `Overlap` FALSE; one OPEN alert per rule and host; triggers a cooldown apart; an alert without a notification is one whose evaluation broke off; a standing condition has an OPEN alert for good once other failures end |
| alerts_key_and_file | 3 workers of one machine with Redis, which fails in all its ways, a status rule for '%' without a cooldown, symmetric; 615 288 states | no more evaluations meet, and no more OPEN alerts of a rule and host arise, than there are locks (two) |
| remediation_races | 3 overlapping requests that fail and die, 1 suggestion, 3 commands, symmetric; 425 380 states | types; only approved commands run; refinement of `SuggestionLife`: decisions final, at most one run, until the suggestion is disturbed; until two requests meet over it a completed row tells what ran; results are lost only at their UPDATE; only dead requests leave rows 'running' |
| remediation_audit | 2 overlapping requests, no failures | **violated**: a completed row names a command and an approver of which nothing ran |
| backups | 2 overlapping calls that fail and die, 2 backups, 2 directories, symmetric; 2 681 341 states | types; a completed row's archive is whole; no archive outlives its row unless a deletion looked elsewhere; 'in_progress' ends with the call; a row goes with its archive |
| agent_fleet | 2 requests, 1 checker, 1 agent, 1 hostname, 2 ids, 2 registrations; 1 325 682 states | types, hence only statuses of the ENUM; data belongs to a host unless a report and its deletion met; an agent that believes it is registered has its row |
| agent_fleet_live | 1 request, 2 hostnames of one address, a failure and any number of failing notifications, fair; 187 446 states | a host that went DOWN is announced unless its check breaks off there; the status follows the network in the end, both ways, where checks go round |
| insights | job and another thread, 3 providers of which 2 have a key, a failure and any number of failing notifications, fair; 611 734 states | no failure from before a success counts; ten values are never an anomaly; OPEN insights bounded by the threads; a standing anomaly has one for good |
| sessions | 2 requests, 2 addresses, 2 names, 1 token, fair; 1 002 807 states | the limit is passed by the parallel attempts at most, for an address and for a name; lockouts end; a session is that of the account whose password was checked |

The two violated properties are quoted from the repository's own texts; `PROJECT.json`
lists them under "findings". Each has a passing counterpart: exclusion holds without
the redis package (`ImplementsExclusion`), and the trail holds of every suggestion
that no two requests were about at once (`RecordTellsWhatRan`).

**Where the code departs from its texts**, beside these two, and what a reader may see
by changing an instance:

- The notifications table is missing (section 1): as shipped each trigger ends its
  evaluation, each change of status its check, each new insight its pass. A host that
  others mark UP as often as the check finds it DOWN then ends every check that comes
  to it first, and those behind it are not looked at (`ChecksGoRound`).
- Two requests that both find 'approved' run the command twice (assistant.py:107), and
  of two that both find 'pending' the later decision overwrites the earlier.
  `ImplementsLife` without `Disturb` fails at either; remediation_audit shows where it
  leads.
- A command that does not end, or outlasts Gunicorn's 120 s, leaves its direct
  execution 'running' for good (api_remote_exec.py:67, 98), and a suggestion
  'approved' with its command run.
- The circuit breaker never opens (llm.py:51 against llm.py:5, 176). Refreshing a
  session always fails (security.py:201 against security.py:4, api_users.py:44-47).
- The cooldown is per rule (alert_engine.py:47): with a rule for '%' and two hosts,
  one host's alert starves the other and `ConditionAlertsUnderLock` fails. It is
  checked with one host.
- The duration of a status rule is looked up in a column that does not exist
  (alert_engine.py:71, schema.sql:133-150): the seeded "Host Unreachable" never fires.
- With `KeysLast` FALSE, `OpenAlertsPerLock` fails: an evaluation that outlasts its
  key is met by one more, and each inserts (scheduler.py:64, alert_engine.py:137-148).
  Nothing in the code bounds an evaluation by 120 s.
- A failed mysqldump is a backup that is 'completed' without its dump
  (backup_manager.py:79-82): "whole" says that the archive was closed. `verify_backup`
  may store the checksum of a part of it while it is being written (line 154), and
  archives under a former `backup_dir` stay when their rows go (line 136).
- A report that meets the deletion of its host leaves metrics without one
  (api_hosts.py:42): `DataHasItsHost` excepts just those.
- An address and a name are each free again in the end, but not at one moment: where
  others keep failing, the address may be locked whenever the name is not.
  `LockoutEnds` therefore speaks of each, and of moments below the limit, not of a
  login that succeeds.
- A provider's reset may wipe failures that other threads counted since its success
  (llm.py:84); they feed only the circuit that never opens, and no property speaks of
  them.
- Hosts cannot be added by hand (api_hosts.py:31), the agent is never heard after its
  registration (syswatch_agent.py:168). These are built into `Insertable` and
  `Accepted`, each the code's own condition, as the circuit is into `IsFalse`.

**Bounds.** Three workers on two machines give two that share a lock file and one that
does not; one token more than workers leaves a value for a key whose owner is gone. A
tick may come at any point of a run, so with `Timeout` 1 in lock_failures a run may
end before and after its key expires. In `AlertEngine`, `MaxClosed` closed alerts
(together with the OPEN ones the invariants bound) keep the table finite, `MaxAge` is
the longest cooldown, beyond which ages are alike, and `Window` the longest duration
plus what it needs to see a row leave it. Metrics take one value on each side of the
threshold and NULL. `AlertEngine` has no run of its own: its actions are checked under
the lock, as they run. With key and file three workers are one more than the locks of
their machine, so that the bound is not the number of workers, Redis fails and workers
die at any point of the lock; with the file alone two make every pairwise race, and
die within evaluations too. Liveness is checked there. With key and file the VIEW
leaves out which alerts have a notification, which no action and neither of the two
properties reads; workers and tokens are alike in them, and no liveness is checked.
One host and one rule keep the runs small; that hosts and rules do not disturb each
other's alerts, but for the cooldown they share, is what the theorems add. In
`Remediation`, `MaxRuns = 2` is one more than any suggestion should see and `MaxExecs`
bounds the table of direct executions. Two requests make every pairwise race, and a
third executes what they left: approvals may overtake each other before or after it
has read. Suggestions share nothing but the requests, so that one is enough; two safe
commands and a blocked one tell an approved command from a modified one. Requests are
alike, and so are the safe commands. In `BackupManager` two calls make every pairwise
race; two backups give a clean-up a second row to leave undone and a second archive to
confuse with the first, two directories an old and a new one. Calls and directories
are alike in Init and Next, no liveness is checked there, and so TLC may take them as
symmetric.

In agent_fleet two requests make every pairwise race over one hostname: registration,
scan, addition, report and deletion; two ids let a host be deleted and come back, two
registrations let a restarted agent find its old row, and the server's threads are
symmetric. agent_fleet_live gives the check a second host to be busy with, and
MaxFaults 1 a failure between any two of its statements, beside notifications, of
which any number may fail. In insights the chain has two providers with a key, so that
one may answer after the other failed; a third is only ever named. Threshold 1 stands
for 3 (`Plus1` stops counting there: only "at least the threshold" and "none" are
read). The histories have 10 and 26 values with a jump at the end, about as extreme as
values can be: 10 is the least that is judged, 26 the most that cannot be CRITICAL. In
sessions the limit is 1 of 5 attempts and 2 ticks stand for the lockout, so that one
failure may age while another is fresh. With two addresses and two names either count
may be at its limit while the other is not, and each half of `FailuresBounded` fails
if its own check is dropped (the mutant drops that of the address). Two ids let an
account be deleted and another one take its name under a login; one token is enough to
be stored for it.

**Deadlock** is not checked where the system may really stop: no enabled rule and
nothing to report, every suggestion decided and every row of executions used, or no
backup left to begin.

**Fairness.** Weak fairness of a worker's steps inside the lock and of an evaluator's
steps: their threads are scheduled and the calls they make have timeouts (3 s for
Redis, the driver's for MySQL, 5 s for a ping, the configured one for an LLM). So it
is for a checker's steps, an agent that waits or is in its loop, and a login.
`Remediation` has none, since SSH commands have no timeout. Weak fairness of firing:
interval triggers keep firing, those of the check and of the analysis too. Of
restarts: the Gunicorn master replaces workers. Of the clock. Nothing obliges a
failure, an operator, an agent or a new request to happen, and no strong fairness is
used. `JobKeepsRunning` assumes that crashes end; `ConditionAlertsUnderLock` that
workers stop dying, that from some time on evaluations end by their return or at a
notification (`Undisturbed`), and that operators leave the alerts alone.
`ReachableHostGoesUp` and `UnreachableHostGoesDown` assume that checks go round: that
notifications stop failing, or that nobody but the check changes what it looks at
(`ChecksGoRound`); the bound `MaxFaults` ends all other failures.
`StandingAnomalyIsOpen` is about finitely many resolves and failures because
`MaxResolved` and `MaxFaults` bound them; an operator who resolves for ever keeps
insights from staying OPEN. `ScheduledFairSpec` is fair to a worker's whole round of
trigger, lock, evaluation and release, and to the expiry of keys.

## 5. Proofs

All for arbitrary sets of workers, machines, hosts, rules, requests, suggestions and
commands, under the assumptions named in the modules (`LockAssumption`,
`AlertAssumption`, `ScheduleAssumption`, `RemediationAssumption`, `BackupAssumption`,
`LlmAssumption`, `InsightAssumption`, `HostAssumption`, `FleetAssumption`,
`SessionAssumption`), which only give the constants their types, set None apart and
make the threads finite. Every safety invariant and action property that a passing run
checks is a theorem, `FindingsNeedHistory` alone excepted. Two theorems state what no
run checks by that name: `FileLockExcludes`, which lock_file_only checks as the
refinement, and `OpenAlertsAreBounded`, which needs nothing of the lock.

- **DistributedLock_proofs.** `LockInv` adds to `TypeOK` and `FileOwnerIsLive`: a key
  has time to live; coexisting objects have different tokens; `SET` is reached with a
  token; a run without a token holds the file. Tokens being different is why the
  compare-and-delete cannot hit a successor (`LockLastsAsLongAsItsRun`); a run without
  a token holding the file is why the file lock alone excludes (`FileLockExcludes`),
  from which the refinement of `JobExclusion` follows (`FileLockImplementsExclusion`).
  Both assume that the redis package is missing.
- **AlertEngine_proofs.** `BaseInv` is typing plus what evaluators hold; `AloneInv`
  adds, when evaluations do not overlap, that what the one evaluator read about OPEN
  alerts and the cooldown is still true when it writes (`ReadStillTrue`): operators
  only close alerts, deletion only takes their rule away, time only ages them.
  `OneOpenAlertPerPair` and `TriggersAreCooldownApart` follow. `AlertsAreAnnounced`
  holds with any overlap and failure, whether notifications succeed or not: an alert
  that is not announced is in the hands of the evaluator that inserted it until this
  one announces it or breaks off, which `silent` notes. So does
  `OpenAlertsAreBounded`: `DuplicateInv` counts the OPEN alerts of a pair together
  with the evaluators about to insert one (`Inserting`). The bound alone is not
  inductive, since each of those adds one whatever the others did; the sum is, because
  an evaluator joins them only when it found no OPEN alert at all (`InsertersAre`),
  and leaves them by inserting.
- **ScheduledAlerts_proofs.** For any workers, machines, rules and hosts. A step of
  the composition is, to the lock, a step of one of its processes or the end of a key
  (`LockStep`), and, to the engine, a step of one evaluator or of its environment
  (`EngineStep`), where `FreeNext` is `AlertEngine`'s Next without the guard on
  `Overlap`. So the invariants of both parts are kept, since their lemmas are proved
  over those two relations; `Linked` adds that an evaluation is under way only where
  the lock is "running" (`ScheduledTypes`). `RunsCovered`, every run has the key or
  its machine's file, is inductive while keys last, or without keys; mapping each run
  to its lock then counts them (`CoveredAreFew`, `RunsAreFew`). `OpenAlertsAreFew`
  repeats the sum of `DuplicateInv` with the number of locks in place of the number of
  evaluators (`PairsBounded`, from `StepBounded`): whoever is about to insert for a
  pair is under way. Both assume `KeysLast \/ ~HasRedis`; section 4 says what happens
  otherwise. With one machine and no redis package every run holds the one file, so
  that `BeginEvaluation` finds everybody else idle and every step is one of
  `AlertEngine` with whatever `Overlap` (`FileLockImplementsEngine`); the theorems on
  evaluations that do not overlap then hold of the program with its lock
  (`AloneUnderFileLock`).
- **Remediation_proofs.** All with overlap and failures. `BaseInv`: a row that is
  approved has a command somebody approved, and a request on its way to a host holds
  such a command. That is inductive whatever races and dies (`HumanInTheLoop`).
  `QuietInv` adds that at most one request is about a suggestion nobody met over
  (`AloneOn`), and that the status it read is still there (`ReadStillTrue`): `met` is
  exactly what that argument needs, and requests about other suggestions cannot touch
  it. `ResultsAreStored` needs no such exception: it rests on a row that never forgets
  that its command ran (`ExecutedStays`) and a request that stays until it has
  recorded or is noted in `unrecorded` (`RecordingStays`).
  `CompletedRowsTellTheTruth`: `TellInv` adds that the request which executes a row
  holds the row's command, that a success it is about to record has run, and that an
  approved row names its approval. `SuggestionsLeadTheirLife` takes them together, one
  suggestion at a time: SELECTs stutter or disturb, an UPDATE is the abstract step
  that the status read before it allows, because a lone request finds that status
  unchanged, and the run is the first, of the row's own command; a step about one
  suggestion leaves the life of all others alone. `RunningRowsHaveRequests`: an id of
  an execution is given to one request, which goes on with it, settles it or is noted
  in `abandoned`.

- **BackupManager_proofs.** `TypeInv` is typing plus what a call holds between two
  steps. `BackupInv` adds that a backup has one creator (`OneCreator`: ids are not
  used twice) and that its archive is as far as the creator is (`Stage`); others may
  only drop its row or unlink its archive (`Untouched`), so what the creator knows of
  it stays true until it says 'completed' (`CompletedBackupsAreWhole`). `Tidy`, the
  two properties on the rows a call leaves behind, is inductive over `TypeInv`:
  `CallGoesOn` says how a call may give up a backup, the `...Origin` lemmas how it may
  take one on (`RowsAreSettled`, `RowsFollowArchives`). `RowsOutliveArchives` adds
  `CleanInv`: a deletion that is about to drop its row has unlinked the archive, or
  `missed` says it looked elsewhere, and nobody writes the archive of a row that is
  gone.

- **Insights_proofs.** Two invariants for any threads, providers and pairs.
  `ForgottenInv`: what is left in `Unforgotten` was left by a statement that raised
  (`OldFailuresStayFew`). `InsertInv`: what stands OPEN for a pair and the passes
  about to insert are together no more than the threads; a pass comes to insert only
  when nothing is OPEN (`OpenInsightsStayFew`).

- **AgentFleet_proofs.** For any threads, checkers, agents, hosts and addresses, with
  failures. `TypeInv` is typing plus what a request holds between two statements; that
  every stored status is in the column's ENUM is part of it (`TypeCorrect`).
  `DownIsAnnounced` is inductive over it: only the checker at its UPDATE makes a
  notification due, in its own name, and it leaves by announcing or by breaking off
  (`DownIsNeverSilent`). `DataInv` adds that ids are not used twice, so that a request
  which read an id deletes that host or nothing (`KnowsItsHost`); that a report and a
  deletion of one host under way together are on record; and how far a deletion that
  met no report has got (`DeletedSoFar`). Without these `DataHasItsHost` is not
  inductive: the last DELETE removes the row and must find the data gone
  (`DataIsKeptWithItsHost`). `RegisterInv` says what the thread an agent waits for has
  found or stored (`Waiting`); `Believes` follows when its answer arrives, because
  rows only go by a deletion, which the history `gone` notes
  (`BelievedRegistrationsAreStored`).

- **Sessions_proofs.** For any number of requests, sources, names, tokens and
  accounts, over whole histories of logins. `LimitInv` counts the recorded failures of
  a source, and of a name, together with the logins that have passed its check and may
  still record one. A login passes the check only below the limit, where the sum is
  within the bound whoever else is under way; recording moves one from the second part
  of the sum to the first; time only takes rows away (`AttemptsAreLimited`).
  `OwnerInv` says that ids are not used twice (`IdsDiffer`) and that the id a login
  holds is that of the account it read, or of none any more (`HeldId`): the foreign
  key then stores the token for that account or refuses it, and the cascade takes it
  away with the account (`SessionsStayTheirs`).

Only model-checked: all liveness (`KeyIsFreed`, `JobKeepsRunning`,
`ConditionAlertsUnderLock`, `ReachableHostGoesUp`, `UnreachableHostGoesDown`,
`StandingAnomalyIsOpen`, `LockoutEnds`), since fairness and ENABLED are out of the
prover's reach. So is induction over data: that ten values are never anomalous
(`FindingsNeedHistory`) is an inequality between sums over a series, shown for the two
histories of the run only, ten and 26 values whose newest is far off.

## 6. Not modelled

- **Runbooks.** Steps are replaced by a DELETE and INSERTs (api_runbooks.py:53-55)
  that a reader sees half-done, and `execute` leaves a row 'running' that nothing
  finishes. No other part of the program depends on either.
- **Database layer.** Autocommit, strict mode and raising statements are in every
  module. The pool is DBUtils'. `init_db` executes the schema file at each start, but
  skips every statement that begins with a comment, which leaves the tables users and
  host_groups and the seeds to whoever sets the database up; a failed statement is
  logged and passed over. The models take the tables to be there as the file says, all
  but notifications.
- **Alert notes** (api_alerts.py:58-70, the later of two UPDATEs wins) and changes of
  a rule's other columns; API keys, passwords, encryption and validation of inputs;
  SSH credentials and the temporary key file.
- **SNMP, cloud, events, notifications, reporting, system logs, web pages**: single
  reads and inserts; `config.py` and `logging_manager.py`: the environment and
  formatting.
