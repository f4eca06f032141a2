# A TLA+ model of the operations agent

`agent` watches Kubernetes, Jenkins and GitHub, puts what it sees on a queue,
proposes fixes and deploys, waits for a human to click, carries the click out
and keeps its own processes alive.  Its hard part is not any one computation but
a handful of SQLite tables that several threads and processes read, think about
for seconds, and then write without looking again.  These modules model that
part of the code: which statement is atomic, what may happen between two of
them, and what still holds afterwards.

Paths below are relative to `src/src/agent/` unless they start with `src/`.

## The system

Long-running processes: the **supervisor** (`agent supervise`), which keeps
**ngrok**, the **mcp** server (which also serves the webhooks) and the
**daemon** running.  The daemon has a thread per watcher and one `queue_worker`.
The dashboard is a further process, and every CLI command is one of its own.
They share SQLite files under `data/`, nothing else.

    GitHub push --webhook--> event_queue --queue_worker--> analyze_webhook_deploy
                                                               | pending_deploys
    watchers --> healer, incidents, SLO                        v
                    | pending_actions                    Slack message
                    v                                          | click
              Slack / dashboard / CLI  <-----------------------+
                    | approve
                    v
         fix_registry.execute, DeploymentSkill.execute_approve --> kubectl

| Component | State | Operations | What is hard | What makes it correct |
|---|---|---|---|---|
| event queue (`integrations/event_queue.py`, `core/event_worker.py`) | `events` rows: status, priority, retry count, due and update times | enqueue, dequeue (3 statements), complete, fail (2 statements), retry_dead; the poll loop | autocommit between statements, crash with a row in hand, the five-minute reset, `complete()` failing inside the `try` of the handler | nothing lost, dead letters earned, retries bounded and delayed, done is final, one worker per event |
| approvals (`core/approvals.py`, `core/fix_registry.py`) | `pending_actions` rows with an expiry | propose, create, decide, expire_stale, execute, approve_and_run, reject | Slack posts that arrive and still report an error, two processes deciding, deaths mid-execution | a fix runs once, only if not refused; deduplication, limit; nothing pending for ever |
| deploy pipeline (`integrations/deploy_db.py`, `skills/deployment.py`) | `pending_deploys` rows, and the Kubernetes deployment | analyze_webhook_deploy, gates, execute_approve, watch, rollback, execute_reject | minutes between check and write, kubectl calls that time out after taking effect, ignored results | applied once, rejected never applied, "deployed" only while live, decisions final |
| supervisor (`core/supervisor.py`) | a `_Runtime` per service, the children, state/pid/stop files | step, start, schedule_restart, health check, drift check, shutdown, kill_orphans | timers that interact, exceptions in a pass, a stop at any point, hard kill | hung and exited children come back, bounded delays, ordered and complete shutdown, mcp follows the tunnel's hostname |
| claims and cooldowns (`integrations/daemon_db.py`, `alert_dedup.py`, `skills/daily_summary.py`) | `daemon_cooldowns` rows: last action, count, claimed keys | claim_once, check/set_cooldown, get_fix_count | read and insert under a lock of one process only; check and set minutes apart; deaths between claim and act | each process wins a key at most once while the claim holds; restarts are bounded |
| pod healer (`skills/healer.py`, called by `core/daemon.py` and the queue worker) | the calls in progress; cooldown and count per pod name | diagnose, restart, verify, escalate, apply an approved fix | two threads of one daemon, people, rollouts that rename pods, deaths before the count is written | restarts bounded, escalations earned, no crash loop unnoticed |
| incidents and SLO (`skills/incident.py`, `slo.py`, their databases) | incidents, their page and their burn | open, note the burn, page, resolve | two openers; two resolvers; a resolution while the opener is still at it; calls that fail | open incidents bounded, a resolution is complete |
| backup (`core/backup.py`) | archives, the data directory | create, prune, restore | file by file beside writers, interrupts, other operators, a list that is stale when it is used | a restore can be undone, retention holds |
| dashboard chat (`dashboard/chat.py`) | sessions with a history and pending actions | send, decide, the loop of model and tools | a tab may close at every await; two tabs; a session replaced while it is in use | a confirmed action runs once, the model is told the truth, the history stays valid |
| autoscale (`skills/autoscale.py`) | a claim per policy, entry and day | the daily scale-down and scale-up | late and missed polls, order of branches, the claim and its end, three processes, deaths, kubectl failing | one poll at any time of the day is enough; each process begins an entry once |
| runbooks, settings (`skills/runbook.py`, `core/settings_store.py`) | runs and their steps; `.env` | steps; rewrite | a death in a run; concurrent rewrites | not modelled |
| front ends, wrappers, collectors, LLM, notifications, safety policy | none that outlives a call | parsing, I/O, text matching | - | modelled only as what they do to the components above |

`PROJECT.json` lists every component with its files, and every hazard with its line.

## Modules

| Module | Models | Extended or used by |
|---|---|---|
| `EventQueue` | the queue and its workers, statement by statement | `MCEventQueue`, `EventQueueProofs` |
| `TaskLedger` | the abstract promise of a task queue | instantiated by `EventQueue` |
| `DecisionTable` | the abstract promise of a table of requests that a person decides | instantiated by `Approvals`, `Deploys` and `Chat` |
| `Approvals` | proposers, deciders and the `pending_actions` table | `MCApprovals`, `ApprovalsProofs` |
| `Deploys` | operators, `pending_deploys` and the Kubernetes deployment | `MCDeploys`, `DeploysProofs` |
| `Supervisor` | the supervise loop, its children, the machine around it | `MCSupervisor`, `SupervisorProofs` |
| `Healing` | the pod healer, its counts, the incidents it opens, people, the pods | `MCHealing`, `MCParts`, `HealingProofs` |
| `Chat` | the dashboard assistant: requests, sessions, the lock | `MCParts`, `ChatProofs` |
| `Backup` | archives, pruning and restores beside a writing agent | `MCParts`, `BackupProofs` |
| `Schedules` | the daily scale-down and scale-up under a claim | `MCParts`, `SchedulesProofs` |

The `MC` modules only name the sets that the `.cfg` files give to CONSTANTS.  A
definition whose comment begins with "Mutant:" is a plausible bug; no
specification uses it.  `MCParts` holds the instances of the last four modules:
a behaviour of its specification is one of one of them, chosen at the start.

### EventQueue and TaskLedger

The connection runs with `isolation_level=None`, so each statement commits by
itself: `dequeue()` is `DequeueReset` (give back what has been processing for
five minutes), `DequeueSelect`/`DequeueEmpty` and `DequeueClaim`; `fail()` is
`FailRead` and `FailWrite`; `complete()`, `enqueue()` and `retry_dead()` are one
step each.  The claim is an UPDATE by id alone, and so are `complete()` and
`fail()`: none of them looks at the status it overwrites, and the model does not
either.  An event without handler fails with `retry=False` (`Orphan`).
`CompleteRaises` is the `complete()` inside the `try` whose `except` calls
`fail()`.  `Abandon` is both an exception into the loop's `except` and the death
of the process: what is left is the same row.  Times are relative to now; a
worker may be suspended between reading the clock and using it (`seen`), for at
most `MaxPause` ticks.

`TaskLedger` is the promise without clocks or statements.  The refinement
mapping is in `EventQueue`: pending and processing are "open", the workers'
hands are `running`.

### Approvals

One transaction is one step.  `Prune`, `List`, `Create`, `Send`, `GiveUp` are
`propose()`; a direct caller (the healer, `agent approvals test`) skips the first
two and never gives up.  `Click` is `get()` with the checks after it; `Refuse` and
`Approve` are the unconditional `decide()`.  `Approve` also starts `execute()`,
because there is no await in between: inside one event loop this is one step, for
another process it is not.  `Finish` records the outcome.  A Slack post that
"reports an error" may have arrived (`"unknown"`): the proposer then sets the row
to failed while its buttons are live.  A row is only ever expired by a sweep or
by a click on it.

`DecisionTable` is the promise without columns, clocks, messages or processes: a
request is taken up (and put back if nobody is left to carry it out), carried out at most once, never after it was turned down, and
what came of it is recorded once, unless the filer may dispute it.  The refinement
mapping `StageOf` looks at what was decided, not at what the column says: a row that
a decider is about to run is "taken" whatever a sweep or a late error has written
to it meanwhile, and a `failed` row is "refused" if its fix never ran.  Outcomes can
be disputed exactly if Slack's answers are ambiguous or the dashboard decides
(`DefiniteSlack`): it shows a row whose post was never delivered.

The list limit of 200 rows is not reached under the bounds and is not modelled.

### Deploys

`Click` reads the row; `Gate` is the SLO gate and the health gate, which may
block for reasons outside the model, and does block for the one inside it (check
6); `Approve` is the unconditional write after the gates; `Apply` is
`set_image()`; `Watch` is `wait_for_rollout()` and the watcher; `RollBack` is
`rollout_undo()`; `End` the final status.  kubectl may fail with or without
effect.  The Kubernetes deployment is exact as far as these calls go: setting the
image it already has starts nothing, undo swaps the two newest templates.

For one operator this is `DecisionTable` again, under the same kind of mapping:
`approved` before `set_image()` is "taken", after it "started", and a gate that blocks
is a refusal.  No outcome can be disputed here.

Left out: other writers of the deployment (the healer, people), and
`expire_old_pending()`, which nothing calls.

### Supervisor

A pass is a sequence of visits, `at` = 1, 2, ...; each branch of `step()` is an
action (`NoticeExit`, `ProbeFailed`, `BackOff`, `StartRaises`, ...), and between two
visits children may answer, hang or exit, the hostname may change and the
operator may stop, interrupt or kill.  The fields of `_Runtime` are the record
`rt[s]`; `healthy` is kept as a set.  Timers are counters that stop at the largest
value the code compares them with.  `WriteState` is `write_state()`, which may be
lost; a hard kill splits the living children into those the file names (`orphan`,
ended by the next start) and those it does not (`stray`).

Left out: log rotation, the restart counter, `--max-seconds`, a second interrupt
during shutdown, a child that survives `kill()`, a stray that answers health
checks on the port of the child started beside it, two supervisors started at the
same instant, and a hostname pinned in the environment.

### Healing

`_handle_crashloop()` call by call: `Poll` and `Handle` (the cooldown), `Count`,
`Look`, `Open`, `Burn` and `Note` (`open_incident()` with the SLO burn, whose id is
kept in the timeline and nowhere else), then `Escalate`, or `Restart` and, up to two
minutes later, `Verify`, which writes count and cooldown.  Two threads of the
daemon run it, the pod watcher and the queue worker; none of them takes a lock.
`Resolve`, `ClosePage` and `EndBurn` are `resolve_incident()`, which the healer and
people share; `ApplyFix` and `VerifyFix` are an approved proposal.  A death of the
daemon ends all its threads.  `Rollout` is what Kubernetes does to the pods of the
deployment: a pod with a new name appears, the old ones go, now or never.

A pod's cooldown and count are kept under its name, so `fixes`, `age` and `restarts`
are functions of names, and a replaced pod starts afresh.  `torn` is a history
variable: incidents with a call that failed, was cut short by a death, or came
across another one.  It keeps apart what the code promises from what a failing
on-call service takes away.

Left out: the healers of OOM, CPU, image pulls, bad deploys and nodes (they have
the same cooldown and count), what the AI proposes, acknowledgement, correlation,
and exceptions of the database elsewhere than in the calls that catch them: one of
`set_cooldown()` (`skills/healer.py:192`) in particular, which leaves a restart without
count and cooldown though nothing died, and would add one restart to `RestartsBounded`
each time.  An exception of `open_incident()` is in the model, before and after the row
is inserted or found: the healer goes on without an incident and the row stays open.

### Chat

A request is a coroutine of the dashboard's one event loop; every `await` and every
`yield` is a point where others run and where a closed tab cancels it.  `Send` and
`Decide` ask for the lock, `SendStart` and `DecideStart` have it.  `asyncio.Lock` is
first come, first served: `ahead[c]` are the requests before c.  `Ask` is a turn of the
model with tool uses; those that only read are not told apart.  `ReadingDone` pauses
the turn if something changing was asked for.  `Apply`, `RunEnds` and `Applied` carry
the confirmed uses out in order; the history is what the API would see, reduced to
what ends it and whether tool uses and results match.

The tool uses that wait for a click are a third `DecisionTable`, and here for any
number of tabs.  `StageOf` says what a use is to the person: "open" while its turn is
being read out or waits for her, "taken" once she has said yes, "started" while it
is carried out, and "refused" if she said no, wrote something else instead, or
closed the tab before the turn was shown.  One click may move two uses at once (a
message abandons the whole turn), which is why the table files and refuses sets.

Two details are in the model because the code has them: `decide()` looks its id up
before the lock and only rejects an id already decided after it, so that a click can
enter a decision of a turn it does not belong to; and `_trim()` is abstracted, as it
removes whole turns only.

### Backup

Copying or putting back one file is a step, since SQLite's backup API is atomic per
database; everything between files may be interrupted (`Interrupt`) or interleave
with the agent's writes and other operators.  `Publish` is the rename of the
finished archive; `List` and `Delete` are `prune()`, whose list may be old by the time
it deletes.  `Unpack` opens the archive a second time, which may have been pruned
since it was verified.  `Kept` is the retention rule as the code has it, one archive
per recent day and per earlier week.

### Schedules

`Wake` is the `if`/`elif` of `apply_schedule()`: down first, up only if down is not due.
The call keeps the day and hour of its `now` in its key.  `ClaimRead` and `ClaimInsert`
are the two statements of `claim_once()`, under a lock that threads of one process
share and processes do not; a claim holds for 24 hours (`Held`).  Three processes
call it: the daemon every minute, the dashboard and the command line when asked.
The model owes nobody a poll: `HourPasses` is free, so hours, days and the end of a
claim pass while nobody looks, or in the middle of a call.

`Scale` tells three ends of the winner's kubectl calls apart: the replicas are as
they should be ("done"), `kubectl scale` fails ("failed", which is recorded and not
repeated that day), or `kubectl get` fails, which counts as one replica and passes
for a target of one ("misread").  `Owed` reads the policy and not the code; an
answered call adds what was owed at its time to the history variable `asked`.  A
policy whose scale-down comes before its scale-up in the day never scales up,
although the docstring promises it (`Owed` leaves that entry out; see below).

Left out: the number of replicas itself, and `log_event()` raising after the scaling,
which `run_scheduled_scaling()` logs.

## Runs

| Run | States | Question and answer |
|---|---|---|
| `queue_one_worker` | 69,164 | With the one worker the daemon has, does the queue keep the ledger's promise, is done final, and are backoff and retry limits respected? Yes. |
| `queue_two_workers` | 28,976 | What survives two workers? Dead letters are earned, and every event settles. |
| `queue_exclusive_claim` | violated | Is the claim exclusive, as the docstrings say? No. |
| `approvals_crowd` | 1,069,840 | How often can a fix run when Slack and the dashboard both decide and posts are ambiguous, and how many identical proposals of two proposers wait? Once per decider, one per proposer, no more. |
| `approvals_one_decider` | 35,754 | With one process deciding, posts that arrive or fail and a death: is this a decision table, does the remote limit hold, does every row end? Yes. |
| `approvals_two_deciders` | violated | Does a process only run what is still pending? Not beside a second one. |
| `deploys_one_operator` | 13,407 | With one operator, through failures of kubectl and three deaths: is this a decision table, are only decided images live, is "deployed" live, does an approved deploy end? Yes. |
| `deploys_concurrent` | violated | Does the gate keep a deploy out of a rollout in progress? No. |
| `supervisor` | 239,558 | Through failed starts, exceptions, lost writes and a hard kill: are delays bounded, does a service wait for the one it depends on, is shutdown complete and ordered, are the processes that a kill between passes leaves known, do hung and exited children come back, and does mcp follow the tunnel? Yes. |
| `supervisor_backoff` | violated | Is the backoff only reset by a long run? No. |
| `parts` | 521,945 | Are restarts bounded, escalations earned, incidents and resolutions in order, crash loops handled; is the chat a decision table, does a confirmed action run once and is the model told the truth; can a restore be undone and does retention hold; is a scheduled entry begun once by each process, and does one call at any time of the day suffice for it? Yes. |
| `healing_retries` | violated | Do the restarts of a deployment stop after three? No. |

### Bounds, and why they are enough

* `EventQueueOne`: two events, one without handler, two priorities: overtaking,
  an event behind a retrying one, and both kinds of dead letter.  `MaxRetries` is
  the real 3, so all delays of the backoff occur.  Two faults: a crash, and
  another during the recovery from it.  One requeue: an event that dies, is
  requeued and dies again.  `StuckAfter` 1 with handlers of any length makes the
  reset hit running handlers; `MaxPause` 2 lets a `dequeue()` act on a clock older
  than that.  Beyond `CountCap` = `MaxRetries` no comparison tells counts apart.
* `EventQueueTwo`: one event is the contended one; a second worker, a fault and a
  requeue interleave with every statement.
* `ApprovalsCrowd` is two crowds, one at a time (`CrowdSpec`): two deciders on the rows
  of one proposer, where a row can be clicked while either of them, or a late error,
  is about to write it; and two interchangeable proposers whose rows nobody decides,
  with three rows of one key, more than there are proposers, so that `TwinsBounded`
  could be exceeded.  Both crowds at once, direct callers and deaths are left to the
  theorems, and the last two to the next configuration.
* `ApprovalsOneDecider`: two keys and two rows with a limit of 1: the limit and
  the duplicate are each the reason of a refusal.  A `TTL` of 1 has all three cases
  of expiry (before, at, after).  One death: a dead proposer leaves a pending row,
  a dead decider an approved one, or one it had in hand.  Sends are definite here,
  because an ambiguous one does overwrite an outcome (below); the theorem covers
  both cases, for any number of proposers.
* `DeploysOneOperator`: two deploys and three images: a deploy over a failed one,
  an undo back to an image deployed earlier, the same image twice.  Three deaths:
  between approval and set_image, between set_image and the status, and one more
  during what follows either; the theorems cover any number of both.
* `Supervisor`: ngrok and mcp, the one dependency there is (the daemon is a
  service without either, covered by the theorems).  Health intervals 1 and 2,
  failures 2, grace 2, dependency wait 1: every timer is observed both running
  and over, and checks fail inside and after the grace period.  The backoff is 2
  to 3, so the cap cuts the first doubling.  `MaxMishaps` 1: one exit, hang, failed
  start, exception, lost write or hard kill at any moment.  The next start after
  a kill is within the bound, a second mishap during the recovery is not.
* `Parts`, in six kinds of behaviour:
  * *threads*: both threads of the daemon and one death, on one pod and a service
    without SLO, with the real order of calls and `MaxFixes` 2: the restarts of
    one thread fall between the count and the restart of the other, and three
    incidents allow an opener to miss the other twice.  An insert may raise before or
    after the row is there; the look and the close of a page do not.
  * *people*: the watcher and a person, two pod names, one incident, one proposal at a
    time and none without its incident: every interleaving of two resolutions, a rename
    during a fix, and an incident that is lost to the watcher when found or inserted.
  * *chat*: two tabs, two session objects (an old one in use while a new one is made) and
    two tool uses, so that a turn has one or two pending actions or follows
    another with one.
  * *retention*: six days in weeks of two, one daily and two weekly archives kept:
    the oldest week is dropped.  Two operators share the first three archives.
  * *restore*: two files, two versions, three archives, two operators: a restore
    during a restore, a write between copy and put, an interrupt anywhere.
  * *schedules*: two processes and three hours, so that an entry has hours before, at and
    after its time; both orders of two entries on one day, and one entry over two days,
    the second long enough for a claim of the first to end.  A person's calls are of the
    first day.  One death with a claim.
* `HealingRetries`: one healer and four pod names, two more than `MaxFixes` restarts use up.

`CHECK_DEADLOCK FALSE` is set for the `Deploys` configurations (when all rows are
decided and nothing rolls out, that system really stops), and for
`Parts`: a pod that runs, a chat nobody writes to and a directory nobody backs up
are at rest.

### Fairness

* Queue: weak fairness of each worker's own steps (the loop polls for ever and
  handlers end, since their remote calls have timeouts) and of time.  None for
  faults, enqueues and requeues.
* Approvals: weak fairness of a decider's own steps, of time, and of the sweep,
  which the daily summary, the dashboard's list and each proposal perform.  None
  for clicks or proposals.
* Deploys: weak fairness of an operator's own steps; each kubectl call, gate and
  watch has a timeout.  None for rollouts: they may hang for ever.
* Supervisor: weak fairness of the loop as a whole: every wait in it has a timeout.
  None for children: a started process need never answer.
* Healing: weak fairness of the watcher's own steps (it polls for as long as the
  daemon lives, the supervisor restarts the daemon, and its calls have timeouts)
  and of time.  None for the queue worker, for people or for Kubernetes.
* Chat, Backup, Schedules: none; their properties are safety.  `OneCallIsEnough` says
  what a call leaves behind when it comes, and nothing of a day in which none comes.

## Disagreements between the code and what it says

The five violated runs, quoted with their lines in `PROJECT.json`:

1. two workers run one event, although the docstring calls the claim atomic
   (the daemon starts only one, so this bites when a second process does);
2. the dashboard can run a fix that Slack has already decided;
3. the check for a rollout in progress asks `kubectl rollout status --timeout=2s`,
   which fails while a rollout is in progress, and the check counts only successes;
4. `started_at` survives the process, so a service that cannot be started gets
   the base delay back;
5. the healer counts fixes under the name of a pod, and its fix replaces the pod by
   one with another name, so it never "stops retrying".

Consequences seen while modelling for which no run is kept: two proposers that
list before either creates make twins and pass the limit (`core/fix_registry.py:248`); the late
`failed` of an ambiguous Slack post can overwrite an outcome
(`core/fix_registry.py:261`); `execute_reject()` can overwrite an approval that is being
carried out (`skills/deployment.py:1303`); runbook events pass `name=` to a function that
takes `runbook_id` and end as dead letters (`core/event_worker.py:115`); a stop
file written between the pid file and `run()` is removed by `run()`
(`core/supervisor.py:393`); the drift check reads a fresh hostname beside a health
flag that may be one interval old, so a short silence of the tunnel can restart
mcp without it (`core/supervisor.py:346`); a policy with its scale-down earlier in
the UTC day than its scale-up is never scaled up, although the docstring says
"up_replicas once schedule_up_utc has passed" (`skills/autoscale.py:83`, `:96`); an entry
that is due in the last minute of the UTC day is lost with the one poll that could see
it (`skills/autoscale.py:39`); a failed `kubectl get` counts as one replica, so an entry with
that target is reported "already_at_target" and claimed for the day without being
scaled (`skills/autoscale.py:46`, `:121`), and a failed `kubectl scale` is not tried again
before the next day (`:127`); `claim_once()` is "True only for the caller that gets to
proceed", but two processes can both get it, and a call of the day before gets it once
more when the 24 hours are over (`integrations/daemon_db.py:208`, `:234`); a process
that dies between "approved" and the outcome leaves a row approved for ever
(`core/fix_registry.py:108`, `skills/deployment.py:1223`); a deploy is reported ROLLED_BACK
whatever `rollout_undo()` answered (`skills/deployment.py:952`); a pod
that was given up on is escalated again at every poll, since that path sets no
cooldown (`skills/healer.py:144`); `_mark_rolled_back()` leaves no mark, so a rolled-back
deployment still looks recent (`skills/healer.py:824`); `resolve_incident()` overwrites
whatever status it finds (`skills/incident.py:172`); a click in the chat can enter a
decision of the next turn (`dashboard/chat.py:373`); two backups begun in one second
take one name (`core/backup.py:153`); what is written while a restore runs is in
no archive (`core/backup.py:323`).  Beyond the models: a webhook whose enqueue fails is
answered 200 (`integrations/webhook.py:192`), a Jenkins build is claimed before the task
that reports it exists (`integrations/webhook.py:275`), `expire_old_pending()` has no
caller (`integrations/deploy_db.py:129`), and the daily summary is checked, sent and
marked in three steps (`skills/daily_summary.py:261`).

## Theorems

TLC checks the instances above.  The following hold for every value of the
constants that satisfies the named ASSUME of the module.

| Theorem | Hypothesis | Argument |
|---|---|---|
| `EventQueueProofs!TypeCorrect`, `ApprovalsProofs!TypeCorrect`, `DeploysProofs!TypeCorrect`, `SupervisorProofs!TypeCorrect`, `HealTypeCorrect`, `ChatTypeCorrect`, `BackupTypeCorrect`, `ScheduleTypeCorrect` | - | TypeOK is inductive |
| `DeadLettersEarned` | - | only `FailWrite` writes `dead`, and it writes the count it compared; needs no exclusion |
| `HandlerKeepsItsRow`, `RetriesAreBounded`, `CompletionIsFinal`, `BackoffIsKept` | one worker | `SoleInv` |
| `QueueImplementsLedger` | one worker | `SoleInv`, then each statement maps to a ledger step or a stutter |
| `RunsAreBounded` | - | `ClickInv`: the runs of a row and the approvals in hand are together no more than the deciders |
| `TwinsAreBounded`, `RemoteIsBounded` | - | `TwinsInv`, `RemoteInv`: rows and threads that are about to add one are counted together |
| `ProposalsAreDeduplicated`, `RemoteProposalsAreBounded` | one proposer | the same bounds for a set of one |
| `ApprovedFixRunsOnce`, `RefusedFixNeverRuns` | one decider | `DeciderInv` |
| `ApprovalsImplementTable` | one decider | `DeciderInv`, `RunInv`, `OwnInv` and, for definite posts, `KeepInv`; then each action maps to a step of the table or a stutter |
| `AppliesAreBounded` | - | `ApplyInv` counts as `ClickInv` does |
| `OnlyDecidedIsLive` | - | `RowInv`: an operator past the gate works on a decided row, and rows are never taken back |
| `DeployAppliedOnce`, `RejectedStaysOut`, `DeployedMeansLive`, `DecisionsAreFinal` | one operator | `SoleInv` of `Deploys` |
| `DeploysImplementTable` | one operator | `SoleInv`, and `AppliedInv`: what is watched has been applied |
| `CleanStop`, `DependentsStopFirst` | - | `DownInv` |
| `StraysAreKnown` | - | `RecordInv`: between passes the file names every living child, unless something failed |
| `DependenciesStartFirst` | - | `HealthInv`: a healthy service has a process, and "running" means the same |
| `PodsAreNotRestartedForEver` | - | `CountInv`: restarts are the counted ones, plus those in hand, plus those that deaths took |
| `EscalationsAreEarned` | - | `ReadInv`: no count, written or read, exceeds the restarts made |
| `IncidentsAreBounded` | - | `OpenInv`: open incidents and threads about to open one are together no more than the healers |
| `ResolutionsAreComplete` | - | `HasIncident`, `FreshInv`, `TidyInv`: what each stage of a call implies for its incident |
| `HistoryIsAccepted` | - | `LockInv` (a lock has one holder) and `TailInv` (what the stage of the holder says of the end of the history) |
| `ActionsRunOnce`, `AbandonedChangedNothing` | - | `ChatInv`: beside those, `NameInv`, `RunInv` and `QueueInv` |
| `ChatImplementsTable` | - | `ChatInv` and `Turns` (whoever reads for, runs or has decided a tool use does so in its one turn); then each step of a tab maps to a step of the table or a stutter |
| `TurnedDownNeverRuns`, `RunsAreConfirmed` | - | read off the table by `ChatImplementsTable` |
| `RetentionIsKept` | - | `RetainInv`: what is doomed is superseded, and stays so because stamps only grow |
| `OutcomesAreKept` | one decider and definite sends | `KeepInv`: who may still write a row without looking |
| `RestoresAreUndoable` | - | what a restore in progress will overwrite is in its own safety copy, unless it came late |
| `WinnersAreBounded` | - | `WinInv`: what was begun and who found the key free are together no more than the processes on the key's day, and twice that with those still asking later; `TimeInv`: claims are never ahead of their day |
| `OneCallSuffices` | - | `AskInv`: a key with a claim is settled whether or not the claim still holds, and a call asks for exactly what is owed at its time |

Where the table says one worker, decider or operator, the code really relies on
it.  A row's status is checked in one step and overwritten in a later one without
a condition; the properties hold because only one actor is between the two.  Hence
the strengthenings:

* `EventQueue!SoleInv` adds to the properties that a selected row is still
  pending and due when it is claimed, that `fail()` writes back a count that is
  still current, and that the clock a `dequeue()` holds lies in the past.
* `DeciderInv` adds that a row in the decider's hand has never been run; `RunInv`,
  that a row which runs is approved or was marked failed by its proposer, never
  refused; `OwnInv`, that a proposer gives up on a row that exists.
* With any number of deciders or operators the bounds charge each of them once.  That
  is inductive because of who is counted: not those that run a fix, but those between
  the read and the write.  A row that has run is no longer pending, so nobody joins
  them.  `TwinsInv` does the same for the threads between `list` and `create`: one
  joins them only when it sees no row of the key, so the rows and the threads of a
  key are together no more than all threads, and a created row takes the place of
  its thread.
* `Deploys!SoleInv` adds what the operator's row looks like at each of its steps,
  and that the image it watches is the live one.
* `DownInv` adds that the services shutdown has passed are down.
* `HealthInv` ties the flag `healthy`, which the dependents are held back by, to the
  process it speaks of, through every way a process can go: an exit, a failed check, a
  new hostname, a start that raises half way, a stop.
* `Turns` gives each tool use one place: what is read out, answered or carried out of it
  belongs to one turn, and a use that no turn holds is none of these.  The mapping needs
  it because the stage of a use is stored nowhere: the turns and the requests make it.
* The modules `Healing`, `Chat`, `Backup` and `Schedules` need no such hypothesis: their
  properties are stated for any number of actors, with bounds that say what
  each further actor and each death costs.  So `CountInv` has to count: an actor
  is charged once for a restart it makes on a stale count.
* `QueueInv` is about the order of clicks.  `decide()` enters a click in whatever
  turn is pending when it gets the lock, and a turn whose last decision is entered
  is carried out.  If a tab closes while that goes on, the turn stays pending with
  nothing undecided, and a click of an earlier turn that came then would carry it
  out again.  None can: such a click waited before the turn was shown, so it is in
  the queue ahead of every click on the turn, and the lock is first come, first served.
* `RetainInv`: a list that `prune()` made days ago is still safe to delete from,
  since an archive that was not the newest of its day or week never becomes it.
* `KeepInv` needs a definite answer from Slack: after a post that arrived but was
  reported failed, the proposer marks the row while the decider may have run it.

Without these hypotheses the properties are false, and the violated runs show
the counterexamples for two of them.  What remains true without them are the
bounds: `RunsBounded` and `AppliedBounded` say what a second process costs.

Only model-checked: liveness (`EventuallySettled`, `PendingEnds`, both
`ApprovedEnds`, `HungIsRestarted`, `ExitedIsRestarted`, `ConfigurationFollows`,
`CrashingIsHandled`), which lies outside what the
provers do.  Every safety property of a passing run is proved,
under the hypotheses of the table.

## What is not modelled, and the plan

The front ends, wrappers, collectors, the language model and notifications are
I/O or text without state of their own.  They are most of the repository's
lines (the command line, the dashboard's routes, the kubectl and AWS wrappers, the
cost and setup skills), so the modules stand for a small share of the code and for
most of its shared state.  Left, in this order:

1. `Delivery`: the composition of `EventQueue` and `Deploys`: handlers that run more than
   once create more than one pending deploy.
2. The other healers: OOM, CPU, image pulls, bad deploys and nodes, with the
   cooldown and count of `Healing` and fixes that do not rename the pod.
3. The other users of `claim_once()` and the cooldowns: alerts and the daily summary.
4. `Runbook` and `Settings`: a run's steps with deaths; two rewrites of `.env`.
5. Policies that scale by CPU, and the table they are kept in.

Theorems left: refinements of the parts that have none yet (a backup as one atomic
copy for as long as nobody writes, a schedule's entry as a request of a table), and
what the two healer threads of one daemon promise together with the claim.
