# DiskPulse: formal models

DiskPulse watches the capacity of storage clusters (NetApp ONTAP, Isilon). Celery
workers collect quotas and usage, evaluate alert rules, deliver Feishu messages,
collect vendor events, correlate evidence into incidents and let a model review
them; a FastAPI application serves queries, changes quotas on the devices, manages
memberships and definitions, and runs a chat assistant that can propose quota
changes. The state that the parts share lives in PostgreSQL; Redis holds locks,
one-time confirmations and rate counters; QuestDB holds time series.

The specifications below are translated from `src/backend`, and the chat page from
`src/frontend`. TLC checks them on
small instances, TLAPS proves the main theorems for every value of the constants.

## The system

| Component | State | Operations | Meets | What is hard | What makes it correct |
|---|---|---|---|---|---|
| Capacity collection (`celery_tasks/tasks/storages.py`, `storagePulseMonitor.py`) | usage, group and project rows; telemetry runs; audit events; a Redis lock | one round per minute, and one after a registration: three transactions per cluster, project totals in a later one, then the trend | evaluation reads the rows by their stamp; quota adjustment, administrators and memberships write the same rows | partial rounds, groups moved under a round, killed rounds, commits that lose their answer | a total rests on clusters that all succeeded; a reading belongs to the place it was measured at; the ledger claims what happened |
| Storage alert rules and evaluation (`storage_alerts.py`, `storageAlertRuleService.py`) | `storage_alert_states`, events in `storage_alerts`; a Redis lock of 140 s | one evaluation per minute: choose the newest sample, step every target, commit | reads collection's rows; its commit feeds delivery and incident evidence | overlap after a lost lock, the savepoint race on the first row of a target, rows that change between queries | two breaches in a row open an alert, once; events belong to an open alert; observations in order |
| Storage alert delivery (`storage_alerts.py`, `feishuNotificationService.py`) | `delivery_status`, `delivery_attempts`, `next_attempt_at` of the event row | deliver one event, scan for due events every minute | messages of evaluation and of quota adjustment; Feishu | lease against a slow or killed sender, duplicated and lost messages, late results | one sender per event; sent means every recipient was reached; every event is settled |
| Quota adjustment (`quotaService.py`) | device quota, local limits, a Redis lock of 600 s, audit rows | prepare, call the device, read back, write locally; reconcile | collection overwrites the same rows; AI confirmation calls it | device change without local commit, a lock that expires during the device call | the local limit ends equal to the device's; every write is on record |
| AI quota confirmation (`ai_quota_confirmation_service.py`) | Redis confirmation (300 s), audit row | propose, confirm, cancel, expire | chat proposes, adjustment executes | the key is consumed before ownership is checked, a crash between consumption and commit | a proposal is executed at most once; outcomes are true |
| Incident correlation (`forecastIncidentService.py`, `forecastIncidentCrud.py`, `tasks/forecast_incidents.py`) | incidents, evidence, diagnoses, a correlation cursor per key | scan vendor events, handle a batch of alerts, daily forecasts; resolve, maintenance windows | alerts, vendor events, forecasts; notifications; reviews | one-shot and rescanning sources, late evidence, a 30-minute bucket against a 4-hour window, one transaction per batch | evidence counts once; cursor, summary and diagnosis agree with it; nothing is announced that is not committed |
| Incident notifications and reconciliation (`incidentNotificationService.py`, `incidentReconciliationService.py`) | status and timeline of incidents | notify after the commit, close legacy incidents | delivery by Feishu, vendor event definitions | best effort after the commit | a notice is about a committed incident |
| Incident AI review (`incidentAiAgentService.py`, `tasks/incident_ai_agent.py`) | `incident_ai_runs`, status of the incident, two Redis locks | take by event or by schedule, ask the models in turn, re-read, write | people change the incident meanwhile | snapshot before, write after the model call; early returns; locks that lapse | a key is asked once; a running run is somebody's; settled runs stay |
| Capacity prediction governance (`capacityPredictionGovernanceService.py`) | forecasts, candidates, curves, evaluations of holdout windows | daily run, evaluation, activation, switching of models | forecasts feed incidents | two activations, a daily run killed after it flushed | at most one active candidate, and one from then on; a window judged once; a day is whole |
| Project membership and access (`project_membership_service.py`, `project_access_service.py`) | memberships with roles, the project's owner, directory owners | change owner, roles, removal, directories, binding of groups, the grant of the round | every API read filters by it | four writers without a common lock | administrators are appointed; directory owners get access |
| AI chat turn (`ai_chat_service.py` and its clients) | conversation, messages, audits with visibility and tool trace | stream a turn, call tools, repair, summarise, cancel, delete | quota confirmation, access | disconnections at every event, two tabs, repairs that alternate, lost access | a reply is shown within the user's access; a call runs once, except where an agent answers; a turn settles once |
| Chat page of the frontend (`src/frontend/src/pages/ai/AiChatPage.vue`, `src/frontend/src/api/ai-api.js`) | the list of conversations, the open one and its messages, the running stream | send, stop, open, create and remove a conversation, apply the events of a stream, decide on the card of a quota adjustment | calls the chat API; reads the events of chat turns | everything awaits an answer while the user clicks on: events and answers arrive for what is not displayed any more | an answer is displayed in its own conversation only; a success is one; what was stopped is marked |
| Vendor event collection (`tasks/storage_health.py`) | vendor rows of `storage_alerts`; a Redis lock | every minute: read the window after the newest stored event | feeds correlation and the catalogue | events shown late, two requests per run, runs that fail | nothing is passed over, everything arrives |
| Vendor event definitions (`vendorEventDefinitionService.py`, `scripts/initialize_vendor_event_definitions.py`) | definitions, legacy incidents | discover, edit, delete, initialise by script | correlation attaches critical evidence | concurrent insertions of one code, definitions loaded and then edited | a discovery is complete; reviewed edits are kept |
| Names in streamed answers (`ai_name_obfuscation_service.py`) | aliases of a conversation; the end of the text that is held back | put names in the place of aliases in what the model writes | a chat turn feeds it the chunks of a completion | an alias is cut in two by a chunk | cutting does not show |

Not carrying logic of their own (see "Not modelled"): audit trail, AI
administration, health statistics, dashboards and queries,
inventory, HTTP plumbing, device clients, legacy alerting, schema and scripts, the
other pages of the frontend.

## Modules

| Module | Models | Extends |
|---|---|---|
| `AlertOutbox` | abstract: what delivery promises about an alert row | |
| `AlertDelivery` | delivery of alert rows by Celery workers | |
| `AlertRule` | the alert state machine of one target, without state | |
| `AlertEvaluation` | evaluators next to collection, quota stamps and rule edits | `AlertRule` |
| `QuotaAdjustment` | requests, device, collection and the Redis lock of one quota rule | |
| `QuotaProposals` | abstract: what confirmation promises about a proposed adjustment | |
| `QuotaConfirmation` | the chat turn that proposes adjustments and the requests that decide on them | |
| `IncidentLedger` | abstract: what correlation promises about a piece of evidence | |
| `IncidentCorrelation` | tasks that turn events, alerts and forecasts into evidence of incidents | |
| `IncidentReview` | one incident in the hands of people and of reviewers | |
| `CapacityCollection` | collection rounds, their totals and trends, administrators | |
| `CapacityPrediction` | the daily forecast, its candidates and their activation | |
| `ProjectMembership` | who may read and administrate one project | |
| `VendorEventIntake` | the collection of one cluster's vendor events | |
| `VendorCatalogue` | definitions of vendor event codes, the script, legacy incidents | |
| `ChatContract` | abstract: what the assistant promises about the turns of a conversation | |
| `ChatTurn` | the turns of one conversation | |
| `ChatPage` | the chat page of one browser tab | |
| `AliasStream` | the restoring of names in one streamed completion | |
| `...Proofs` | theorems: `RecordsProofs` about quota adjustment, correlation and review, `VendorProofs` about intake and catalogue, `CapacityProofs` about collection and prediction, `ChatProofs` about confirmation and page, `AccessProofs` about chat turn and membership, the others about the module in their name | the modules |
| `MCSafety` | seven components whose properties are about safety | `QuotaConfirmation`, `IncidentReview`, `CapacityPrediction`, `CapacityCollection`, `VendorCatalogue`, `ChatPage`, `AliasStream` |
| `MCProgress` | four components that promise progress | `AlertDelivery`, `MCChatTurn`, `ProjectMembership`, `VendorEventIntake` |
| `MCRecords` | quota adjustment and incident correlation | `QuotaAdjustment`, `MCIncidentCorrelation` |
| `MCAlertsAndChat` | two scenarios of one group, and two turns of the chat | `MCAlertEvaluation`, `MCChatTurn` |
| other `MC...` | constants and symmetry for TLC | each its module |

Operators with a suffix after an underscore (`IsStale_Older`) are mutants: what a
plausible bug would make of the definition that follows them. No specification
uses them; each shows that a property notices the bug.

The components share no variables. Where one meets another the modules agree on
the interface: `QuotaConfirmation!Execute` is a whole adjustment of
`QuotaAdjustment`; `AlertEvaluation` and `QuotaAdjustment` contain the part of a
collection round that they meet, `CapacityCollection` the whole round;
`ProjectMembership` has the pass of the round that grants access;
`IncidentCorrelation!Arrive` is the storing of an event in `VendorEventIntake` or
the commit of an alert in `AlertEvaluation`; `IncidentReview!AddEvidence` is the
commit of a correlation; `VendorCatalogue!AttachCritical` too. The server of
`ChatPage` (`ServerStep`) is a turn of `ChatTurn` as its stream shows it, and its
`AnswerDecision` a request of `QuotaConfirmation`.

### AlertDelivery

State: `status`, `attempts`, `due` are the columns `delivery_status`,
`delivery_attempts`, `next_attempt_at`; `queued` the messages of
`deliver_storage_alert_task`; `task` what each worker does; `received` is a
history of what Feishu delivered. Times are countdowns.

| Action | Code |
|---|---|
| `CommitAlert` | the commit of the evaluation and its `.delay`, which may be lost after the commit |
| `RetryScan` | `retry_storage_alerts_task`: at most `ScanLimit` due rows, in no order |
| `DropMessage`, `SkipDelivery`, `PrepareDelivery` | the three results of `_prepare_delivery_attempt` under the row lock |
| `SendNext`, `SendFails` | one pass of the loop of `FeishuNotificationService.send`; a post that timed out may have arrived |
| `RecordResult` | `_record_delivery_result`, which ignores an attempt that is not the latest |
| `Crash`, `LoseMessage` | a killed worker; Celery acknowledges early, so a taken message is gone |
| `ToggleFeishu`, `Tick` | a restart with the other configuration; time, which no task outlives its hard limit in |

`AlertOutbox` is what a reader of the table may rely on: an alert is owed from its
commit until it is settled once, nobody is notified outside that time, and "sent"
is claimed only when everybody was reached. It allows repeated notifications: the
code delivers at least once.

### AlertRule and AlertEvaluation

`AlertRule` translates `transition_alert_state` branch by branch: staleness,
missing ratio, new row, changed signature, recovery, second breach, escalation,
silent de-escalation, repetition. `AlertEvaluation` runs it inside
`storage_alerts_schedule_task`.

State: `row[t]` is a directory, group or project with its stamp `updated_at`, its
utilisation, and the time its value was written; `rule[t]` is the effective rule
of the target; `state` the committed `storage_alert_states`; `lock` the Redis
lock; `rowLock` the row locks of open transactions; `ev` what each evaluator has
loaded and drafted. `seen` and `log` are histories of committed observations and
events.

| Action | Code |
|---|---|
| `StartRound`, `CommitCluster`, `FinalizeProjects` | a collection round: one `collected_at`, a transaction per cluster that restamps every row it touched or that was touched since, project totals at the end |
| `QuotaSync` | a quota adjustment stamps a directory or group with the current time; also, without a ratio, a newly registered row |
| `ChangeRule`, `EditProject` | edits of group, project and system rules; a project edit restamps the project |
| `Begin`, `Skip` | `redis_lock` and `_latest_alert_sample`, in a session of its own |
| `LoadDirectories`, `LoadGroups`, `LoadProjects` | the three queries of `evaluate_storage_alerts`; the third does not repeat the test on `updated_at` |
| `EvaluateOne` | `_evaluate_one` up to the flush, under `SELECT ... FOR UPDATE` or the insertion race in its savepoint |
| `Commit`, `Abort`, `LockExpires` | the commit of states and events; errors, deadlocks and kills; the 140 s of the lock |

Rows exist from the start with stamp 0, before any sample. Clock values are
unique to a commit of a new value: two database times that agree to the
microsecond are left out.

### QuotaAdjustment

One device rule and the row that mirrors it. State: `device` is what the device
enforces, `late` writes without an answer that it may still apply, `local` the
committed limit, `lock` the Redis lock with its token (`Orphan`: a token nobody
knows any more), `req` and `round` the API workers and collectors, `attempted`
the limits in committed attempt audits. A limit stands for the record of hard,
soft and grace values.

| Action | Code |
|---|---|
| `Load`, `Refuse`, `Acquire` | `adjust_group_quota` and its siblings up to `_quota_target_lock` |
| `RecordAttempt` | the audit of the attempt, committed before the device is touched; the commit expires what the session loaded |
| `WriteDevice`, `TimeOut`, `ReadDevice`, `ReadAfterTimeout` | the client's write and read back; after a timeout the read must match, nothing is repeated |
| `Store`, `Finish`, `Fail`, `Release` | the commit of row, alert and audit; the exits of the `with` block |
| `Kill`, `LockExpires` | death of the process; the TTL of 600 s, which nothing renews |
| `CollectDevice`, `CollectRow`, `CommitRound`, `AbortRound` | a collection of the same row |
| `ApplyLate`, `ForgetLate`, `ChangeByHand` | the device and its administrators |

`Written` models what SQLAlchemy leaves out of an UPDATE: a column whose new
value equals the loaded one. `Store` is one action because the row lock that its
UPDATE takes is held until the commit.

### QuotaConfirmation

One turn of the chat, its audit row and any number of API workers. State: `token`
is the Redis key of each proposal, `overdue` whether its `expires_at` passed,
`turn` the stream and its tool trace, `audit` the committed row (status and the
JSON detail), `known` what browsers have seen, `req` the requests with the copy
of the row each one loaded. `executed` and `went` are histories.

| Action | Code |
|---|---|
| `Propose`, `Persist`, `PersistTool`, `ShowCard` | `prepare_confirmation` inside a tool call, `_persist_running_audit`, the event that shows the card |
| `EndTurn`, `KillTurn` | `_terminal_message` from each of its callers; death of the process |
| `Reload` | `serialize_message`: card or outcome from the row |
| `Ask`, `Consume`, `Refuse`, `LoadAudit` | `decide_confirmation`: GET, compare-and-delete, ownership, `db.get` |
| `Cancel`, `Execute`, `CommitDecision`, `KillDecision` | execution, `_complete_confirmation`, commit of the route by `get_write_db` |
| `CardExpires`, `TokenExpires` | `expires_at`, then the TTL |

`Execute` is reduced to whether the adjustment went well: it commits on its own. A
closed client is noticed at a yield; the model allows that a moment earlier too.

`QuotaProposals` is what a user may rely on: a proposal that was seen is taken by one
decision, which executes it or closes it for good, and the outcomes on record are
true. The refinement mapping makes a proposal open while its key lives, taken
while a request between the compare-and-delete and the outcome names it (`Holds`),
and closed otherwise; `went` is the result; the record is what the detail of the row
names as outcomes. It lets outcomes disappear from the record, because the code does
(`confirmation_reload`).

### IncidentCorrelation

A book per correlation key: the cursor row, the incidents of the key named by
their bucket (`uq_incident_correlation_bucket`), their evidence, and the diagnosis
that the last commit made. `store` holds the committed books, `draft` what the
open transactions hold, `locked` the row lock of a cursor, `task` the events of each
task and where it is, `told` the notifications sent.

| Action | Code |
|---|---|
| `BeginScan`, `BeginBatch` | `process_vendor_event_evidence` up to its loop, which reads the newest events without evidence; `process_diskpulse_alert_evidence` and the forecasts, which come in a batch |
| `Lock` | `correlate_incident` up to the cursor: maintenance windows, `lock_incident_correlation_state`, the second look for the reference |
| `Step` (`Consider`, `Write`, `Commit`, `FailTask`) | admission, the choice of the incident, summary, cursor and diagnosis, `_append_evidence`; the commit, after which the notifications go out; the rollback |
| `Crash` | a killed task or the victim of a deadlock |
| `Arrive`, `Resolve`, `CreateWindow` | the sources, people, maintenance windows |

`IncidentLedger` knows neither tasks nor cursors: a piece of evidence is placed
once, with the newest evidence of its key when that is near and into its own incident
otherwise; it stays placed once committed, and only what is committed is announced.
The mapping reads the placed evidence from the draft of a key whose cursor is locked
and from the store otherwise (`InWork`), so that tasks appear to take turns; it maps
`Write` to `Place`, a commit or a rollback to that of the keys the task has locked.

### IncidentReview

State: `incident` (status and newest evidence time), `runs` the status of the run
under each idempotency key, `reviewer` and `person` what tasks and requests
loaded, `redis` the two task locks, `agentOn` the settings. `asked` is a history.

| Action | Code |
|---|---|
| `TakeLifecycle`, `TakeScheduled` | `review_incident_ai_task`, `review_due_incidents_ai_task` with their locks |
| `ReviewStep` (`InsertRun`, `AskModel`, `ReloadIncident`, `WriteReview`) | `review_incident`: the run is committed, the models are asked outside of any transaction, the incident is compared and written |
| `OpenIncident`, `CommitUpdate` | `update_incident` |
| `AddEvidence`, `SwitchAgent`, `NextSlot`, `KillReviewer`, `ReviewLockExpires` | what happens meanwhile |

### CapacityCollection

State: `group[g]` place, flag and reading; `total`, `trend`; `ledger` the rows of
`telemetry_collection_runs`; `audits` of each cluster; `lock`; `round` what each
execution has read, drafted and summed.

| Action | Code |
|---|---|
| `BeginRound`, `SkipRound` | the lock and `load_collection_snapshot`, for the scope of the request |
| `OpenCluster`, `CollectCluster`, `CommitCluster`, `FailCluster` | attempt audit and ledger row; `collect_postgres` with the conditions of `_apply_group_update`; commit or rollback |
| `ReportSuccess`, `ReportFailure`, `ReportUnsupported` | the audit of the result, then the ledger |
| `SumProjects`, `CommitTotals`, `WriteTrend`, `EndRound` | `finalize_project_totals` with its gate, `write_project_usage_metrics` |
| `KillRound`, `ExpireLock`, `EditGroup` | kills, the TTL, administrators |

### CapacityPrediction

State: `forecasts`, `curves`, `evaluations` committed; `run` the daily transaction;
`enabled` and `modelOn` of each candidate; `admin` the activation requests,
`rowsHeld` the row locks of their bulk UPDATE.

| Action | Code |
|---|---|
| `StartRun`, `ForecastTarget`, `BreakRun`, `ListCandidates`, `EvaluateCandidate`, `CommitRun`, `StopRun` | `capacity_forecast_daily_task`: one transaction for all targets, and the check constraint that may undo it |
| `CreateCandidate`, `SwitchModel` | creation with an enabled model; models switched on and off |
| `RequestActivation`, `DisableCandidates`, `CommitActivation`, `AbortActivation` | `activate_capacity_prediction_candidate` behind its gate |

### ProjectMembership, VendorEventIntake, VendorCatalogue, ChatTurn

| Action | Code |
|---|---|
| `LoadProject`, `FlushOwner`, `CommitOwner` | `update_project` and `ensure_project_owner_membership` |
| `SetRole`, `CheckRemoval`, `CommitRemoval` | the membership API |
| `AssignDirectory`, `GrantReaders`, `LoseGrant`, `BindGroup` | directories and groups; the grant follows in a commit of its own |
| `RoundReads`, `RoundInserts` | `_grant_collected_directory_readers` |
| `StartFetch`, `ReadGroups`, `ReadLists`, `StoreEvents`, `FailFetch` | `_collect_events` with `event_window_start` and `_persist_vendor_events` |
| `ShowEvent`, `PassTime` | the device and the clock |
| `StartDiscovery`, `KeepDefinition`, `SeedDefinition`, `LoadObserved`, `AddPlaceholder`, `ReadFaults`, `CommitDiscovery`, `FailDiscovery` | `discover`: built-in definitions, placeholders in savepoints, the closing of legacy incidents |
| `LoadKeys`, `InsertMissing` | `initialize_vendor_event_definitions` |
| `EditDefinition`, `ObserveCode`, `AttachCritical` | administrators, intake, correlation |
| `Send`, `ReadScope`, `ReadHistory` | the start of `stream_message`: message and audit, scope and history |
| `AnswerText`, `AnswerInvalid`, `AnswerFails`, `AnswerCalls` | what a model may answer, with the repair of arguments |
| `StartCall`, `CallSucceeds`, `CallFails`, `CallIsAnswered`, `CallNeedsConfirmation`, `QuotaToolMissing`, `AwaitConfirmation` | one call of a batch: executed, repaired, answered from an earlier result, turned into a card |
| `AgentCallSucceeds`, `AgentCallFails`, `AgentCallNeedsConfirmation`, `AgentFinishes` | the provider claude_code, whose agent calls tools itself within one completion: `execute_claude_code_tool` and `record_claude_code_tool` |
| `FinishRound`, `Summarize` | the limit of rounds and the final summary |
| `Disconnect`, `Die`, `LoseAccess`, `DeleteConversation` | what happens meanwhile |

A membership's `CommitOwner` writes the owner only when it differs from the one that
was loaded: SQLAlchemy leaves an unchanged column out.

In the catalogue a definition is a placeholder as generated, one with a description,
solution or severity of its own ("described"), a reviewed one of the program, or one
whose type, title or review an administrator wrote ("edited"). The first two are what
`_is_generated_placeholder` recognises (it looks at type, title and review), and a
discovery writes over them when they stand under a built-in code. Of the built-in
definitions 11 are unknown and pending themselves (`PendingSeeds`), and 27 rows of the
script's 730 are pending with a description of their own (`PendingRows`). Updates
write the columns that differ from the loaded ones, as the row is then (`Seeded`). A
row that was deleted and written again between the load and the update counts as the
same row, where the code would fail (`StaleDataError`). The switch `is_active` is left
out: the seeds do not name it, so no discovery writes it.

The turns of `AgentTurns` are those of an agent. It calls registered tools as often as
it likes, next to its text and without rounds or repairs; no earlier success answers a
call, only a failure that cannot be retried blocks its tool. Once a call has prepared
a card the text is dropped, and the card is shown when the agent has finished. `MaxRuns`
bounds the repetitions.

`ChatContract` is what is left of a turn without rounds, repairs, batches and audits:
it recalls earlier replies, runs calls that need no confirmation within the access of
the moment, each at most once in the turns that reuse results (`Reusing`, here those
without an agent), and ends once, together with a reply that speaks only of what it
was told; a turn that dies, or outlives its conversation, is
abandoned without one. The mapping takes the state of a turn from its audit row, or
"abandoned" when its generator is lost (`StateOf`), and what it knows and has run from
the histories `sources` and `ran` of its stream.

### ChatPage

State: `listed`, `active`, `shown`, `streaming`, `activeTurn`, `controller` are the
refs of the page (the list, `activeConversationId`, the status of each displayed
answer, the stop button, `activeTurnId`, `abortController`); `sending`, `opening`,
`removing` are calls that wait for an answer; `cards` are the cards that can be decided,
`deciding` the calls of `decideQuotaConfirmation` and what is still displayed of the
message and the card that each was called for; `stored`, `saved` are the server's
conversations and answers, `decided` the prompts with a decision that it has carried
out, `wire` the events of each response that are not read.

| Action | Code |
|---|---|
| `PressSend`, `ConversationCreated`, `CreationFails` | `send` up to `streamMessage`, with `createConversation` before it when no conversation is open |
| `ReadEvent` (`ApplyEvent`), `StreamEnds`, `StreamFails`, `RefuseReasoning` | `dispatchSseEvent` and `applyEvent`; the ends of `streamConversationMessage` and what `send` does about them |
| `PressStop`, `AbortLands` | `stop`, and the `AbortError` that it causes in `send` |
| `OpenConversation`, `ShowConversation`, `StartNewConversation`, `RemoveConversation`, `ConversationRemoved` | the handlers of the list; answers arrive in any order |
| `PressDecide`, `DecisionLands` | `decideQuotaConfirmation` before and after its await |
| `ServerStep` (`AcceptTurn`, `EmitDelta`, `EmitCard`, `EndStoredTurn`), `AnswerOpen`, `AnswerRemoval`, `AnswerDecision` | the server: events of a turn, which ends in the database before its last event is read; `decide_confirmation` |

The handler marks the message that was clicked as succeeded, whatever its turn has
stored: a card is shown while the turn still runs, and stays after a stop. When another
card or other messages have taken the place of what was clicked, the answer changes
only what is still displayed, or nothing (`ReplaceMessages`, `AttachCard`). What the
adjustment itself came to, failed or cancelled ones included, is on the card and not
in the status. An answer of `openConversation` may show a decision as an outcome or,
when the end of the turn has overwritten it, the card again (`AnswerOpen`; see
`confirmation_reload`).

### AliasStream

State: `said` is what the model has written in one completion, `buffer` the
restorer's `_buffer`, `told` what the page has been sent, `named` the resources with
an alias.

| Action | Code |
|---|---|
| `Feed` (`HoldLength`, `RestoreText`), `Flush` | `feed` and `flush` of `AliasStreamRestorer` |
| `BreakOff` | an exception of the provider, or invalid arguments of a call, in `stream_message` |

## Runs

| Run | Question | Instance | Distinct states |
|---|---|---|---|
| `alerts_and_chat` | Do two evaluators lose, repeat or mix observations; do edits of the rule mix breaches or events; do repetitions keep their distance? Do replies of the chat stay within access, calls run once, turns keep their contract? | 1 group; 2 evaluators that overlap, or 2 rules and 2 edits; 4 ticks; 2 turns, the second an agent's, 3 calls | 1.3 million |
| `evaluation_stages` | Does a refresh count once while rows change between the queries, and is the newest sample evaluated? | a directory and a project, 2 rules, 3 ticks | 347 thousand |
| `quota_and_incidents` | Serialisation, audit, storage, convergence and orphaned locks of adjustments; do books of incidents stay consistent, are references recorded once, events recorded? | 2 requests, 1 collector, 2 limits, 1 change by hand; 3 vendor events, an alert, a forecast, 2 tasks, a kill or a maintenance window | 106 thousand |
| `services_safety` | Seven components: confirmations, reviews, prediction, collection, catalogue, chat page, names in streams | see below | 820 thousand |
| `services_progress` | Four components under fairness: delivery, chat, membership, intake | see below | 225 thousand |
| `evaluation_project_twice` | Does a project total count once? | group, project, 2 ticks | violated |
| `quota_reconcile` | Does a reconciliation repair the row? | 2 requests, 1 collector | violated |
| `confirmation_reload` | Do outcomes survive the end of the turn? | 1 proposal, 1 request | violated |
| `incident_late` | Can late evidence form incidents of its own? | 3 vendor events, two of one bucket | violated |
| `review_overruled` | Does a review leave alone what people did? | 1 reviewer, 1 person | violated |
| `forecast_targets` | Do all kinds of target take part in an active candidate? | 2 targets, 1 candidate | violated |
| `chat_stop` | Is a turn marked that the user stopped? | 2 conversations, 1 prompt | violated |

In the two `services_` runs and in `quota_and_incidents` the components share no
state. "part" says which one
moves while the others rest in an initial state, so that the state spaces add up
instead of multiplying; invariants are conjunctions over the components, and the
fairness of a component only concerns behaviours in which it moves. `scenario` does
the same in `alerts_and_chat`. Actions that fire in no passing run:
`CapacityPrediction!BreakRun`, which is the disagreement of `forecast_targets` (the
other runs have no target that the constraint refuses).

What the properties say, by component:

| Property | Says |
|---|---|
| `ImplementsOutbox`, `OneSenderPerAlert`, `EventuallySettled` | delivery implements `AlertOutbox`; one attempt at a time per alert; every alert is settled |
| `OpenIffTwoBreaches`, `ObservationsInOrder`, `EventsAreDue` | an alert is open exactly after two breaches of one rule; nothing is evaluated twice or late; events belong to an open alert and repetitions keep their distance |
| `DatedRefreshesCountOnce`, `FreshSampleEvaluated` | one value is one observation; the newest sample is evaluated in the end |
| `OneAtATime`, `EveryWriteIsOnRecord`, `AdjustmentStored`, `LocalConverges`, `OrphanFreed` | requests are serialised; the audit comes first; a success is stored; row and device agree in the end; a dead lock is freed |
| `ExecutedAtMostOnce`, `OutcomeIsTrue`, `OutcomeFinal`, `ImplementsProposals` | a proposal runs at most once; the row tells what happened; once the turn is over an outcome stays, when no second proposal shares its row; the whole implements `QuotaProposals` |
| `BooksAreConsistent`, `ImplementsLedger`, `VendorEventsRecorded` | cursor, summary, diagnosis and evidence fit; correlation implements `IncidentLedger`: evidence is placed once, as if tasks took turns; critical vendor events are recorded in the end |
| `AskedOnce`, `RunsHaveReviewers` | a key is asked once; a running run has a reviewer |
| `OneTakesOver`, `JudgedOnce` | one active candidate from the first activation on; a window is judged once |
| `TotalsNeedEveryCluster`, `TrendShowsItsRound`, `LedgerIsHonest`, `ReadingsFitTheirGroup` | totals rest on audited successes; trend points are of their round; the ledger is true; a moved group gets no foreign reading |
| `AdminsAreAppointed`, `DirectoryOwnersGetAccess` | a former owner keeps no administration; directory owners have access again and again |
| `NothingPassedOver`, `EventsArrive` | what the device shows stays in reach of the window; it is stored in the end |
| `DiscoveryIsComplete`, `EditsAreKept` | a committed discovery has the built-in definitions; without an administrator only a discovery changes a definition, one that it loaded as a placeholder and under a built-in code; where the seed is pending a type, title or review written meanwhile survives |
| `ShownWithinAccess`, `CallsRunOnce`, `ImplementsContract`, `TurnsSettle` | replies are shown within access; a call runs once per turn without an agent; turns implement `ChatContract`, which lets them settle once; they do settle |
| `CutsDoNotShow` | a streamed answer reads as the whole answer would, however it is cut |
| `TurnsShownAtHome` | an answer is displayed in its own conversation only, and as succeeded only when it is stored as such or the server carried out a decision on its card |

### Disagreements between code and documentation

`PROJECT.json` quotes both sides of the seven that the violated runs show:

- a project total written between `_latest_alert_sample` and the project query is
  evaluated under two sample times, so one value can open an alert;
- a reconciliation has no commit between its load and its result, so the ORM omits
  the column when the device agrees with the value loaded, and an older limit
  committed in between stays;
- a decision committed before the stream has ended is overwritten by the end of
  the turn;
- two late events of one bucket violate the constraint on (key, bucket), and every
  scan of the cluster rolls back on them;
- a review and a request of a person that loaded the same incident both write
  their status;
- an active candidate draws curves for clusters and projects, which a check
  constraint refuses, and the whole daily run is undone;
- an accepted answer has the status "running" on the page until its first text, and
  a stop marks answers in the status "streaming" only: what is stopped earlier stays
  unmarked.

Others were met that no run shows; the models contain the behaviour:

- the agent of claude_code gets a repeated call executed again, writes of management
  tools included, where the other providers get the first result
  (`AgentCallSucceeds`; `src/docs/features/ai/chat/overview.md:71` promises the first
  result for every turn);
- a discovery writes over a built-in definition that it recognises as a placeholder by
  type, title and review, although an administrator or the script has given it a
  description of its own (`SeedDefinition`;
  `src/docs/features/storage/event-association/overview.md:112` has a discovery create
  placeholders for unknown codes only);
- workers killed between lease and result push `delivery_attempts` past the limit
  (`src/docs/features/storage/alerts/design.md:23`);
- a refused stranger, or a lost decision, consumes the key of a card that a reload
  still shows (`ai_quota_confirmation_service.py:82`);
- the three holdout windows of the activation gate overlap by 29 days
  (`src/docs/features/ai/capacity-prediction/overview.md:58`);
- the former owner of the second of two overlapping project updates keeps the
  administration, an update that keeps the owner it loaded does not restore that owner
  (`CommitOwner`), and a project administrator can demote another
  (`src/docs/features/identity/project-rbac/backend.md:5`, `:7`);
- an incident that gets critical evidence while a discovery is about to close it
  is closed (`src/docs/features/storage/event-association/overview.md:114`), and
  two discoveries write its timeline entry twice;
- the alias of a qtree is among the longest; when it ends with a Q and a chunk ends
  there, the Q is held back as the beginning of another alias and the rest is shown
  as it is (`src/docs/features/ai/chat/backend.md:154` excludes that aliases or parts
  of them are shown). `CutsDoNotShow` has the exception in its premise `Separate`;
- half of a cancelled reply becomes history of the next turn; a reply whose scope
  was lost before it was known is hidden for good.

### Bounds

*Delivery.* Two workers suffice for a race on a row, two alerts for a scan that
serves one row at a time to starve the other; two recipients for a failure in the
middle of the list. `Lease` 2, `TimeLimit` 1 and delays of 1 and 2 stand for 60 s,
45 s and 60, 300, 900 s: only their order matters to the guards, and the theorems
hold for all values. `QueueBound` 2 lets an alert have a duplicated message;
`AttemptBound` 3 bounds a counter that the code does not bound, above what the
attempts (2) and the one kill or lost message (`MaxCrashes`) reach together. An attempt
ends within its lease in the run, as with 45 s and 60 s: a result that comes after a
newer attempt's is the subject of `SettledRowsStay`, which assumes nothing about the two
times.

*Evaluation.* Two breaches open an alert and a repetition needs two more ticks, so
four ticks hold every kind of event; three levels of the ratio reach no level, the
first and the second. The third level is out of reach of the ratios and behaves as
the second does. Overlapping evaluators meet ratios above and below the rule and do
not overlap at the last tick, one at a time they meet all ratios and two edits; the
three properties are proved without these limits. `Evaluators` in
`evaluation_stages` is 1: when two evaluators overlap after a lost lock, and a round
restamps a value that a quota adjustment had stamped later, that value can be
evaluated under both stamps.
`DatedRefreshesCountOnce` is therefore a property of evaluations that do not
overlap: the run has one evaluator, `RefreshesCount` proves it for any number of
them of which at most one is evaluating at a time (`OneEvaluates`), for any number
of ticks, edits and rows. Groups follow the same query as directories and are left to
`alerts_and_chat`.

*Quota.* Two requests are enough to compete for the lock, two limits to tell a
stale one. `TtlSuffices` says that no request outlives its lock; `OneAtATime`
needs it, `EveryWriteIsOnRecord` and `AdjustmentStored` are proved without it, and
the two liveness properties are checked with it. So for requests that outlive the 600 s
the project shows what those two theorems say, and no more. Limits are
interchangeable, so the device starts at one of them; after a change on the device
itself requests come one at a time (`OneByOne` of `MCRecords`).

*Confirmation.* Two proposals are enough for one decision to write back a stale
copy of the other's entry, two requests for a double click. `SeveralProposals`
separates the provider that runs its own tool loop from the others. `OutOfOrder`
numbers the proposals as they are made.

*Incidents.* Three vendor events put one within the window of another and one into
a bucket of its own; the alert and the forecast make a second key, whose tasks need
only one event of each kind. `OneCategory` lets the events of one key arrive in a
behaviour: the keys share neither rows nor tasks that wait for them. `OneTrouble`
allows one kill or one maintenance window. Times lie on both sides of, and exactly
at, `Window` 2; a scan reads all three events.

*Review.* Two reviewers overlap on one key; one person; `TooManyReviews` leaves out
third runs, statuses past "acknowledged" and more than one of: slot, kill, evidence,
person, switch.

*Prediction.* Windows of one day from the third day on give three windows and a day
in which they overlap those of the day before. Two administrators, two candidates;
`TooManyCandidates` leaves out combinations (a switched-off second model, two bad
windows, a kill next to two activations) that only multiply states. The model looks for
a window once before it inserts it; the second look and the unique constraint of the
code are left out, so that `JudgedOnce` rests on the first alone.

*Collection.* Two rounds, three clusters of which one is unsupported, a project that
spans two; one move or one fault (`TooManyMoves`), clusters in order, the second
round starting after the first. The lock (240 s) expires when its round has ended or was
killed, since the pool kills a round after 180 s; a pool that enforces no hard limit is
outside of the model, and `TrendShowsItsRound` depends on that.

*Catalogue.* A built-in code, one whose seed is pending, and another; two discoveries
one of which begins under the other, the script next to one, two edits
(`TooManyImports`).

*Chat.* An ordinary turn and one of an agent, a detail view, a quota tool and a name
that is not registered; batches of two calls, two rounds, one repair of each kind; an
agent runs a call twice (`MaxRuns`). The turns overlap, or follow each other, only in
their simple forms (`TooBusyTurns`). `ShownWithinAccess` exempts conversations in which one turn was
written between the two looks of another (`raced`), in the run as in the theorem.

*Chat page.* Two prompts stream side by side, or one goes on while the other waits for
its conversation; three conversations, of which one is there at first; two calls of
`openConversation` whose answers change places. `TooManyClicks` leaves out
combinations of these. An event of each response waits while all this goes on
(`MaxWire`); the theorems hold for any number. A prompt has one decision under way at a
time, and a turn with a card is the only one, next to one other click.

*Names.* Texts of six letters in chunks of up to three, and every set of three
aliases: one of another kind and shorter, one whose beginning repeats, one that
overlaps itself.

*Membership.* Two users, two requests, one directory, four operations: an overlap of
two owner updates with a removal or a directory change. `AdminsAreAppointed` is about
owner updates one after the other; after an overlap it asks for nothing, because the
code keeps nothing then (see the disagreements).

*Intake.* Four events, two of them in the second request; nine ticks; an overlap of
3 that is exactly `ShownWithin` + `TaskLimit`, the edge of the assumption; one
failure.

`CHECK_DEADLOCK FALSE` stands where the bounds let a system stop: proposals expire,
days, rounds, operations and time are used up.

### Fairness

Liveness is checked under weak fairness of what the code schedules: Celery beat
starts the retry scan, the evaluation, the collection, the scan of events and the
intake every minute; a worker that is alive goes on; time passes; Redis drops
expired keys; a server goes on with a turn (`TurnStep`), whose client either reads
or disconnects. No fairness is assumed of producers, requests, the device, Feishu's
answers, administrators or kills. The collection round that grants memberships is
scheduled too (`RoundReads`, `RoundInserts`).

Strong fairness appears in `IncidentCorrelation` only. A scan begins again and again
although its Redis lock is taken by the scan before (`BeginScan`), and a task that
waits for the row lock of a cursor gets it, since PostgreSQL queues the waiters
(`Lock`).

Kills are finite (`MaxCrashes`, `MaxFailures`, `MaxLosses`). `FreshSampleEvaluated`
and `LocalConverges` state as their premise that evaluations or rounds stop being
aborted. A completed evaluation or round leaves its sample or reading behind
(`Completed`, `Committed`), so a step that completes without changing a row is not
taken for an aborted one, and the premise can hold. `TurnsSettle` exempts turns
whose process dies or whose conversation is deleted: nothing settles their audits.

## Proofs

All theorems hold for every value of the constants that satisfies the named
assumptions.

| Module | Theorem | Says | Rests on |
|---|---|---|---|
| `AlertDeliveryProofs` | `TypeCorrect` | `TypeOK` | `TaskInv` |
| | `SettledRowsStay` | a settled row is never touched again | `OwnerInv`: who may record a result |
| | `SentReached` | "sent" means that every recipient was reached | `DoneInv`, what an attempt has posted |
| | `LeaseExcludes` | if `TimeLimit < Lease`, `OneSenderPerAlert` | `LeaseInv`: a lease outlives its attempt |
| | `Refinement` | if `TimeLimit < Lease`, `ImplementsOutbox` | `LeaseInv`, `DoneInv` |
| `AlertEvaluationProofs` | `TypeCorrect` | `TypeOK`, drafts included | |
| | `InOrder` | `ObservationsInOrder` | `RowFollowsHistory` and `DraftInv`: state rows and drafts continue the history |
| | `OpenAlerts` | `OpenIffTwoBreaches` | `OutcomeFollowsRow`: row and last two observations agree |
| | `EventsDue` | `EventsAreDue` | `LogFits`: an open alert was triggered in the log, and what was told last is not newer than the row; each draft fits it |
| | `RefreshesCount` | if `[]OneEvaluates`, `DatedRefreshesCountOnce` | `CountInv`: a value that changed is newer than its row (`PendingIsOld`), what is carried or seen is behind the row (`CarriedFits`, `SeenIsBehind`), an idle evaluator carries nothing (`RestIsEmpty`) |
| `RecordsProofs` | `AdjustmentTypeCorrect` | `TypeOK` | `Shaped`, `Rounds` |
| | `Serialised` | if `TtlSuffices`, `OneAtATime` | `Holder`: who is inside has the token |
| | `OnRecord` | `EveryWriteIsOnRecord` | `Recorded` |
| | `Stored` | `AdjustmentStored` | `Unloaded`: the commit of the attempt expired the copy |
| | `TypeCorrect` | `CorrelationTypeOK` | |
| | `BooksConsistent` | `BooksAreConsistent` | one piece of evidence keeps a consistent book consistent (`CorrelatedIsConsistent`); drafts succeed the committed book under the cursor's lock (`BooksFit`) |
| | `RecordedOnce` | `WritesAreNew`: a task writes only references that its key does not have (no run repeats it, `ImplementsLedger` implies it) | the same |
| | `LedgerImplemented` | `ImplementsLedger` | `BooksFit`, `WritersHold`, and `OwnEvidence`: a book holds evidence of its own key only |
| | `NoticesTrue` | `NoticesAreTrue`: a notification is about a committed incident | `WritersHold`: who writes holds the cursor |
| | `ReviewTypeCorrect` | `ReviewTypeOK` | |
| | `KeyAskedOnce` | `AskedOnce` | `AsksHaveRuns`: whoever asks inserted the run of that key |
| | `RunsOwned` | `RunsHaveReviewers` | `RunsAreOwned` |
| | `RunsFinal` | a settled run is never touched again | `RunsAreOwned` |
| `ChatProofs` | `TypeCorrect` | `TypeOK` | `Shaped` |
| | `AtMostOnce` | `ExecutedAtMostOnce` | `Single`: the key, or one request, or the outcome |
| | `OutcomesTrue` | `OutcomeIsTrue` | `Truthful` of the row and of every loaded copy |
| | `FinalOutcome` | `OutcomeFinal` | `Alone`, `KeysFit`: a request that holds a proposal is alone with it and its key is gone |
| | `ProposalsImplemented` | `ImplementsProposals` | the same, and `WentFits`, `Truthful`: an outcome exists for closed proposals only |
| | `PageTypeCorrect` | `PageTypeOK` | `WireFits` |
| | `ShownWhereSent` | `TurnsShownAtHome` | `AnswersFit`, `WireFits`, `TargetsFit`: what is under way, answers of `openConversation` and events, fits the conversation it belongs to and what is stored; `DecidingFits`: a decision that is granted was carried out, and what it will mark is displayed |
| `CapacityProofs` | `CollectionTypeCorrect` | `CollectionTypeOK` | |
| | `TotalsWhole` | `TotalsNeedEveryCluster` | `Fits`: what a round claims to have collected is in the audit trail |
| | `TrendsOwn` | `TrendShowsItsRound` | `LockHeld`: the lock outlives a round, so no other round totals meanwhile |
| | `LedgerHonest` | `LedgerIsHonest` | `Fits` |
| | `ReadingsOwn` | `ReadingsFitTheirGroup` | `DraftsFit`: a drafted row is locked where it was measured |
| | `PredictionTypeCorrect` | `PredictionTypeOK` | |
| | `WindowsJudgedOnce` | `JudgedOnce` | `JudgedFits`: what the run drafted is judged nowhere else |
| | `DaysWhole` | `DaysAreComplete` (a day has the forecasts of all targets or of none; no run repeats it) | `FlushedFits`: a run commits only when no target is left, on its own day |
| | `OneSucceeds` | `OneTakesOver` | `HoldersFit`: one request at a time has disabled the candidates, and holds the active one |
| `VendorProofs` | `IntakeTypeCorrect` | `IntakeTypeOK` | |
| | `NonePassedOver` | `NothingPassedOver`, from `ShownWithin + TaskLimit <= Overlap` (part of `IntakeAssumption`) | `WindowFits`, `UnreadWasHidden`, `DeviceIsTimely` |
| | `CatalogueTypeCorrect` | `CatalogueTypeOK` | |
| | `DiscoveriesComplete` | `DiscoveryIsComplete` | `SeededFits`, `MadeFits`, `LoadedFits`: what a discovery has loaded, drafted or passed by, against what others committed or deleted since |
| | `EditsKept` | `EditsAreKept` | the same: what a discovery drafted over a definition was a placeholder when it loaded it |
| `AccessProofs` | `ChatTypeCorrect` | `ChatTypeOK` | `WithinBudget`: calls and rounds left |
| | `RepliesWithinAccess` | `ShownWithinAccess` | `SourcesKept`, `RepliesKept`, `ScopeFits`: while no turn raced another, what the model was told lies within the visibility that the turn keeps, and so does its reply |
| | `CallsOnce` | `CallsRunOnce` (turns without an agent) | `RanOnce`: a call that has run is in the cache of its turn |
| | `OutcomesFinal` | `OutcomesAreFinal`: a settled turn keeps outcome and text (no run repeats it, `ImplementsContract` implies it) | `AuditFits`: only a generator that is through has a settled audit or a reply |
| | `ContractImplemented` | `ImplementsContract` | `AuditFits`, `RanOnce`, and `InPhase`: nothing is told before the history is read, nothing emitted that was not told |
| | `MemberTypeCorrect` | `MemberTypeOK` | |
| | `FormerOwnersStepDown` | `AdminsAreAppointed` | `OwnerIsRead`: who holds the row of the project replaces the owner that it has read, unless changes overlapped |
| `AliasProofs` | `AliasTypeCorrect` | `AliasTypeOK` | `HoldsLongest`: what `HoldLength` holds back |
| | `CutsHidden` | `CutsDoNotShow` | `CutAt` and `Safe`: what was shown was made of a part of the answer, and no alias stands across the cut, whatever is written next (`HoldIsSafe`); such a text may be restored part by part (`RestoreParts`) |

None of the invariants is inductive as the property states it. "Sent means
received" needs to know that nobody else can mark the row; "two breaches" that the
row summarises the history that the model keeps only for the property; "at most
once" where a confirmation is between its key and its execution; "no reference
twice" that the holder of a cursor's lock is alone with the key, from its second
look for the reference to its commit; "nothing passed over" how long the device can
have hidden what a run has not read; "totals need every cluster" what the round
that is about to commit knows and that its lock keeps the other rounds out.

Every safety property that a run checks is stated by a theorem; only the liveness
properties below are left to TLC. The type invariants, limits of counters and queues
included, are theorems of each component, and no run checks them again.

The four refinements are proved step by step: the initial states map to initial
states, and each action of the implementation maps to an action of the abstract
specification or to a stutter. What makes the mapping work is an invariant each time:
of leases in delivery, of one holder per key in confirmation, of cursors in
correlation, where the second look for a reference has to hold until the commit, of
the phases of a generator in chat.

`CutsDoNotShow` is about what two nested recursions compute from a text: `Replace`
walks through the text, `RestoreText` goes through the aliases from the longest to
the shortest. That needs induction over positions and over sets of names. The
induction theorems of the library take an operator as a parameter, which the provers
cannot instantiate. `AliasProofs` uses sets in their place: `NatSets` (a set with 0
and every successor holds all natural numbers) follows from the pigeonhole facts about
finite sets; `Backwards`, `NatMin` and `NamesInduction` follow from it, and
`FromIsDefined` and `AfterIsDefined` show with them that the recursive functions exist.
The proof uses that `Resources` is finite (the code limits the aliases of a
conversation, services/ai_name_obfuscation_service.py:141) and that two resources have different
aliases (`_new_alias` draws until it finds one that is not in use). Overlapping aliases
are excepted by the property, not by the assumptions.

Liveness needs fairness and ENABLED, which are outside of the prover's reach:
`EventuallySettled`, `FreshSampleEvaluated`, `LocalConverges`, `OrphanFreed`,
`VendorEventsRecorded`, `TurnsSettle`, `DirectoryOwnersGetAccess` and `EventsArrive`
are only model-checked.

## Hazards without a property

`PROJECT.json` lists the hazards that properties are about. These are real too, and
no property covers them, because the code promises nothing about them, because the
effect is outside of what the models tell apart, or because a document is
contradicted as said above:

- `celery_tasks/tasks/storage_alerts.py:507`: the lease counts an attempt before it is
  known to end; attempts of killed workers are never compared with the limit. The
  design promises limited retries (src/docs/features/storage/alerts/design.md:23); the
  limit is compared in _record_delivery_result (line 535) only, which killed workers
  never reach. In the model attempts beyond the limit are reachable through Crash.
- `celery_tasks/tasks/storage_alerts.py:617`: the retry scan takes at most 100 due
  rows without an order; rows could starve.
- `services/quotaService.py:204`: a quota adjustment (or a newly registered row)
  becomes the newest sample on its own and hides the rest of the round from the
  evaluation. The design promises no evaluation of every round; FreshSampleEvaluated
  covers the newest sample only.
- `celery_tasks/manager/storagePulseMonitor.py:123`: a round restamps a row that a
  quota adjustment stamped later; two evaluators that overlap after a lost lock can
  count its one value under both stamps. The model with two evaluators shows it;
  DatedRefreshesCountOnce is checked and proved for evaluations that do not overlap.
- `services/quotaService.py:389`: the old limits of the audit and of the message are
  read before the lock: two adjustments in a row may both report the first old value.
  Only texts and summaries are affected; the model leaves them out.
- `services/quotaService.py:182`: the guard against limits below the usage compares
  with the usage of the last collection and is not repeated under the lock. The usage
  is not modelled: it would need a second device quantity beside the limit.
- `services/ai_quota_confirmation_service.py:294`: the key is gone when the owner is
  checked: a refused stranger burns the card. In the model as in the code a reload may
  restore a card that no decision accepts any more; the docstring of
  pending_confirmation_from_audit (ai_quota_confirmation_service.py:82) calls what it
  returns still valid.
- `services/ai_quota_confirmation_service.py:322`: the failure recorded for an
  unregistered tool is rolled back by the exception that reports it. The registry of
  tools is fixed while a process runs; the row keeps its card as after any refusal.
- `services/forecastIncidentService.py:1223`: the incident is read before, and written
  after, a concurrent resolve of people, agent or reconciliation: evidence may end on
  an incident that stays resolved. Visible in the model (the write keeps "resolved" of
  a Resolve after Lock); the documents promise no reopening for evidence in flight.
- `celery_tasks/tasks/forecast_incidents.py:1131`: two batches of alerts that lock the
  cursors of several assets in different orders deadlock; PostgreSQL fails one of them
  and diskpulse_alert_evidence_task does not retry, so its evidence is lost. Crash
  covers the victim; no property says that alerts are recorded, because the code gives
  no such promise for messages.
- `celery_tasks/tasks/forecast_incidents.py:1169`: a process that dies between the
  commit of the evidence and the enqueueing loses the notification and the review for
  good. The opposite order cannot happen (theorem `NoticesTrue`); nothing in the code
  sends a lost notification again.
- `celery_tasks/tasks/forecast_incidents.py:1188`: a scan reads the newest 500 vendor
  events of a cluster: a burst that is longer hides older critical events for good.
  The run has ScanLimit as large as the events; with a smaller one
  VendorEventsRecorded fails, and the source makes no promise beyond the limit.
- `crud/forecastIncidentCrud.py:183`: project_id IN (NULL, id) never matches the
  windows of no project: they do not suppress incidents of project assets. A
  comparison inside one query; the model has windows of one asset only.
- `services/incidentAiAgentService.py:352`: a reviewer that is killed, or whose commit
  fails, leaves its run "running" for ever, and the unique key keeps the review of
  this status from being repeated. RunsHaveReviewers is limited to histories without
  kills: the code has no recovery.
- `services/incidentAiAgentService.py:371`: SoftTimeLimitExceeded is an Exception:
  raised in a model call it is booked as a failed model and the loop goes on to the
  next one until the hard limit. The limit is inside one model call; the effect is the
  kill of KillReviewer.
- `services/forecastIncidentService.py:1475`: a release that loaded an unassigned
  incident removes the claim that another user committed meanwhile. The assignment is
  not modelled; the lost update is the one StepsAreAdjacent shows for the status.
- `celery_tasks/tasks/forecast_incidents.py:505`: a daily run is killed or fails after
  it has flushed part of its targets. No run checks it: the theorem `DaysWhole` shows
  it for all targets.
- `services/capacityPredictionGovernanceService.py:338`: the gate takes the three
  windows that end last; daily evaluations make them overlap by 29 days, where the
  overview asks for three disjoint ones. Not one of the runs: the windows of three
  consecutive days pass the gate in the model as in the code
  (src/docs/features/ai/capacity-prediction/overview.md:58).
- `crud/capacityPredictionCrud.py:163`: a candidate that is activated while the daily
  task runs leaves a day whose curves come from two candidates. Visible in the model
  (Active is read for every target); readers look up the curves of the candidate that
  is active when they read.
- `services/capacityPredictionGovernanceService.py:277`: the windows count days with
  samples, not calendar days: one gap in 180 days makes the three windows span other
  dates or none at all. The model has gapless histories; the windows would move, not
  lose their distance.
- `celery_tasks/tasks/storages.py:347`: when the answer to the commit of a cluster is
  lost, the audit trail has a success and a failure of one attempt, and its projects
  are not totalled. CommitCluster followed by ReportFailure reaches it; no document
  excludes it and the next round repairs the totals.
- `celery_tasks/tasks/storages.py:375`: a cluster of an unknown storage type counts as
  a success without a collection: its audit has an attempt and no result, and its
  projects are totalled from whatever its groups hold. TotalsNeedEveryCluster and
  LedgerIsHonest exempt these clusters.
- `celery_tasks/tasks/storages.py:93`: a group that was moved or enabled after its
  cluster was collected is totalled with the reading of an older round, or with none.
  The totals are meant to be of one round, but no document says so and the next round
  repairs them; the model keeps the readings of a total apart.
- `celery_tasks/manager/storagePulseMonitor.py:709`: a redundant volume is deleted
  after a look for groups that refer to it, while an administrator binds one. Volumes
  and qtrees are left out of the model; the foreign key stops the deletion and fails
  the cluster.
- `celery_tasks/tasks/storages.py:501`: the collection that a registration triggers is
  skipped for good when a round is under way. SkipRound is in the model; the next
  scheduled round collects the cluster.
- `services/project_membership_service.py:118`: an update validates the new role only:
  a project administrator may demote the owner or another administrator, whom only
  super administrators appoint. SetRole reaches it; the documentation reserves the
  management of administrators to super administrators
  (src/docs/features/identity/project-rbac/backend.md:5).
- `celery_tasks/tasks/storage_health.py:45`: the clock of a device runs ahead, or it
  shows an event more than five minutes late: the window has passed it and it is never
  stored. IntakeAssumption excludes it: the overlap is what the documentation relies
  on (src/docs/features/storage/cluster/performance-event-collection.md, section 5).
- `celery_tasks/tasks/storage_health.py:52`: one event with a time that cannot be
  parsed fails the collection of its whole cluster for as long as the device returns
  it. FailFetch stands for any error, but failures are bounded in the model; a
  permanent one would refute EventsArrive.
- `celery_tasks/tasks/storage_health.py:282`: an event group of OneFS that occurs
  again keeps its identifier, so that its later occurrences are taken for the stored
  one. Events are named by their identifier in the model: what the same identifier
  says later is outside of it.
- `services/vendorEventDefinitionService.py:493`: the built-in definitions are
  inserted outside a savepoint: of two first discoveries one fails as a whole. The
  model has it (SeedDefinition ends the request); the administrator repeats the
  request, and DiscoveryIsComplete holds of those that commit.
- `services/incidentReconciliationService.py:41`: critical evidence arrives between
  the look at an incident and its closing; two discoveries write the same entry of its
  timeline twice. Read without a lock in code and model: a critical incident can be
  closed, where the documentation keeps those open that have critical evidence
  (src/docs/features/storage/event-association/overview.md:114).
- `services/vendorEventDefinitionService.py:705`: two edits that are valid one by one
  violate the reviewed check together; the request answers that the code exists
  already (409). The fields of a definition are one value in the model.
- `services/ai_chat_service.py:1014`: an agent of the provider claude_code asks for the
  same call again while it answers: no earlier result stands in for it, and a write of a
  management tool is done twice. In the model; `CallsRunOnce` exempts these turns and
  `ImplementsContract` allows the repetition there.
- `services/ai_chat_service.py:1137`: when the arguments of a call are invalid the
  restorer is given up with the text that it holds back: the end of that text, "项目"
  say, is missing on the page and in the stored reply. In the model (BreakOff);
  CutsDoNotShow counts it as held back.
- `services/ai_chat_service.py:1239`: a read that succeeded before a write of the same
  turn is answered from the first result after it. CallsRunOnce states the other side
  of the cache; no document says what a read after a write returns, and the model has
  no content of results.
- `services/ai_chat_service.py:1483`: a diagnosis turn that is cancelled or fails
  stores the raw text that its stream suppressed. The model does not tell diagnosis
  turns from others; the text is visible only within the scope ShownWithinAccess
  covers.
- `services/ai_chat_service.py:532`: a conversation deleted during a turn: the
  terminal write fails, and so does the write of the failure; the audit stays
  "running" and the client gets no terminal event. In the model (Settle with gone);
  TurnsSettle exempts these turns.
- `services/ai_chat_service.py:592`: half a reply of a cancelled turn becomes history
  for the next one. In the model (Disconnect stores the emitted text, Quoted passes it
  on); the documents do not exclude it.
- `services/ai_chat_service.py:914`: a process that dies leaves the audit of its turn
  "running" for ever. Die is in the model; nothing in the code settles such an audit,
  so TurnsSettle exempts it.
- `src/frontend/src/pages/ai/AiChatPage.vue:511`: Send stays enabled while a
  conversation is being created, so that two streams may run side by side; the first
  to end clears `streaming` and `abortController` of the other (line 557), which cannot
  be stopped any more. An answer of `openConversation` that arrives in a stream replaces
  the messages, and the terminal event finds none of its own. Both are in `ChatPage`;
  `TurnsShownAtHome` holds with them, and no document promises more.

## Not modelled

- The audit trail: append-only rows, written inside the actions of the components.
- AI administration: configuration that one transaction replaces; the drawing and
  storing of aliases and the obfuscation of what the model is sent.
- Health and performance samples, their statistics, the dashboards, trends and
  reports: samples are appended without a cursor, the rest reads.
- Inventory administration: forms over one row each; what races with other
  components is in `CapacityCollection` and `ProjectMembership`.
- HTTP plumbing, authentication, device clients, the schema and its migrations:
  their transaction boundaries, constraints and locks are in the actions.
- Legacy alerting and file management: no longer scheduled, or remote shells.
- The pages of the frontend other than the chat: each loads, shows and submits single
  forms.

Inside the modelled components: alert rows without recipients, texts, cards of
notifications and permissions of routes; the check of a new limit against the use
of the row; several rows that mirror one rule; volumes, qtrees, users, aggregates
and pools of a round; the statistics of a forecast; the recovery check of
`reconcile_incident`; prompts and the rate limit of the chat, and its providers but for
the difference between those that answer with calls and the one whose agent makes them;
PostgreSQL
failing to serialise (every such failure is an abort).

The mapped share of the implementation is bounded by what the repository holds: of
its 47 thousand implementation lines 9 thousand are the seed data of one script and
18 thousand the frontend; most of the rest are queries, schemas, migrations, device
clients and texts, none of which keeps state of its own.

## Plan

The modules and abstract specifications of the plan are written: alert delivery
with its outbox, evaluation, quota adjustment and confirmation, correlation, review,
collection, prediction, membership, intake, catalogue, chat, chat page.

Everything safe that a run checks is proved. Abstract specifications of a review and
of a collection round would bundle what is proved of them property by property.

Next models: the recovery check of `reconcile_incident`; volumes and qtrees of a
collection round with the deletion of those that disappeared; the samples of health
collection.

