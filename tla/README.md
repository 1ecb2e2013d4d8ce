# finchat in TLA+

A verification project for finchat, a banking assistant on Google Cloud: a
FastAPI backend-for-frontend (BFF, `src/ui`), agents, a handful of data products
with their own services, an MCP server behind its own OAuth server, and the
governance around them. It holds TLA+ models of the parts where order, failure
and concurrency decide whether the system is right, TLC configurations that
check them on small instances, and TLAPS proofs of what matters most for every
size. `PROJECT.json` maps every definition to the lines it models.

## 1. The system and its hard parts

| component | state it keeps | operations | what is hard about it | module |
|---|---|---|---|---|
| **Session lease** `ui/session_lock.py` | one Firestore document per session (holder, expiry, pending turns), a table per process | acquire with a bounded wait, register a refused turn, drain, release | two stores with a fallback between them, calls that fail after they were applied, expiry under a live holder, crashes | `SessionLease`, `SessionMutex` |
| **Safety engine** `ui/safety_signals.py` | `SessionState`, rebuilt from rows of `turn_signals` | evaluate, advance, evidence_row, state_from_rows, classify | order of the branches, counts at their limits, a state rebuilt from lossy rows, a lock that must last | `SafetyEngine`, `SafetySession` |
| **Agent turn path** `ui/server.py` | requests in flight, the rows in BigQuery | agent_proxy, _agent_turn, _safety_screen, _safety_fold_concurrent, _safety_record | a read-modify-write with a 90 s call in the middle, turned-away turns counted by somebody else, best-effort reads and writes | `AgentTurn` |
| **MCP OAuth server** `products/mcp_auth` | clients, sign-ins, codes, refresh tokens, in memory and in Firestore | register, authorize, callback, exchange, rotate | single use across instances, failed writes, what an approval covers | `McpAuth`, `McpServer` (keys) |
| **MCP server** `mcp_server` | key cache, memo of callers | verify a token, gate the staff tool, read through the APIs | key rotation under a cache, a fetch that fails | `McpServer`, `CustomerView`, `KnowledgeSearch` |
| **Control events** `ui/control_events.py`, `infra/modules/controls_alerting`, `scripts/reconcile_controls.py` | log entries, evidence, workflow executions, ServiceNow rows | emit, route, dispatch, reconcile | two environments in one project, at-least-once delivery, a correlation key shared by many events, two reads at different times | `ControlEvent`, `ControlPlane` |
| **Steward** `products/steward/harness` | a durable workflow, its stored steps, a topic of reviews | plan, propose, wait for a person, apply | replay after a crash, reviews that come late or twice | `Steward` |
| **Loan approval** `products/loans` | loans, decisions, audit, in memory and in BigQuery; the workflow's execution | submit, assess, decide, notify | append-only rows beside a mutable status, versions counted per process, a callback with a timeout | `Loan`, `LoanRisk` |
| **Gateway clients and the analyst's desk** `ui/server.py`, `ui/gateway_client.py`, `ui/intent.py`, `products/*/agent*/gateway_llm.py` | counters, a cached credential, the conversation log | ask, route, answer, log, score | a refusal must not fall back and an outage must, in three clients and a chain of callers | `ModelPath`, `AnalystDesk`, `LiveEval` |
| **Sign-in** `ui/index.html`, `ui/server.py`, `ui/user_tokens.py` | the tab, stored refresh tokens, Google's grant | code exchange, refresh, sign-out | sign-out racing sign-in or refresh, calls that fail half way | `SignIn` |
| **Process, experience and transactions APIs** | BigQuery, an optional Bigtable copy | compose a view, decide the next action | partial failure through three layers, stale copies, a list cut short | `CustomerView` |
| **Pipeline and generator** `products/transactions` | Pub/Sub, a job's memory of keys, Silver, dead letters | publish, deliver, process, drain, cancel | at-least-once delivery against a deduplication that forgets and is not shared | `Ingest` |
| **Knowledge search** `products/transactions/agent` | none between searches | retrieve, fuse, rerank, degrade | five ways of not being answered ending in four fallbacks | `KnowledgeSearch` |
| **Evaluation loops** `scripts/canary_eval.py`, `eval/pipelines` | baseline, the agent's conversation memory | canary, managed judge, offline gate | green that was never established, a loss hidden by a rate, sessions shared between cases | `GoldenEvals` |
| **Agent registry** `scripts/agents_catalog.py`, `scripts/verify_agent_registry.py`, `scripts/agent_registry_bootstrap.py`, `policy/registry` | catalogue, generated projection, published snapshot | edit, verify, merge, publish | a gate that reads only what the catalogue names, a policy dated by the build | `AgentRegistry` |

How the core interacts. A request of `/api/agent` computes the session key, asks
`session_lock.acquire` for the session's lease, and is either turned away (429,
registered in the lease's document as pending) or goes on to `_agent_turn`: it
starts reading the session's rows, has the prompt screened by Model Armor, calls
the agent, has the response screened, and hands the turn to `_safety_screen`.
That folds in the pending turns, judges its own with the classifier and the
engine, writes an evidence row for each, folds in what was turned away
meanwhile, and only then is the lease given back in a `finally`. Everything the
decision depends on is in the rows of `turn_signals`; there is no other memory
of a session.

Around it: a signed-in user (`SignIn`) asks the analyst's desk (`AnalystDesk`),
whose every model call goes through one of the gateway clients (`ModelPath`) and
whose log is what scoring reads (`LiveEval`); an outside client gets a token
(`McpAuth`) and takes it to the MCP server (`McpServer`), whose tools read the
customer's view (`CustomerView`) and the knowledge base (`KnowledgeSearch`) over
data the pipeline brought in (`Ingest`). What a control notices on the way
leaves as a control event (`ControlPlane`).

## 2. The modules

A module that models a service has its state as VARIABLES, one action for the
code between two calls that leave the process, and a history variable only where
a property has to name an earlier event. Names follow the code. Operators under
a comment that begins "Mutation" are deliberate mistakes: each property is known
to fail when the definition after it is replaced by one. Every module with
state states one type invariant; those of `SessionLease`, `SafetySession` and
`CustomerView` are proved as theorems, those of `SignIn` and `McpServer` are a
part of their inductive invariants; for the other modules a part of the
inductive invariant (`Shapes`, `TurnTypes`, `DeskTypes`, `LoanTypes`, ...) says as
much of the types as the proofs need.

### SessionMutex and SessionLease

`SessionMutex` is what callers of the lease rely on: who is protected, who
waits, which refused turns are pending, which were handed out. `SessionLease` is
`session_lock.py`, and implements it.

A store is the Firestore document or one process's `MemoryBackend`; a record
`[holder, left, pending]` serves for both, a deleted document being the empty
record. `pc` follows one call of `agent_proxy`:

| action | code |
|---|---|
| `Arrive` | `acquire` up to its loop: the backend chosen, the deadline set |
| `Acquire` | one `try_acquire` and the test of the deadline; the sleep is the time until the next |
| `AcquireFails` | the `except`: memory from here on, the transaction applied or not |
| `Register`, `RegisterFails` | `register_concurrent`, its `except`, the write applied or not |
| `Drain`, `DrainFails` | `Lease.drain`, its `except`, the transaction applied or not |
| `Release`, `ReleaseFails` | `Lease.release` from the `finally`, its `except` |
| `Crash` | an instance stops: its requests and its table are gone |
| `Tick` | time passes for every lease, wait and turn |

Time is counted down, not read: `left` is what remains of a lease, `wait` of the
wait, `age` how long a request has held. There is thus no clock to bound.
`MaxTurn` says how long a turn may take; nothing ties it to `TtlS`, which is
the point. `lost` is a history variable: the entries emptied by a drain that was
applied and raised. A release that was applied and raised is a `Release`; one
that raised first is a `ReleaseFails`.

### SafetyEngine and SafetySession

`SafetyEngine` has no state: one turn's decision (`Evaluate`), the fold
(`Advance`), the row (`EvidenceRow`) and what a row gives back.
`SafetySession.Decide` is decide, record, advance, in the order of
`_safety_screen`; `state` is what the process has in memory, `rebuilt` what a
request reading the rows would start from, one row at a time as
`state_from_rows` folds them.

Confidences are naturals in ten-thousandths, one digit finer than `round(v, 3)`
keeps, so the rounding of the row is in the model (ties go up here and to even
in Python; no threshold of a configuration lies on one). Signals are told apart
as far as the engine tells them apart: a single `probe` stands for the security
signals, `scam` for the fraud signals, `distress` for the wellbeing signals
other than `self_harm`. Thresholds are constants with the assumptions under
which the rebuilt state agrees with the one kept: their order
(`OrderAssumption`) and that `med` and `high` have no more than three decimals
(`GrainAssumption`). The defaults satisfy both; `SAFETY_THRESHOLDS` may not.

### AgentTurn

Many requests of one session at once; composes `SessionMutex` and
`SafetyEngine`. It uses the abstract lease and not the detailed one: as
`SessionLease` implements `SessionMutex`, what `AgentTurn` relies on is what the
code of the lease provides. Its stores are Firestore (`Store`) and a table per
process (`Home`); `GetsLease` takes the lease of the first or, where it
raises, of the second, and `IsRegistered` puts a message into either or, when the
write was applied and raised, into both. An action is the code between two
awaits. `phase`, `at`, `pending`, `drained` are the mutex's; `step` follows
`_agent_turn` and `_safety_screen`; `memory` is the `SessionState` the request
advances; `rows` is the table, in the order of the inserts; `arrived` is the
timestamp of a registered entry, taken before the write is awaited; `written`
and `copies` (histories) are when the write took place and to which tables.
`faults` (history) collects the kinds of fault a behaviour has met, and
`MaxFaults` bounds how many kinds meet in one behaviour; each property says in
its first conjunct without which kinds it is claimed.

| action | code |
|---|---|
| `Arrive`, `GetsLease`, `IsTurnedAway`, `IsRegistered`, `GoesUnleased` | `agent_proxy` 983-998 |
| `ReadState`, `ReadFails` | `_safety_state_task`, `load_state` (rows `ORDER BY ts`) |
| `IsAnswered`, `AgentFails` | `_agent_turn` 1022-1076: agent and Model Armor; `_proxy` raising |
| `FoldsPending`, `DrainFails`, `Counts` | `_safety_fold_concurrent`, both times it is called |
| `Judges`, `RecordsOwn` | `_safety_screen` 929-951 |
| `Returns` | the response, and the `finally` of `agent_proxy` |
| `OutstaysLease`, `Crashes` | the lease runs out under the turn; an instance stops, with all it serves and its table |

### McpAuth and McpServer

`McpAuth` is the OAuth server on several Cloud Run instances. Codes and refresh
tokens go through the same functions of the store, so both are *tickets*; each
instance has its `memory`, Firestore its `documents`. The handlers are plain
functions in a thread pool: `Slots` are the threads, and each step of a slot is
the code up to the next Firestore call, which may raise (the store swallows it).
`Signin` has the steps of `/authorize` and `/callback`, `Exchange` those of
`/token`, `Stop` an instance that goes away, `Tick` time for the TTLs. `tokens`,
`uses` and `overlapped` are histories that a property names.

`McpServer` is the resource server: keys are numbered, `RotateSecret` stores the
next, `Restart` has an instance read it (or make its own), `JwksExpires` ends
the server's copy. `Call`, `Middleware`, `StaffGateKnown`, `StaffGate` are one
call; `verify` blocks the event loop, its fetch included, so a verification is
one action.

### ModelPath, AnalystDesk and LiveEval

`ModelPath` gives each of the three gateway clients as a table from the
deployment and the gateway's answer to what the client does (serve, raise, fall)
and what it counts. `AnalystDesk` is `analyst_ask`/`analyst_chat` on top: `Gate`,
`RouteGoverned`, `RouteDirect` (the chain of classifiers), `Credentials`,
`CaAgent`, `CaInline` (conversational analytics), `Kb`, `KbDirect`, `Rerank`,
`RerankDirect` (the banking agent and its tool: a model call that may ask for one search,
the reranker's, and the model again), `Semantics`, `Platform`,
`Search`, `Generate`, `GenerateDirect`, `LogEval`. `direct` is a history: every
call that went to Vertex without the gateway, with what had become of the call
to the gateway before it. `LiveEval` adds the scorers: `Sample` reads the turns
without a score, `Score` inserts.

### SignIn

The tab, its requests, Google's grant, the store. `SignInWithCode` and
`OnGoogleCred` are the tab's two ways in; `ExchangeCode`, `Save`, `Exchanged`
are `auth_exchange`; `EnsureAccessToken`, `Load`, `RefreshAccessToken`,
`Refreshed` are `auth_refresh` and its caller; `SignOut`, `BeginSignOut`,
`RevokeAtGoogle`, `Delete` are `auth_signout`; `Withdraw` is the user at Google.
`upset` is a history: the users whose grant has been disturbed since it was last
saved in peace.

### CustomerView

One account read through three layers by five channels (`mobile`, `mcp`,
`inline` for the MCP server with the process module loaded, `agent`, `deep` for
the health check). A read is an action (`ReadBalance`, `ReadRecent`,
`ReadLoans`, `SampleAccount`, `AgentBalance`), `Hop` is a hand-over from a layer to the next,
any of them may fail, and the bank moves in between (`Post`, `LoanMoves`,
`LoansCrowd`); the Bigtable copy is filled by hand and expires (`BackfillRows`,
`BackfillBalance`, `HotRowsExpire`). Each read fails in two ways: as an outage
(`AfterFailure`), or with a 404 the service gives about itself, which the code
takes for an account that does not exist (`After404`, `Strays`; `strayed` is the
history of it).

### Ingest

`Deliver`, `Expire` are Pub/Sub's; `Reject`, `Process`, `Insert`, `TimerFires`
the pipeline's stages; `Launch`, `Runs`, `Drain`, `Drained`, `Cancel`
`run_dataflow.sh`'s. A message is acknowledged when the stage that ends with the
memory of keys commits; the insert is a stage of its own.

### LoanRisk and Loan

`LoanRisk` is the scorecard. In `Loan` a call of the API is `Arrive`, then
`Handle` once per write (the row, the load job a failing insert is followed by,
the status, the audit); `Execute` is the next step of the workflow's execution,
its callback and timeout included; `Stop` ends a process and its memory.

### ControlEvent and ControlPlane

`ControlEvent` is the envelope: detector classes, correlation keys, severity.
`ControlPlane` follows an event from `Emit` through the log sinks and Eventarc
(`Carry`: writes evidence, delivers, repeats, loses) to the workflow's execution
(`Dispatch`: post, retries, the undelivered entry), and the daily job (`ReadEvidence`,
`Reconcile`), whose two reads are two actions.

### Steward

`Start`, `Work` (the next durable step of `steward_run`: plan, ask, wait, apply,
note, summarize; the plan may raise), `Crash`; `Look` and `Review` are the review page in
several hands. DBOS, which the code uses and does not contain, is modelled as
the code relies on it: a stored step is not run again, one that ran and was not
stored is. `Apply` counts the remediation and, apart from it, the scan
(`Outcomes`): run, or raised with the call taken or not, or skipped offline; the
entry keeps what was said of it (`rescan`).

### GoldenEvals, AgentRegistry, KnowledgeSearch

`GoldenEvals`: `Start` one of three loops, `AskLive`/`CallLost` the running
agent or `Respond` the offline one, `CanaryEnds`, `CanaryAdopts`, `ManagedEnds`,
`ManagedFails`, `OfflineEnds`; `StopAgent` empties the agent's memory.
`AgentRegistry`: `EditCode`, `EditEntry`, `Regenerate`, `Merge` (through the
gate and the policy), `Publish` (with or without the gate), `Midnight`. An agent
of the source has `tools` and, of them, those `listed` as names in a list, which
is all the scan reads; of an `unread` agent, whose name is computed, it reads
nothing.
`KnowledgeSearch`: `Question`/`AskLocal`, `Hybrid`, `Dense`, the four rerankings,
`LocalKbSearch`, and a failure action beside each. The shares of the fusion are
exact fractions. `KB_K_EACH` may be set to anything and is 8; the model takes 1
to 61, because from 62 on a passage one arm ranks first outweighs one that both
rank last, and `FusionFavoursAgreement` would be false.

### MC modules

`MCSessionLease`, `MCAgentTurn`, `MCMcpAuth`, `MCSteward`, `MCControlPlane` give
one module its instance, `MCSafetySession` the verdicts of a session. `MCServices`
and `MCBackOffice` put parts that share no state into one run: the part a behaviour is about is
chosen at its start, the others are parked in one initial state and take no
step, so that the state spaces add up and do not multiply.

## 3. What is checked

Each run is one question. Bounds are in its .cfg, with the reason where it is
not obvious; the named bounds (`Max...`) are guards of the model, not
constraints. Deadlock is checked in the lease's runs: the other systems stop
when their requests, turns or edits are used up, as the cfg says.

**lease** (34,503 states). Three requests, two on one process and one on
another, lease 2, wait 1, turn up to 3. Three requests are what it takes for a
late holder, its successor and somebody turned away; two processes are what it
takes for the fallback to differ from the document; 3 > 2 lets a turn outlast
its lease by one unit, and by more shows nothing new since nothing depends on
how late a late holder is. `OverlapOnlyByOverrun`, `UnexpiredLeaseKept` and
`RejectedTurnsSurvive` hold under every failure; `ImplementsMutex` is the
refinement; `SessionComesFree` is the liveness of the component: a second
request's wait ends, and an orphaned lease does not outlive its TTL.

**turns** (936,742 states). Three messages and one request without a message,
each in a process of its own; the classifier sees nothing or a probe that
worked, or is down; Model Armor may block (a hit that does not lock by itself);
two hits lock. One kind of fault per behaviour, as often as it likes. Three
messages are a holder, one turned away early and one turned away late; the lock
at two lets a burst of two reach it. The requests with a message are
interchangeable with their processes (symmetry; no liveness here).
`IndexesRunOn`, `BurstReachesLock`, `LockedSessionAnswersWithLock`,
`TurnedAwayCountsOnce`.

**turns_tables** (962,573 states). What one kind of fault cannot show: three
messages, two of them of one process, and any two kinds of fault of the tables
together (a lease or a registration in the process's own table, or in both, an
overrun, a crash). `TurnedAwayCountsOnce`: however the tables are mixed, no
message has more rows than tables it was put in. The mutant there is a drain
that does not empty what it read.

**mcp_auth** (1,172,377 states). One sign-in and two refreshes by two clients,
two redirects and two resources (one allowed), two people (one allowed), two
threads over two instances, one exception or one stopping instance. Two threads
are what a double spend takes; two instances are what makes memory and document
differ; the second refresh is the rotation of a rotated token. `BoundToApproval`,
`SpentOncePerCopy`, `RefusedForACause`.

**steward** (724,617 states). One run over every subset of three failing rules,
two steps allowed, with Dataplex or without, its calls free to raise; two
reviewers, three reviews, two crashes: a review sent twice for the first step
and one for the second, and a crash during recovery. `OrdersAreReviewed`,
`AppliedExactlyOnce`, and `RunsFinish` under fairness.

**control_plane** (1,647,900 states). Two events in two environments, which may
share a key; two faults; one run of the job with a window of its own tick and
the clock moving between its reads. `EachEventOnItsOwnPlane`, `NoSilentDrop`,
`ReportTellsTheTruth`.

**back_office** (2,029,959 states), four parts.
*Loan*: one loan (loans share nothing) decided by the workflow and by a person,
two processes, two calls, one fault, five applications at the borders of the
score, with and without their overdrafts: `StatusHasItsDecision`,
`VersionsOrderDecisions`, `AutoDecisionsFollowPolicy`. *Golden*: two evaluations
of three cases, one a refusal, by any of the three loops; three stand for the
seven, since with fewer than ten cases one flip exceeds every tolerance
(`GoldenAssumption`): `GreenIsEstablished`, `LossIsNoticed`. *Registry*: two
edits of two agents in two files, two days with a cadence of one, any tool
listed or not: `RegistryIsTrue`. *Search*: one question, any ranking of three passages by
either arm, two returned: `FusionFavoursAgreement`, `SearchDegradesOpenly`.

**services** (1,444,800 states), six parts. *Session*: four turns, with the
counts scaled to 2 and 3 (session limits 2, 3, lock 3, long session 4), so that
every limit is reached and passed within four; 11 verdicts with a confidence at
a threshold, between two, or just short of one, including a breach that only
rounding takes to the threshold; the clock inside and outside the velocity
window: `HitsLockSession`, `LockIsFinal`, `TrajectoryIsReported` and
`RebuiltCountsAlike`, which is exact about the one difference there is, that a
breach just short of `high` is a breach when it is read back (nothing reads that
counter today). *Desk*: one question with every
answer of the gateway to every call, two scorers with two runs each:
`DetoursAreKnown`, `ScoresAreOfAnswers`. *Sign*: two users, two requests in
flight, two grants each: `PersistentMeansRefreshable`, `SignOutForgets`. *MCP*:
two callers, two instances, two keys: `RotationIsFollowed`. *View*: two rows, four
moves of the bank, so that the bank may move twice before and twice within a
request: `OutagesAreTold`, `AdviceFollowsTheBank`. *Ingest*: two transactions
that may share a key, two jobs, two deliveries: `OneRowPerKey`, `NothingIsLost`.

Four runs end in a counterexample, and each shows that a sentence of the
repository is not what the code does:

* **lease_overrun**: a live holder is stolen from, since the timeouts of the
  calls made under the lease (175 s) add up to more than its 120 s;
* **turns_in_flight**: nothing goes wrong and nothing is found in any message;
  two are turned away while the classifier of the one in flight runs, the row of
  the second locks the session, and the one in flight is answered with the
  agent's answer;
* **mcp_auth_single_use**: a code redeemed at an instance that did not issue it
  can be redeemed again at the one that did, whose memory still has it;
* **refusal**: the intent router takes the gateway's refusal for an outage and
  sends the same question to Vertex directly.

The passing properties state the same matters with the exceptions the code
really has, so that nothing else may hide behind them: `OverlapOnlyByOverrun`,
`TurnedAwayCountsOnce`, `SpentOncePerCopy`, `DetoursAreKnown`.

**Fairness.** `SessionLease.FairSpec` assumes weak fairness of `Tick` (time
passes), of `Acquire(r)` (the polling loop is resumed by the event loop after
each sleep) and of `Finish(r)` (the release is in a `finally`, and the calls
before it have timeouts). No fairness is assumed of failures, arrivals, crashes,
registrations or drains. `Tick` waits for a holder that has used up `MaxTurn`,
which is where fairness of `Finish` is needed: without it time would stop at a
turn that never ends, and that turn's lease would never expire in the model
though it does in the code. `Steward.FairSpec` assumes weak fairness of
`Work(w)`: DBOS resumes a run after a crash, its waits end by their timeouts, and
crashes are finitely many. A plan that raises (no Dataplex client can be made)
is an end of the run as well. No fairness is assumed of any reviewer. The other
modules state no liveness.

### What the exceptions in the properties are

A property with an exception says exactly where the code makes no promise. The
ones a maintainer may want to know of, each reachable in its run:

* a registration that was applied and raised is made again in the process's own
  table, and the message may get two rows (`session_lock.py:251-261`); a lease
  granted by a process's own table excludes nobody elsewhere;
* two overlapping takes of one document both win (`oauth.py:240`, `:272`);
* a review sent twice or late is taken for the review of a later step
  (`harness.py:70`), and a crash between an effect and its record repeats the
  effect (`docs/18-durable-agent-harness.md:41-43` states the guarantee without it);
* a step is applied whether its scan was run again, raised or was skipped
  (`tools.py:97-106`, after `:92-94` "re-run the scan to verify"); what the entry
  says of a scan that raised leaves open whether it ran;
* the version of a loan decision is counted per process, so two processes may
  give one version twice, and `final_decision` is then not the status;
* overdrafts that could not be read count as none, and the loan may be approved
  without a person;
* the agent's gateway clients fall back directly from an unreachable gateway
  even where `AI_GATEWAY_REQUIRED` is set (`docs/26-controls-alerting.md:44` says
  otherwise), and the router's direct calls and an agent built without a gateway
  are not counted;
* a stream error of conversational analytics that is not recognised is logged
  as an answer and scored, and two scorers may score one turn twice;
* a failing save leaves a sign-in that is never permanent; a sign-out overtaken
  by a sign-in deletes its new token; one whose load fails revokes nothing, and
  one with an expired ID token does nothing and says ok;
* the MCP server's in-process view shows recent activity it could not read as an
  account without any, and so does every view whose service answered 404 of a
  route and not of the account (`sources.py:145-146`); a balance or loans answered
  that way are, outside the in-process view and the deep check, an account that
  does not exist (`overview.py:75-76` says "A loan service that is down should not
  cost the customer their balance");
* a transaction has a second row in Silver once a job forgot its key or a second
  job saw it; `docs/data-model.md:121` and `docs/03-data-flow.md:38` promise a
  MERGE that does not exist. Cancelling a draining job may drop elements that
  `run_dataflow.sh:112-114` says are in BigQuery;
* the registry's gate reads only files an active entry names
  (`verify_agent_registry.py:10` says "every ADK agent constructed in code"), of
  those no agent whose name is computed and no tool that is not a name in a list
  (`:106-118`; `docs/adr/0023-agent-registry-and-identity.md:100` says "A tool cannot
  be granted without a reviewed registry change"); its policy is dated by the build, and `--skip-verify` publishes anything;
* the canary's cases share one session of the agent with every caller that names
  none, and the managed run's session names are the same in every run, so
  `vertex_eval.py:115-126` ("Nothing changed but the model's sampling") holds
  only of a fresh instance; the first canary has no baseline and cannot fail; a
  refusal case that is dropped or not judged leaves the managed gate green.

## 4. What is proved

All for every set of requests, processes, stores, instances, events,
transactions, runs, users, questions, scorers, loans, agents, passages and
rules, every TTL, limit and bound; from the named assumptions of the modules
(ConfigAssumption, TimeAssumption, NowhereAssumption, TurnAssumption,
ThresholdAssumption, OrderAssumption, GrainAssumption, SessionAssumption,
SetsAssumption, SetAssumption, TtlAssumption, ViewAssumption, MaxKeysAssumption,
MaxGrantsAssumption, MaxRunsAssumption, MaxCopiesAssumption, DataAgentAssumption,
GoldenAssumption, RegistryAssumption, SearchAssumption, EventsAssumption,
EmissionAssumption, the BoundAssumptions and the NoneAssumptions), all of which
TLC evaluates. Two of them say something of the code and not only of the
model: `GoldenAssumption` has at most nine cases, the most for which one case
weighs more than the canary's tolerances, and `SearchAssumption` takes at most
61 passages of each arm.

| theorem | statement | module |
|---|---|---|
| `TypeCorrect` | `Spec => []TypeOK` | `SessionLease_proofs` |
| `OverlapIsOverrun` | `Spec => []OverlapOnlyByOverrun` | |
| `UnexpiredLeaseIsKept` | `Spec => UnexpiredLeaseKept` | |
| `RejectedTurnsAreKept` | `Spec => RejectedTurnsSurvive` | |
| `LeaseImplementsMutex` | `Spec => ImplementsMutex` | |
| `TurnsFollowMutex` | `AgentTurn!Spec => MutexSpec` | `AgentTurn_proofs` |
| `TurnsAreSerialized` | `AgentTurn!Spec => []MutualExclusion` | |
| `IndexesAlwaysRunOn` | `AgentTurn!Spec => []IndexesRunOn` | |
| `BurstAlwaysReachesLock` | `AgentTurn!Spec => []BurstReachesLock` | |
| `LockIsAnswered` | `AgentTurn!Spec => []LockedSessionAnswersWithLock` | |
| `TurnedAwayAlwaysCountsOnce` | `AgentTurn!Spec => []TurnedAwayCountsOnce` | |
| `EngineTypeCorrect` | `SessionSpec => []SessionTypeOK` | `SafetySession_proofs` |
| `HitsAlwaysLock` | `SessionSpec => []HitsLockSession` | |
| `TrajectoriesAreReported` | `SessionSpec => []TrajectoryIsReported` | |
| `RowsCarryTheState` | `SessionSpec => []RebuiltCountsAlike` | |
| `LocksAreFinal` | `SessionSpec => LockIsFinal` | |
| `TokensAreBound` | `Spec => []BoundToApproval` | `McpAuth_proofs` |
| `TicketsAreSpentOnce` | `Spec => []SpentOncePerCopy` | |
| `RefusalsHaveACause` | `Spec => []RefusedForACause` | |
| `DetoursAreAlwaysKnown` | `DeskSpec => []DetoursAreKnown` | `Services_proofs` |
| `ScoresAreAlwaysOfAnswers` | `LiveEval!Spec => []ScoresAreOfAnswers` | |
| `SignedInForGood` | `SignSpec => []PersistentMeansRefreshable` | |
| `SignedOutForGood` | `SignSpec => []SignOutForgets` | |
| `RotationIsAlwaysFollowed` | `McpSpec => []RotationIsFollowed` | |
| `ViewTypeCorrect` | `ViewSpec => []ViewTypeOK` | |
| `OutagesAreAlwaysTold` | `ViewSpec => []OutagesAreTold` | |
| `AdviceAlwaysFollows` | `ViewSpec => []AdviceFollowsTheBank` | |
| `NothingEverLost` | `IngestSpec => []NothingIsLost` | |
| `OneRowWhileRemembered` | `IngestSpec => []OneRowPerKey` | |
| `EventsStayOnTheirPlane` | `Spec => []EachEventOnItsOwnPlane` | `ControlPlane_proofs` |
| `DropsAreNeverSilent` | `Spec => []NoSilentDrop` | |
| `ReportsAreTrue` | `Spec => []ReportTellsTheTruth` | |
| `OrdersFollowReviews` | `Spec => []OrdersAreReviewed` | `Steward_proofs` |
| `EffectsAreExact` | `Spec => []AppliedExactlyOnce` | |
| `StatusAlwaysHasItsDecision` | `Loan!Spec => []StatusHasItsDecision` | `BackOffice_proofs` |
| `AutoDecisionsAlwaysFollowPolicy` | `Loan!Spec => []AutoDecisionsFollowPolicy` | |
| `VersionsAlwaysOrderDecisions` | `Loan!Spec => []VersionsOrderDecisions` | |
| `GreenIsAlwaysEstablished` | `EvalSpec => []GreenIsEstablished` | |
| `LossIsAlwaysNoticed` | `EvalSpec => []LossIsNoticed` | |
| `RegistryIsAlwaysTrue` | `RegistrySpec => []RegistryIsTrue` | |
| `FusionAlwaysFavoursAgreement` | `SearchSpec => []FusionFavoursAgreement` | |
| `SearchAlwaysDegradesOpenly` | `SearchSpec => []SearchDegradesOpenly` | |

`Services_proofs` and `BackOffice_proofs` hold the theorems of the services that
`MCServices` and `MCBackOffice` run side by side; each theorem is about the
specification of its own service, and no proof uses another service's.

Each module's proofs go the same way: an inductive invariant as a conjunction of
named parts, a lemma that the initial states satisfy it, one lemma per action
(or family of actions) that keeps it, and the property as a consequence.

* **Lease** (`LeaseInv`). That turns do not overlap is not inductive: nothing in
  it keeps a document from naming one holder while another runs. What does is
  that *a request that runs and has not outstayed the TTL is the holder its
  store names, with at least the rest of the TTL left* (`AgeOfHolders`), which
  needs that a request runs under the document or its own process's table only
  (`OwnStore`), so that a crash cannot take the table from under somebody else's
  request, and that a holder was written together with a lease
  (`LeaseIsWritten`). Two young holders of one store then are both the holder it
  names, and equal. The refinement uses the same invariant: a `Take` of the
  mutex needs that no protected request is on the store, and a store that is not
  busy has none.
* **Turns**. `TurnsFollowMutex` shows that each action of `AgentTurn` is a step of
  the mutex or leaves its variables alone; `TurnsAreSerialized` follows, since a
  `Take` is refused while somebody is protected (`MutexInv`).
  The four properties of the rows share `TurnInv`. None of them is inductive: a
  row is written from the memory of its writer, so what has to be carried is
  *that the memory of the holder tallies the rows*, turns, hits and lock
  (`Tallied`), from the moment it has read them. A read establishes it through
  `ReadTallies`: whatever order the timestamps put the rows in, the state rebuilt
  from them counts each once (`load_state` is a fold, and the fold is shown to be
  a walk along a permutation of the rows). A turned-away message has *tickets*: its
  rows, and every place at which it waits for one or is owed one. No step makes
  two of one, so there are never more than tables it was written to
  (`TicketsAreFew`); a drain or a count maps the new tickets one to
  one into the old ones. That none is forgotten
  without a fault (`NoneForgotten`) is a matter of the shared store alone. A
  holder's step, its phase at the lease and what it has counted go together
  (`Places`, `Progress`).
* **Engine** (`EngineInv`). The four invariants together are inductive once
  `RebuiltCountsAlike` is put field by field (`Alike`), so that a turn can be
  followed through both states: what `evaluate` fires is above `med`, so it
  survives the filter of the row, and a confidence above a threshold of three
  decimals is above it rounded (`GrainAssumption`). Each step advances both
  states by one turn, so that this proof needs no induction over the rows.
* **McpAuth**. `BoundInv`: a sign-in has one callback at a time, every record and
  every ticket bears what its sign-in was asked and by whom, and a grant copies
  its ticket. `SpentInv` counts, per ticket, what is left of its copies and who
  is taking one; a spend uses up the memory copy, or the document, or an overlap
  was noted. `CauseInv`: an honest request that goes away empty found no copy it
  could have reached, or met an exception.
* **Desk and scoring** (`DeskInv`, `LiveInv`). A counter is never behind because
  each direct call a process has made, *and each it has decided on*, is an element
  of a finite set no larger than the counters (`Counted`): the client counts
  before it calls. Who is on the way round the gateway, and why, is carried from
  the decision to the call (`Detouring`). A turn that two scorers hold, or that
  one holds although it was scored, is noted as contended (`Contention`).
* **SignIn** (`SignInv`). For a user nothing has upset, the store holds the
  token Google has granted and no sign-out of theirs is under way
  (`SavedInPeace`); a sign-out that nothing disturbed is the user's only request,
  and at each of its stages it has got as far as that stage says
  (`SignOutsForget`). Steps of other users keep both.
* **McpServer** (`McpInv`). With the types, `RotationIsFollowed` is inductive: a
  verification compares one token with what its instance fetched.
* **CustomerView** (`ViewInv`): at each step of a request what was lost so far is
  named, or was lost silently for one of the two reasons (`Told`), and what is in hand is the bank's or one of the named excuses
  holds.
* **Ingest** (`IngestInv`, `OnceInv`): a key remembered by a job has a record that
  landed, is being inserted or went down with a cancelled job; a key that only
  one job saw and none forgot has at most one record past the memory.
* **ControlPlane** (`PlaneInv`, and `Dated` for the report): sinks keep the
  environments apart, an execution carries its event's own entry, a row comes
  from an execution of its delivery, an execution's colour is earned. The report
  theorem needs finite sets of events, to compare the counts of two sets.
* **Steward** (`OrderInv`, `CountInv`): where a run is determines which topic
  entries are of the past, what it has seen and is due, that a decision in hand
  is about the step in hand, and what is applied was approved; the history and
  the count of effects differ at most by the effect being noted, and what was
  last said of the scan is so until it is noted (`ScansHere`, `Told`,
  `CountNoted`).
* **Loan** (`LoanInv`, `Sound(l)` of each loan). `RowFirst`: a status is only
  written by a call whose row is in the table. `ByPolicy`: what acts for the
  policy, in an execution, a call or a row, is what the policy says of a request
  that does not change once it is filed (`Filed`). `InTurn`: while one process
  takes the decisions of a loan, its memory of the loan's version is the number
  of decisions made (one less until the decision in hand is appended), the newest
  row bears it, and one call at most is between its row and its status.
* **GoldenEvals** (`GoldenInv`). A session named after a case holds no other case
  (`Alone`), rows hold what the agent can say (`Heard`), and an evaluation
  compares with the baseline it started from (`Fresh`). The rest is arithmetic:
  with at most nine cases, one case more or less moves a rate in thousandths
  past every tolerance (`RateSteps`).
* **AgentRegistry** (`RegistryInv`). Main passed the gate and the policy on the day
  of its merge, and its projection is the one of its entries; what the gate found
  equal to an entry is what it could read of the source (`VerifiedDescribes`), and
  no two active agents share an account (`OwnAccounts`).
* **KnowledgeSearch** (`FusionInv`, `OpenInv`). Two shares outweigh one
  (`TwoOutweighOne`); if a passage of one arm stood before one of both, the first
  such passage after it would stand right behind one of a single arm, which the
  order of the query excludes (`FusionLeads`). For the second property
  `ReorderPermutes` says that a reranking permutes the places of the candidates:
  the places the reply names, once each, and the others in their order, which is
  what the fold of `parse_rerank` keeps (`NumbersKeep`).

The library's theorems of induction take an operator as a parameter, which no
installed prover can instantiate. Induction over the naturals is available all
the same, as a fact about *sets* of naturals: `Induction` and `LeastOne` are
proved from the well-foundedness of `<` on them and `WFMin`, and with them that
the folds of the community modules (which are recursive functions) exist and are
walks along their sequences.

Only model-checked: liveness (`SessionComesFree`, `RunsFinish`), because liveness
under fairness and ENABLED are out of the prover's reach. Every other property
of a passing run is a theorem.

## 5. What the models leave out

* One session, one account, one loan where nothing is shared between several.
  The principal's 30-day count, which is shared, is a constant of a session.
* Time inside a call: `try_acquire` reads the clock before a transaction that the
  client may retry; the models take both as one step.
* A row is visible to the next read once its insert returned.
* The seven-day window of `load_state`, the seven days and the limit of a scored
  sample.
* What nothing reads back: reasons, severities in words, filters, rationale,
  latency, traces, token counts, notification texts.
* `AgentTurn` has no `SAFETY_FAIL_CLOSED` (in `SafetySession`) and no exception
  inside the screen: the calls it makes catch their own. The state is read
  before the agent's call or during it; the model takes any moment in between.
* A second search of the agent in one turn: `AnalystDesk` bounds a turn to one.
* `SignIn` has one window; the cache of verified ID tokens never outlives the
  token. `McpServer`'s memo of callers is by token.
* `ControlPlane` has no Chat card, no e-mail rate limit, no query of ServiceNow
  cut short at its ten thousand rows (`reconcile_controls.py:240`) and no error of
  ServiceNow with an empty message, which the workflow would take for none
  (`workflow.yaml:264`); `Ingest` has no TTL of zero (deduplication off); `Loan` writes the
  audit row and does not keep it, and has no counteroffer amount; `GoldenEvals` replays neither the
  loan nor the safety dataset of the offline gate, whose code is `LoanRisk` and `SafetyEngine`.
* `AgentRegistry` has no owner, no risk tier, no external client and does not
  truncate an account id to 30 characters.
* `KnowledgeSearch` has rankings for BM25 scores and distances; ties are ordered
  arbitrarily, as BigQuery does.

Six hazards of PROJECT.json have no property; each has its note there. Beyond
the bounds of the turns runs is the order of rows by a timestamp taken before
they were written, with confidences, over several requests (`ReadTallies` shows
that counts and lock do not depend on that order). The other five are modelled,
and are what the properties except because the code does not prevent it: the
best-effort state read and evidence write, a code whose write failed, two
versions of a loan decision counted by two processes, overdrafts that were not
read, and the loan workflow's callback that nobody posts to; seven other hazards
carry a note on the part of them that no property covers.

Not modelled at all, each with the reason in PROJECT.json: the loan agents'
prompts and tool wrappers, tracing, the AWS harness and the Apigee quota (no
state of their own), infrastructure, contracts and knowledge (declarations), the
one-pass scripts over recorded data, and the drawing of pages.
