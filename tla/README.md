# Custodian kernel: models, checks and proofs

Custodian puts a kernel of authority between an agent and what costs money or
cannot be undone: a request is autonomous, denied, or escalated to a human, whose
approval is then spent exactly once. This directory holds TLA+ models of that
kernel, the TLC runs that check them on small instances, and proofs (TLAPS) of
the properties that matter most for every value of the constants.

`PROJECT.json` is the index: components, runs, the lines of code each definition
translates (`map`), the mutants that show a property can fail, hazards, findings and
theorems.

## 1. The system

| Component | State it keeps | Operations | What makes it hard | What must hold |
|---|---|---|---|---|
| **Policy kernel** (`custodian/policy`, `types.py`) | the policy; reads the budget, the kill switch, 24 hours of executed spends, the downgrade table | `decide`, `record_successful_request` | gates whose order matters; rolling window; downgrades that expire; requests of several bands in one window | budget and envelope are not exceeded; a downgrade never widens authority |
| **Spend CLI** (`custodian/cli/cmd_request, approve, deny`) | rows of `custodian.db` | one process per command | reads, decisions and writes in separate statements; an SMS code not tied to a request; TTL | what is granted stays within the budget; an outstanding escalation is not discarded, is ruled on once; nothing is granted under the switch |
| **SQLite storage** (`custodian/storage`) | `authority_state`, `pending_approval`, `kill_switch`, `audit_log`, and two mirror files | one statement each; `set_kill_switch` and its mirrors | the mirrors are written after the row, in place; every workspace and the dashboard share one of them | every reader of the switch agrees |
| **Delegated executor** (`custodian/executor`) | `executor-capabilities/<id>.json`, `<id>.claim` | `handle` in a thread per connection; `approve`, `deny` in operator processes | threads, processes and crashes over shared files | an approval pays for one run, of the action it names; halted means halted; a re-send of an approved request executes it |
| **Codex guard** (`custodian/guards/codex`) | `codex-approvals/` | `evaluate_guard_action` in a process per tool call | concurrent processes, failing reads and writes, callers that name an approval | an approval yields one approved verdict, as granted |
| **Codex receipts** (`guards/codex/receipts.py`) | a file of lines under an HMAC chain, its key, its lock | `append`, `verify` | torn lines, a lock that times out on Windows, the mirror to the ledger | the chain does not fork; no verdict without a receipt |
| **Guards gate** (`guards/gate.py`, `cli/cmd_guards.py`) | `guards.json` and its backup | `enable`, `disable`, `load_state` | deaths between writes, damaged files, loose modes, power failures, a reader without the lock that reads twice | unreadable means deny; an armed guard does not go dormant |
| **Control policies** (`custodian/control`) | `approval-policy.json` under a lock | `decide`, `add`, `remove` | the charge of an automatic rule and the approval it leads to are two writes | max_uses is a bound; NEVER_AUTO kinds are never automatic |
| **Universal ledger** (`universal_ledger.py`) | a hash-chained SQLite table | open, upgrade, `append_with_receipt`, `verify` | concurrent writers, creators and upgraders; what SQLite does to numbers | what was appended verifies, receipt numbers have no gap |
| **Stripe spend skill** (`bundled_skills/payments/stripe-spend`, `authority/ledger.py`) | `authority.json`, the log, a pending approval and a code | reserve, charge, release, refund, earn, approve | money moves outside the lock; answers are lost and calls repeated | charged is at most reserved; refunded is at most charged; a code serves once |
| **Tool registry, @govern, session, middleware** | tamper snapshots; they read the mirrored switch | `invoke`, `govern`, `request` | first-run races, a switch turned meanwhile | no call starts under a kill; an edited function does not run |
| **Paladin** (`paladin/`) | vault, grants, audit chain, archives | add, edit, delete, grant, revoke, rotate, backup, restore, the egress gateway | processes that read without a lock and save with one; restore replaces files | the vault is whole; a grant follows its entry; a process does not fork the audit chain |
| **Remote enforcement** (`policy/enforcer.py`, `spark-enforcement`) | two flag files | `decide` with failover | partial failure | the local policy's gates are not skipped |
| **Operator panel** (`dashboard/api/operator.py`) | the home directory's kill switch file | kill, resume, reset, spend | writes one mirror and no row | it does not undo a workspace's kill unseen |
| Adapters, packs, processors, inference router, consoles, bundled skills, site, installer | little or none | text checks, API calls, presentation, installation | | |

How they interact. `custodian request` calls `decide` and keeps the result in the
database; the tool registry and the executor reach `decide` through
`kernel_gate`, which reads JSON files instead (`authority.json`,
`kill_switch.json`), one of which `custodian kill` mirrors the switch to. `@govern`,
sessions and the middleware read the same mirror. The harness hooks ask the guards
gate whether they are on, then the control policy, then the approval store, and
append a receipt, which goes on to the universal ledger. The skill's scripts are
processes of their own, started by agents, operators or the dashboard. There are no
callbacks into the kernel and no messages but the executor's one request and one
answer per connection: the components share files and rows, and that is where their
races are.

## 2. The modules

| Module | Models | Lines of code it stands for |
|---|---|---|
| `PolicyDecision` | `decide()`: routing, autorank, kill switch, envelope, margin, self-dealing, caps, as operators | `policy/*.py` |
| `PolicyKernel` | the engine with the state it decides over | `policy/*.py`, `record_spend` |
| `SpendCLI` | the commands as concurrent processes | `cli/cmd_*.py`, `storage/sqlite.py` |
| `Executor` | the executor's threads and the operator's processes over the capability files | `executor/*.py`, `policy/gate.py` |
| `GuardApproval` | guard processes and operator processes over the approval files, with the approval policy | `guards/codex/*.py`, `control/policy.py` |
| `OneShotGrant` | the abstract promise: issued for one action, granted, each grant used at most once, for that action | what the docstrings of both stores promise |
| `StripeSpend` | the skill's scripts as processes over its files, with Stripe and the operator's phone | `stripe-spend/scripts/*.py`, `authority/ledger.py` |
| `UniversalLedger` | opening, upgrading, appending to one ledger file, statement by statement | `universal_ledger.py` |
| `ReceiptChain` | the receipts' chain, composed with the ledger it is mirrored to | `guards/codex/receipts.py` |
| `PaladinVault` | the vault file, its temporary file and lock, under concurrent commands | `paladin/vault.py` |
| `Paladin` | the vault composed with the audit log, the gateway's threads, backup and restore | `paladin/audit.py, egress.py, backup.py` |
| `KillSwitch` | kill and resume over the row and the mirrors | `cli/cmd_kill.py, cmd_resume.py`, `storage/sqlite.py`, `dashboard/api/operator.py` |
| `GovernedCall` | the callers that read the switch, composed with it; govern's snapshot | `govern.py`, `session.py`, `middleware.py`, `tools/registry.py` |
| `GuardsGate` | enable, disable and the hooks' readings, with all that goes wrong around them | `guards/gate.py`, `guards/claude/hook.py`, `guards/hermes/runtime.py` |
| `*Proofs` | theorems and proofs about the module they extend | |
| `MC*` | the instances TLC checks | |

`PolicyKernel` and `SpendCLI` both extend `PolicyDecision`: the first is the
engine used as its comments ask (ledger and agent passed in, successes reported
to autorank), the second is the caller that exists. `Executor` and
`GuardApproval` both implement `OneShotGrant` under a refinement mapping stated
at the end of each (`KeepsPromise`). `ReceiptChain` extends `UniversalLedger`,
`Paladin` extends `PaladinVault` and `GovernedCall` extends `KillSwitch`: each adds
the actors that meet at the state of the first.

### How state and actions correspond to the code

**Executor.** `rec[c]` is `executor-capabilities/<c>.json` (`"absent"`: no
file), `claims` the `.claim` files; `pc`, `act`, `todo`, `asOf`, `best`, `seen`
are the locals of one thread inside `handle`, `find_pending_by_digest` and
`consume`. `Receive` is the arrival of a request, `Decide` the kernel's verdict,
`Scan` one iteration over the record files, `Present`, `AnswerPending` and
`Request` the three ways the scan ends, `Claim`, `Check`, `WriteConsumed` and
`Unclaim` the steps of `consume` (its `finally` included), and `Run` the tool.
`Consider` and `Rule` are the two halves of `approve` and `deny`: what they read,
and what they write. `Crash` takes all threads and leaves the files. `ran`,
`ranFor`, `approvals`, `contested` and `halted` are history: what each capability
paid for, how often it was approved, those that two operators had in hand at once,
and the threads whose request arrived under the switch.

**GuardApproval.** The same files for the guard's store, except that a
successful consumption leaves the claim file for ever, and that each evaluation
is a process of its own, which may die alone. `Mode` is `ApprovalPolicy.decide`
(`below` is what the older rules say when an `auto` rule is used up),
`Decide` combines it with the guard's verdict, `AutoRead` and `AutoWrite` are the
approval a process gives itself under an `auto` rule, and `Receipt` is the append
without which no verdict but `denied` is given.

**PolicyKernel.** `spent`, `killed`, `ledger`, `downgrade` are the session's
spending, the switch, the executed audit entries and autorank's table.
`ledger` holds running sums over time instead of entries, so that a window is a
difference. `moved` and `last` are history.

**SpendCLI.** `spent`, `killed`, `pending` are the rows; `clerk[c]` and
`oper[o]` hold the locals of a `request` and of an `approve` or `deny`. `code`
is the one live code of Twilio Verify (an external service, modelled from its
use in `backends/twilio_verify.py`). History: `granted`, `approved`, `lost` (what was
answered autonomous, what was approved, what a failure or a death left unbooked),
`ruled` (the rulings on each request), `halted` (clerks whose run began under the
switch), and what the races have touched: `behind` and `raced` (clerks that loaded the
budget before another's grant was booked, and what they granted), `late` (clerks that
found the row free before another filled it) and `disputed` (requests two operators
had in hand at once).

**StripeSpend.** `spent`, `lock`, `pending`, `code`, `killed` are the skill's
files and the switch's row; `charges` and `refunds` sum the audit log;
`intents` and `refunded` are Stripe's. A process goes through `Vet` .. `Judge`
(spend.py and spend_v2.py up to the verdict), `LookPending` .. `SendCode` (an
escalation) or, in approve.py, `ReadPending`, `DropExpired`, `CheckCode`,
`DropCode` and `Act`; both then share `Reserve`, `Save`, `Charge`, `Release` and
`Log` (`execute_spend`), and an approved refund is `VetRefund`, `Refund`,
`LogRefund` (`execute_refund`). `Charge` and `Refund` may be carried out without
an answer, and are repeated under the same idempotency key. An amount is an integer or
`NaN`: `Above` and `Plus` are `>` and `+` on such, so that a NaN passes every
comparison, becomes the total, and is wiped to 0 by `max(0.0, nan)` in `Release`.
`sent`, `used`, `unknown`, `unlogged`, `forgotten`, `wiped`, `crossed` and `shared` are
history.

**UniversalLedger.** `table`, `genesis`, `rows` are what the file holds, `writer`
SQLite's write lock. `conn[p]` is a process's connection and the locals of
`__init__` and `append_with_receipt`: `Connect`, `Columns`, `Alter`, `Install`,
`Select` open and upgrade, `Begin`, `Tip`, `Number`, `Insert` append under BEGIN
IMMEDIATE, `Fail` is a statement that raises and its rollback. A row's `exact`
says whether the amount SQLite gives back is the one that was hashed.

**ReceiptChain.** `key`, `chain`, `ended`, `flock` are the receipts' files and
lock. `LockThreads`, `Lock`, `Records`, `Key`, `Fill`, `Write` are the steps of
`append`; `MirrorOpen`, `MirrorWrite` and `MirrorClose` the ledger's append made
before `Unlock`. `Tear`, `WriteFails` and `WriteFailsUnseen` are the ways a write
may end. `answered`, `joined` and `stalled` are history.

**PaladinVault, Paladin.** `vault`, `temp`, `lock` are `vault.paladin`, its
temporary file and the flock; `mem[p]`, `key[p]` are what a command has decrypted.
A command opens and changes (`Add` .. `RotateMaster`), saves (`BeginSave`,
`FillTemp`, `FinishSave`) and records (`ReadTail`, `AppendRecord`). `log` is
`audit.jsonl`, `glock` the lock within the gateway's process; `ThreadReadTail` and
`ThreadAppend` are a gateway thread's audit append. `CopyVault` and `Seal` are
`create_backup`, `MoveVaultAside`, `MoveLogAside`, `PutVault` and `PutLog`
`restore_backup`.

**KillSwitch, GovernedCall.** `row[w]` is the row of a workspace's database,
`mirror[f]` each `kill_switch.json`. A command is `Kill` or `Resume`, `CommitRow`,
`OpenMirror` (which truncates), `FillMirror` or `MirrorFails` for each mirror, and
`Report`; the panel's begin at the home directory's mirror. `settled` is history:
what the last command that finished undisturbed with a mirror made of it.
`source` and `snapshot` are the version of a function's file and the one its
snapshot names; `Compare`, `PrepareSnapshot`, `ReplaceSnapshot` are
`_tamper_check` (a snapshot locked through all retries is taken for none), `Evaluate`
the reading of the switch and the policy's answer, `Return` the end of the call.
`PanelSpend` is a spend of the dashboard's panel and `PanelStops` its own reader of the
switch, which takes a file it cannot parse for a released one. `trusted` is history:
the snapshot the first runs left, until a call replaces it.

**GuardsGate.** `main`, `bak` are the two files, `synced` what they held when the
directory was last synced, `loose` its mode. `Begin` takes the lock and loads,
`Sync`, `Replace`, `Backup`, `Report` write and end. A hook's check is `Check`,
then two readings (`ReadMain`, `ReadBackup`: `_fail_closed`, then the guard's own
flag), and `Defer` when it finds itself dormant. `Rot`, `Loosen`, `Tighten`,
`OperatorDies`, `PowerFails` are the world. `armed`, `kept`, `held`, `rotted` are
history.

### Abstractions

- One step is one file-system operation, one SQL statement or one remote call.
  `os.replace` is atomic; a single SQLite statement is too. A file written in place
  is truncated in one step and filled in another.
- A digest stands for everything it binds and is collision free. Seals, keys
  and HMACs are left out of the approval stores: records are only written by
  this code.
- Amounts are integers; a request whose amount is not finite is marked so
  (`PolicyDecision`), and NaN is an amount of its own in `StripeSpend`.
- `PolicyKernel`'s `Ask` decides, books, writes the audit entry and reports to autorank
  in one step: it is an external user of the engine, as its comments ask for one. That
  `cmd_request.py` does less, and in several statements, is `SpendCLI`.
- Requests that are refused before any state is read change nothing and are
  left out (bad arguments, unknown tool, amount not positive).
- The workspace is scaffolded: the authority row exists. (Without it the CLI
  does not book at all, `cmd_request.py:163`.)
- `SpendCLI` reads the switch's row only; the mirrors and their readers are
  `KillSwitch` and `GovernedCall`. Ledger events of the CLI are the clerks'
  appends of `ReceiptChain`.
- `latest` in place of an approval id, and enforcement mode `open`, are left
  out of the guard; its store is asked with an id or none.
- In the guard the operator adds no second `auto` rule for an action whose first
  one was withdrawn (a new rule starts a count of its own).
- Of an action's rules the guard's policy knows the newest and what the ones below it
  would say, which may be anything but `auto`.
- The executor, the receipts and the gate use POSIX locks, except where a
  constant says otherwise (`MayStall`: Windows).
- Paladin has one agent; grant expiry, patterns, and the second audit record of a
  rename are left out; an import is several adds, and `add --force` an edit that
  renames nothing. A torn last line of its audit log, which makes every later append
  fail, and legacy archives are left out.
- Stripe's minimum amount and rounding to cents are left out: every finite amount asked
  is payable. A run of `spend.py` that the switch stops writes no default file.

## 3. What is checked

Bounds are constants of the instances, named in the cfg files.

| Run | Question | Instance | Why it is enough |
|---|---|---|---|
| `executor` | Does an approval pay once and for what it names, is a settled record final, does the switch hold, is `OneShotGrant` implemented? | 2 threads, 2 capabilities, 2 operators, an action that needs approval and one that does not, TTL 0, clock to 1, failing reads and writes, 1 crash | every race of two consumers, of two rulings, of a consumer and a ruling, of a consumer and the clock, a crash at each step |
| `executor_resend` | Is an approved capability eventually executed? | 2 threads, 2 capabilities, 1 operator, TTL 0, clock to 1, a gate that may fail | liveness; both threads may be sent the same request at once |
| `guard` | Is an approval used once, granted by somebody, and by an operator where it must be? | 2 processes, 2 operators, 1 approval, an action of a NEVER_AUTO kind, TTL 1, clock to 2, 1 death, every rule | all races over one record, failures of each read and write |
| `guard_rules` | Is an `auto` rule bounded, does an approval serve its own action only? | 2 processes, 3 actions (escalated, autonomous, forbidden), 2 approvals, max_uses 1, no operator but the one who sets the rule | any caller may name any approval; the second use comes right after the bound |
| `policy` | Are budget and envelope kept, does autorank widen authority by itself? | 2 agents, requests of each gate, 5 bands with the preset's shape (the highest asks for an approval, the lower ones do not), day of 2, TTL 1, clock to 3 | the window opens and closes; downgrades expire, are replaced, and lead from a band that asks to one that does not |
| `spend` | Is what is granted booked and bounded, is an escalation kept, ruled on once, and is nothing granted under the switch? | 2 clerks, 2 operators, 2 requests (small, large, not finite), every failure and death, ageing | each statement of a request against each of another, and of two approvals or denials of one row; the budget runs out at the second grant |
| `stripe` | Is money charged within the cap, refunded within the charge, and a code good for one execution? | 1 agent, 2 operators, cap 1, a spend of each script, one of NaN, a refund and an earning, 3 requests, TTL 0, clock to 1, lost answers, deaths, resets | the agent's spend meets two approvals at the cap; a refund can follow a spend or an earning, and two approvals can carry it out or use its code at once |
| `records` | Do both chains verify, are answered decisions on record, is the mirror in order? | 2 guards, 1 clerk, an old file of 1 row, 3 decisions, 3 events, every failure, tear, death and stall; once a guard has gone on without the lock, a run is followed to 2 decisions and 2 events (`StallBound`) | two openings race in each step of the upgrade; the third decision meets a line the second has joined to the first |
| `paladin` | Is the vault whole, do grants follow a rename, does a process keep its chain? | 2 clerks, one of whom may restore, 2 names, 2 keys, 1 entry, 2 gateway threads, 3 commands, 1 death, 2 calls | three commands are: make, rename or rotate, and restore or overwrite; any may die at any step |
| `govern` | Does a kill that was reported stop calls everywhere it reached, are stores left agreeing, does the snapshot catch edits and nothing else? | 2 workspaces and the home directory, 2 operators or panel requests, 3 commands, 1 fault, 2 callers (of a kernel surface or the panel), 2 calls, 1 edit, a snapshot that may stay locked | two overlapping commands and one after them; two first runs with an edit between |
| `gate` | Do the commands keep the files readable, does an armed guard ever defer? | 2 guards, 2 operators, 1 hook, 4 commands, 2 checks, 3 faults | arm, re-arm, disturb; a hook between any two steps; main and backup may both rot |
| `guards_rebuild` | Does enabling a guard rebuild a state that could not be read? | as `gate` | **violated** (finding) |

`CHECK_DEADLOCK FALSE` throughout: clock, crashes, commands and requests are
bounded, and a system that nobody asks anything may stop.

No run and no theorem limits the number of actors to make a property hold, except where
the table of theorems says so. Where a race of the code does break a promise, a history
variable marks exactly what that race has touched, the property speaks of all the
rest, and the promise it weakens is in the table below. What the properties say, and
what they had to leave open because the code does:

- `SingleUse` of the executor: each approval pays for one execution at most, always;
  one capability for one, unless two operators had it in hand at once (`contested`).
  `FinalStaysFinal` and the last conjunct of `RunsArePaidFor` leave out the same ones.
  The guard's `SingleUse` has no such exception.
- `ApprovedGetsExecuted` leaves out a capability while another live record of the same
  action, at least as recent, hides it (`Hidden`).
- `GrantsWithinBudget` adds to the budget what was lost to a failure and what clerks
  granted that had loaded the budget too early (`raced`). `EscalationNotReplaced` leaves
  out the clerks that had found the row free too early (`late`), `RuledOnce` the
  requests two operators had in hand (`disputed`).
- `WideningIsThePolicys`: a downgrade makes autonomous what needs an operator without
  it only where the policy's lower band is not the stricter of the two; autorank adds
  nothing of its own. Under the preset, and under the instance, it does widen.
- `CapKept` bounds what Stripe charged by the session cap, plus charges whose
  reservation was given back although the charge had landed (`unknown`: both
  attempts timed out), plus totals dropped by a reset or by a default file
  (`forgotten`), plus what NaN dropped from the total or let past it (`wiped`). The sum
  of the charges is counted in units (`Charged`), a cardinality the prover can reason
  about where it cannot about a fold.
- `RefundsCovered` leaves out refunds of which no record was written (`unlogged`) and
  payments two approvals refunded at once (`crossed`), `OneCodeOneRun` codes that one
  approval accepted while another was accepting them (`shared`).
- `LedgerSound` is the conjunction of: `verify()` accepts the file unless a row's
  amount does not survive SQLite (or the file is old and was never upgraded),
  and receipt numbers have no gap. `ChainHolds`, and the order `MirrorInOrder`
  speaks of, except guards that went on without the lock (Windows, two seconds).
- `MirrorInOrder`: the ledger has each decision once at most, and in the chain's
  order those whose line can still be read. A decision written onto a line without
  its newline is answered and mirrored although its own line cannot be read any
  more (`joined`); an earlier form of this property said it could, and was refuted
  by the attempt to prove it, with three decisions.
- `AnsweredIsRecorded` allows the loss a line without its newline causes: the next
  line joins it and both are unreadable; the append after that fails, and so the
  guard denies.
- `GrantsFollowTheEntry` speaks of exact grants, in the vault, the temporary file,
  every document in memory and every archive.
- `NoForkWithin` is about one process. Two processes do fork the audit chain:
  `paladin/audit.py` documents it, and `verify` reports it.
- `NothingRunsUnderAKill` takes a call to run from the moment it has read the
  switch; a kill after that does not stop it. It speaks of kills that reported
  undisturbed: `settled` excludes mirrors that could not be written (the command does
  not say so) and commands that overlapped one of which was a resume. The panel's
  reader is held to it only while the file can be parsed.
- `SettledStoresAgree` is about what undisturbed commands left and others, overlapping
  or failing, must not spoil; it promises nothing of those.
- `EditsAreCaught` leaves off when a call has found the snapshot locked through every
  retry and takes its own in its place.

### Fairness

Only `executor_resend` uses it (`FairSpec`). Weak fairness of each thread's steps:
the operating system schedules a thread that can go on, and no step of a handler
waits for another. Strong fairness of `Receive` for each action: the promise in
`service.py` is conditional on a client that sends the request again, and the
server accepts any number of connections. The operator, the switch and the clock
owe nothing: a capability may expire, the switch may be engaged, or a record made by a
concurrent send may hide it, and the property allows all three. The other components promise nothing of the kind: a command
or a hook runs once, to its end or to its death.

### Finding

**Enabling does not rebuild the gate** (`guards_rebuild`). The messages of
`guards/gate.py:193` and `:201` say of a damaged state "Re-run 'custodian guards
enable <name>' to rebuild." `enable` loads the fail-closed sentinel, sets the
guard's flag in it and writes it back, marker included: the command reports success,
the file can be read again, and every hook goes on denying. (The messages are about a
damaged or misshapen file. TLC's shortest trace reaches the sentinel through a loosened
directory, which `load_state` answers alike; the step that writes it back is the
same, `gate.py:365-371`.)

### Where the code differs from a stronger property

Each of these is what the code, a comment or a document promises and a race or a value
breaks. The passing runs include the case and exempt what it touches; take the
exemption out of the property, or make the change in the first column, and TLC shows the
trace.

| Change | Promise | Because |
|---|---|---|
| `executor`: `contested` not exempt | a capability pays once (`capability.py:342-344`), a denied or consumed record is final | `CapabilityStore.approve` reads, checks and writes without a lock and `consume` removes its claim file, so an operator's late write makes a consumed or denied capability approved again. The guard's store keeps the claim file and is proved immune to the second use. |
| `executor_resend`: `Hidden` not exempt | re-sending an approved request executes it (`service.py`) | two concurrent sends create a capability each; the scan prefers the newer, so an approval of the older is not found until the newer is ruled on or expires |
| `executor`: `GateCanFail = TRUE` | `HaltedDoesNotRun` | with unreadable authority or policy files `kernel_gate` escalates before it has looked at the switch (`gate.py:65`) |
| `policy`: a downgrade never makes autonomous what needs an operator | autorank only ever narrows, under any policy (`autorank.py:119-124`, `evaluator.py:90-94`) | the downgrade replaces the routed band's configuration, and in the shipped preset L3 requires an approval and L2 does not |
| `policy`: requests of negative amounts | `EnvelopeKept` in magnitudes | the envelope sums signed amounts, so a refund makes room for a charge |
| `spend`: `raced` left out | grants stay within the session's budget | the budget is read, decided on and consumed in three statements (`cmd_request.py:118-166`) |
| `spend`: `late` not exempt | an outstanding escalation is never replaced (`cmd_request.py:177-189`) | the pending row is found empty and filled in two statements |
| `spend`: `disputed` not exempt | an escalation is ruled on once | two operators read one row and both rule on it, also both approving (`cmd_approve.py:37-70`) |
| `stripe`: `wiped` left out | the cap holds "under any input" (`spend.py:4`) | `--amount nan` passes every comparison, is saved as the total, and is wiped to 0 when its charge fails (`spend.py:65, 82-83`, `_core.py:83, 95`) |
| `stripe`: `crossed` not exempt | the check keeps racing approvals of refunds safe (`_core.py:317-322`) | `execute_refund` sums the log, refunds and logs without a lock |
| `stripe`: `shared` not exempt | a code authorises one execution | `approve.py` compares the code and unlinks it in two steps |
| `govern`: overlapping commands not exempt | after `kill` has reported nothing runs | a `resume` that began before the kill may write "live" into a mirror after the kill has reported |
| `govern`: the panel not exempt | as above | the panel reads a truncated file as a released switch (`operator.py:126-136`) |
| `govern`: `trusted` kept for ever | a locked snapshot is not overwritten (comment at `govern.py:119-123`) | a snapshot locked through all retries is taken for none and replaced (`govern.py:129-132`) |

### Seen while modelling, without a run

- *Policy and CLI.* Tools of bands L0 and L1 run without asking the kernel. The
  envelope sums signed amounts, so refunds make room for charges. The CLI passes no
  ledger, so `daily_envelope` has no effect there. `approve` does not look at the
  switch; `approve` and `deny` delete whatever the pending row holds by then.
  `record_successful_request` has no caller outside the tests, and
  `CustodianSession` never enforces its `daily_envelope`.
- *Remote enforcement.* `enforcer.py:190` sends the state's spending as
  `session_spent`; the node builds `AuthorityState(**body["state"])`, which has
  `spent_this_session`, and answers 400. The client takes that for a node out of
  reach, so every decision is made locally. (Were it repaired, a node would decide by
  its own policy and its own downgrade table, not the caller's.)
- *Kill switch.* Overlapping `kill` and `resume` can leave row and mirrors
  disagreeing, or a mirror torn, while `resume` finds nothing to resume; a `kill` and
  a `resume` repair it. A `resume` that dies after truncating does the same. One
  workspace's `resume`, and the panel's, clear the home directory's mirror while
  another workspace is killed. A mirror that cannot be written is not reported.
- *Stripe skill.* `spend_v2`, `approve` and `approve_v2` do not read the switch;
  `approve_v2` carries a pending refund out as a spend; `approve.py:42` says the
  code is bound to the request, and it is not; the webhook credits any
  `payment_intent.succeeded`.
- *Guards gate.* JSON of a wrong shape does not fall back to the backup; the header
  says it falls back to the dormant baseline, the code fails closed. The directory
  is synced before the rename only, so a reported `enable` may be lost in a power
  failure, which `_write_state` says it survives. `Backup` copies a main file that
  rotted meanwhile over a good backup. A command that loads while the directory is
  loose writes the sentinel over a good state.
- *Paladin.* `rotate_master` changes the audit key, so every earlier record fails
  `audit verify`; a session opened before it saves the vault back under the old key;
  a rotation between opening and copying makes an archive no single key opens.
  Restore takes no lock. `egress_request` leaves no record when the upstream fails
  after the credential was sent. `delete` leaves exact grants behind, and a later
  entry of that name inherits them.
- *Ledger and registry.* NaN and negative zero break `verify`; the loser of an
  upgrade race fails at its ALTER; the registry opens the ledger outside its `try`.
- *Keys.* `SigningKeyRing.retire()` of a revoked key makes it valid again; an
  executor whose key file was created and never written refuses every request.
- *Installer.* `scripts/install-custodian.py` moves the launchers before it flips
  the active slot; after a death in between, the next install clears the slot the
  launchers point to. A lock older than ten minutes is taken over, by two at once.

## 4. What is proved

`tlapm` checks every proof to its leaves; nothing is assumed but the named
`ASSUME`s on constants (and what a theorem itself assumes). All theorems hold
for any number of actors, actions, ids and any bounds.

| Module | Theorem | Assumes | Argument |
|---|---|---|---|
| `ExecutorProofs` | `TypeCorrect`, `ClaimIsExclusiveHolds` | | a thread inside `consume` created the claim file and only it removes it |
| | `SingleUseHolds`, `RunsArePaidForHolds`, `FinalStaysFinalHolds`, `KeepsPromiseHolds` | | `IInv`: each approval is spent, held by one thread, or still to be had (`Paid`, a sum of cardinalities); copies of a record carry its action (`Bound`); of a record no two operators had in hand at once, the operator's and the consumer's copies are what it still says (`Calm`) |
| | `HaltedDoesNotRunHolds` | `~GateCanFail` | a thread that arrived under the switch gets no further than the decision while it lasts |
| `GuardApprovalProofs` | `TypeCorrect`, `SingleUseHolds` | | `IInv`: claim files of used approvals stay; between claim and verdict there is one owner |
| | `UsedAsGrantedHolds`, `NeverAutoHolds`, `KeepsPromiseHolds` | | `BInv`: every copy of a record, in whatever process, carries that record's action; an approved or consumed record was granted |
| `GateProofs` (policy) | `TypeCorrect`, `BudgetKeptHolds` | | an autonomous amount is no greater than what remains |
| | `WideningIsThePolicysHolds` | | what a stricter band lets through, every band above it lets through; so where a downgrade lets through more, the policy's lower band is not the stricter |
| | `DecideIsMonotone` | | what a band lets through it lets through with more left and less spent, and a band above it does when the policy is `Graded` |
| | `KilledMovesNothing` | | an action property: the switch is the first gate |
| | `EnvelopeKeptHolds` | `NoRefunds` | `EInv`: in every window what moved under a band is at most what the ledger says was spent |
| `SpendCLIProofs` | `TypeCorrect`, `HaltedGrantsNothingHolds` | | a halted clerk implies an engaged switch |
| | `GrantsWithinBudgetHolds` | | `Counted`, and `Fresh`: while a clerk that is not behind looks at the budget it loaded, that is all that was granted, but for what was lost |
| | `EscalationNotReplacedHolds` | | `FoundFree`: the row a clerk found free is free still, unless the clerk is late |
| | `RuledOnceHolds` | | `Unruled`: a request that is asked for, pending or in an operator's hands has not been ruled on, unless two have had it in hand |
| | `SpendIsCountedHolds` | | `Owed`: the grants and approvals whose booking is still in somebody's hands are a finite set, and what is booked, lost or owed is all there is, for any number of clerks and operators at once |
| `GuardApprovalProofs` | `RuleIsBoundedHolds` | | `Covered`: the approvals a rule gave, with the processes that hold a charged use of it, are no more than the uses it was charged |
| `GateProofs` (guards gate) | `GateTypeCorrect`, `OwnWritesStayWholeHolds`, `ArmedGuardsAnswerHolds` | | `GInv`: a command under way holds the lock; what it is about to write keeps every armed guard; what the last sync put on the disk keeps every guard that was armed by then; a check that found the state not to be fail-closed is right about it still, or was disturbed |
| `GovernedCallProofs` | `TypeCorrect`, `SettledStoresAgreeHolds`, `NothingRunsUnderAKillHolds` | | `SwitchInv`: commands that overlap know of each other, so one that was alone left each store as it reports it, and what is settled was left by one that was alone |
| | `NoFalseDriftHolds` | | no snapshot and no hash is of a version of the file to come |
| | `EditsAreCaughtHolds` | | `TrustedStays`: while a snapshot is trusted it is the one on disk and nobody is about to replace it |
| `RecordsProofs` | `LedgerSoundHolds` | | `LedgerInv`: the one that holds SQLite's write lock has the last row's digest as its `tip`, and the next number is the count of the numbered rows; there is one genesis, whoever made it |
| | `ChainHoldsAlways`, `AnsweredIsRecordedHolds`, `MirrorInOrderHolds` | | `ChainInv`: unless one went on without the lock, the guard past `Lock` is its only holder and its `prev` is the last line; each answered decision is on a line, or on one of two that were joined; a mirror's append follows those of every earlier line |
| `StripeSpendProofs` | `CapKeptHolds` | | `Booked`: what is charged and what runs have reserved and not charged yet is in the total, unless that is NaN, or in what was given back, dropped or wiped; `Saving`: who is about to save a total holds the lock, and no one else has raised it since it was read. Sums are cardinalities: an amount is as many units, and a charge moves a run's units to Stripe's |
| | `RequestsChargedOnce` | `OneOperator` | `OnePlace`: a request is with the agent that made it, pending, with the operator who read it, or charged |
| | `RefundsCoveredHolds` | | `RefundsCounted`: of a payment that is not crossed one refund is under way at most; the log's sum and the amount vetted are within the charge, and Stripe's sum is the log's but for the refund being logged and those without a record |
| | `OneCodeOneRunHolds` | | `CodesInOnePlace`: a code that is not shared is with the agent that will send it, in its file, typed by one operator, or used |
| `PaladinProofs` | `VaultIsWholeHolds` | | `Shape`: only the lock's holder has a temporary file under way, so what is renamed is whole; a restore has a whole archive in hand, and a vault it moved away is kept |
| | `GrantsFollowTheEntryHolds` | | `DocsInv`: every document, in files, archives and memory, is sound by itself: no entry under two names, none that was not made yet, grants that follow. So it does not matter which document overwrites which |
| | `NoForkWithinHolds` | | `ChainInv`: MACs grow along every log, also along an archived one; who has read the tail, and missed no restore, has read past all that its process wrote |

The type invariants are not inductive alone: in `Executor` and `GuardApproval` a
step at which a capability is used needs to know that there is one (`BestFits`,
`Placed`), in `SpendCLI` that every id in use was made (`Known`), in `Paladin` that
the temporary file is whole when it is renamed (`FilesInv`), that a restore has an
archive (`HeldInv`), and that the gateway has a key (`Turns`). The safety
invariants speak of what was executed, granted or written, and are not inductive
because they say nothing of what the threads hold; the strengthenings above do. TLC
checked each of them on the instances of section 3 before it was proved. The three
assumptions left are ones without which there is a counterexample: `~GateCanFail` and
`NoRefunds` are in the table of section 3, and with two operators (`OneOperator`) and a
pending record of another request between them, one request can be charged twice.

What the constants are assumed to be is bookkeeping: bounds are natural numbers,
`None`, `NaN`, `Nobody`, `Missing` and `Torn` are none of the values they stand beside
(`FilesAssumption`, `AbsentAssumption`, `LedgerAssumption`, ...), and sets of
different actors are disjoint (`ActorsAssumption`). TLC evaluates them on every run.

Only model-checked: `ApprovedGetsExecuted`, as liveness is outside TLAPS's reach.

## 5. Plan

Every invariant and action property a passing run checks is proved; the liveness
property is checked only. What could be added, in this order:

1. What the exemptions stand for: `contested`, `raced`, `late`, `disputed`, `crossed`,
   `shared`, `wiped` name what the code does not prevent. For each, the code change that
   would (the capability record rewritten under its claim, booking in one transaction,
   one rename for the check and the removal of a code, a test that an amount is finite)
   as a second module that keeps the promise without the exemption.
2. `approve_v2.py` and the dashboard's runs of the skill's scripts, as further
   actors of `StripeSpend`.
3. The pure parts in front of `decide()`: packs, processors and the classification
   of commands, as functions checked against a reference definition.

### Not modelled

| Part | Why |
|---|---|
| Remote enforcement | as the code stands it never decides (section 3), so it is the local `decide` |
| Adapters, packs, processors, codex classification | checks over text and pure functions in front of `decide()`; no shared state |
| Paladin's command line, importer, menu, dashboard, sandbox; egress proxy; containment | input and output, process launching, network and mount set-up: what they protect is the operating system's doing |
| Inference router, bundled skills other than stripe-spend | one outside call each |
| Operator console, health, backup and confirm commands | presentation over the stores modelled here |
| Dashboard, except the panel's hand on the switch | a front end that runs the skill's scripts, and demonstration data |
| Receipts' and key rings' cryptography, event bus, nested sessions | in memory, single-threaded or purely functional |
| Site, packaging, installer | static pages and release tooling |

These parts are most of the repository's lines; the modelled ones are where it keeps
and decides over shared state.

## 6. Running

    tlc -workers 2 -config MCExecutor.cfg MCExecutor.tla
    tlapm ExecutorProofs.tla

and likewise for the other cfg files and proof modules.
