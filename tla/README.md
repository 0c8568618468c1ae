# PumpGrok in TLA+

PumpGrok is a paper-trading desk for pump.fun tokens: seats (agents) propose orders, a risk engine
decides them, a paper adapter simulates their execution with latency, and every fact is a row of a
hash-chained SQLite ledger. One Python process runs the desk on one asyncio event loop; a barrier
wait and a few reads use worker threads; the CLI, the desk gateway and a second desk are processes of
their own over the same ledger file, kill file and alert channel.

These modules model the parts in which several actors meet, or in which a long sequence of legal
calls decides whether a figure is right: the order lifecycle, kill switch and flatten, breakers, halts,
seats, the ledger with its folds, reports and export, the serve loop, upgrades, replays and backtests,
tool calls, the scanner, approvals and the live gate. All definitions are translated from `src/`; paths
below are relative to `src/src/pumpgrok` unless they start with `docs/` or name a document.

## 1. Inventory

| Component | State it keeps | Operations | Talks to | What is hard | What makes it correct |
|---|---|---|---|---|---|
| Paper adapter (`execution/paper_adapter`) | `_inflight`, `_cancelled`, `_active_places`, the shared barrier, the coroutines of `place` | `place`, `cancel`, `close_position`, `mark_to_market`, `blind_flatten`, `close_on_graduation` | risk engine, ledger, curve reader, clock | three awaits in `place`, timeouts, cancels, task cancellation, restart between the order row and its outcome | a decision is sent once and ends once; nothing is sold twice; the barrier is exact |
| Risk engine (`risk/engine`) | `_decisions` cache, `_observe_only` mirror | `check` at ACCEPTED (twice) and CONFIRMING, halt detection and clear | ledger, kill switch, breakers, adapter | state read before the sleep and used after it; a cache keyed by part of the state; two folds in one walk | limits and stop gates hold when the fill happens, not only when the order was admitted; a breach stops buys |
| Kill switch (`risk/killswitch.py`) | `_pending_line`, `_alert_latch`, `_flatten_escalated`; the latch file; `KillSwitchSet/Cleared` rows | `absorb_alerts`, `poll`, `observe`, `request_clear` | alert channel, ledger, file, environment | five sources, failed writes, crashes in a write, clears from another process | a consumed command is in force for every later process; an observed switch stays recorded |
| Alert channel (`risk/alert_channel.py`) | `_next`, `_committed`, the offset file | `poll`, `commit` | Telegram, kill switch | outages, redelivery | no command is committed before it is handled |
| Kill flatten (`tools/risk/kill_switch.py`) | a flatten's intents and outcomes | `run_kill_switch`, `execute_flatten`, the poll hook | adapter, barrier, kill switch | orders go on while it waits and closes; flattens overlap | a completed report is true |
| Breakers and probes (`risk/breakers.py`, `risk/engine/rules.py`, `buy.py`) | breaker states, probe owners, their rows | trip, cooldown, half-open, claim and settle a probe, adopt from rows | risk engine, adapter, ledger | which of several calls releases the probe; a death between a trip and the next start | a trip survives a restart; no buy inside a cooldown; only a fill closes `exec_errors` |
| Loss halts (`risk/engine/core.py`, `steps.py`, `tools/risk/halt_status.py`) | `HaltSet/Cleared` rows, the day's baseline | detect, clear, roll over, report | engine, supervisor, CLI | two folds a walk, several processes, midnight, people who clear | a breach refuses buys; one halt a day and reason; the tool tells what is enforced |
| Ledger store (`ledger/store.py`) | the hash chain, UNIQUE keys, a per-handle inconsistent flag | `append`, `append_batch`, `verify`, reads | everyone | several handles, tampering, failed verify on one handle only | the chain never forks; a batch is all or nothing |
| Reducer, views, reconcile, reports (`ledger/reducer.py`, `views.py`, `reconcile.py`, `reporting`, `backtest/equity.py`) | none: folds of rows; the shutdown snapshot | folds of positions, cash, trades, marks, halts | everyone | folds by position, by day, from a snapshot; marks from a stale fold | every lamport is explained; all readers agree |
| Journal export (`ledger/export.py`) | day files, the cursor | export at shutdown | files | a crash at any write, repeats | the cursor passes no missing row; a row has one line |
| Tickets, active set, autonomy (`ledger/tickets.py`, `active_set.py`, `autonomy.py`) | rows | open, advance, swap | supervisor, upgrades, CLI | concurrent writers | no number twice; the active set is stored |
| Seat supervision (`supervisor/seat_task.py`, `seat_restart.py`, `seat_relay.py`, `scheduler/supervisor.py`) | crash budgets, latches, resume notes, relay cursor | tick, crash, restart, latch, resume, exit halt, relay | engine (latch mirror), ledger, notifier | restart storms, rebuild from rows, day keys, failing appends | an exhausted seat stays latched until a human resumes it; no alert row is passed over |
| Lifecycle (`supervisor/lifecycle.py`) | tasks | drain, cancel and wait, final snapshot | all tasks | order of side effects, cycles that must be over before the snapshot | the next start folds from the snapshot to what the rows say |
| Serve loop (`supervisor/scheduler/serve.py`, `exit_rules.py`, `orders.py`) | placed candidates, `held_out`, peaks, the loaded rules | tick, place candidates, run exit rules, reload, resume | adapter, ledger, active set | reloads and restarts between ticks, unknown sells, virtual time that moves in an order | a decision stands: ordered once (a restart breaks this: `serve_resume`), not sold twice blindly, no buy of a past tick after a reload |
| Upgrades (`upgrade`) | proposals, evidence files, content store, active rows | check, search under a lock, gate, escalate, activate, roll back | ledger, autonomy, backtest | several serve processes and operators, deaths between two writes | what is active was searched, permitted, counted and stored |
| Replay and backtest (`replay`, `backtest`, `cli/backtest_*`) | replay ledgers, run directories, the fixture clock | run, verify, serve a replay, search, holdout, paper gate | datasets, ledger, clock | edits and deaths while it runs, two reads of a dataset, runs side by side | a result is one replay's own; a report repeats |
| Tool calls (`core/registry.py`, `ratelimit.py`, `services/desk-gateway`, `tools`) | limiter tokens, day files, memory bank, alert bodies | call, retry, time out | tools, files, sinks | a caller that is told nothing calls again; threads that run on | an answer is so, once; the rate holds; no lock is left |
| Approvals and live gate (`core/approvals.py`, `risk/engine`, `execution/live`, `cli/verbs_ops.py`) | approval rows, confirmation file | record, match, consume, confirm | engine, ledger, CLI | one approval and two orders, a shared draft file | an order moves what a person approved; nothing goes live |
| Scanner (`engine`) | launch buffer, seen set, creator book and marker, verdict cache, call budget | hear, sweep, judge, note, save, load, ask, score | socket, Grok, ledger | full buffers, retries over midnight, a crash between rename and marker | every launch accounted for; missing data never helps a token |
| RPC client (`tools/onchain/rpc.py`) | none across reads | read with retries and failover | endpoints | mixed failures | a failed read asked everybody |
| Degraded mode (`supervisor/scheduler/degraded.py`) | row buffer, feed states | buffer, drain, probes, skew check | nobody in `src/` | | |
| Curve arithmetic (`execution`) | none | `buy_out`, `sell_out`, fees, latency draw | adapter | integer rounding | |
| Config, contracts, logging, prompts, scripts, docs | none that interleaves | | | | |

`PROJECT.json` lists the same parts with their status, and the hazards of the code line by line.

## 2. Modules

| Module | Models | Used by |
|---|---|---|
| `PaperOrders` | `place`, `cancel` and `RiskEngine.check`: the core of the desk | `MCPaperOrders`, `KillFlatten`, the proofs |
| `KillFlatten` | `run_kill_switch`, the poll hook, `execute_flatten` over live orders | EXTENDS `PaperOrders`; each step is also a step of it |
| `KillSwitch` | `absorb_alerts`, `poll`, `observe`, `request_clear`, the channel's offset, operators | its `Durable` switch is what `PaperOrders` sees as `killed` |
| `Breakers` | trips, cooldowns, half-open probes, claims and releases, adoption from rows | `MCBreakers`; its refusals are the step `breaker_open` of `PaperOrders` |
| `HaltLatch` | loss and drawdown detection over two folds, clears, rollover, exit latch, `halt_status` | `MCDesk`; its refusals are the halt steps of `PaperOrders` |
| `SeatSupervision` | ticks, crash budget, latch, resume, exit halt, relay, shutdown | itself; its latch is `latched` of `PaperOrders` |
| `LedgerLog` | the abstract ledger: a log of whole batches with unique keys | |
| `LedgerStore` | `append`, `append_batch`, `verify` over several handles on one file | implements `LedgerLog` (INSTANCE) |
| `LedgerAccounts` | the reducer's fold of fills, openings, closes, refusals, marks and rollovers; snapshots and the next start's checks | `LedgerReports` |
| `LedgerReports` | the figures others take from the rows: equity path and curve, net, daily and weekly reports | EXTENDS `LedgerAccounts` |
| `JournalExport` | the export at shutdown with its cursor, batches, crashes | `MCLedgerStore` |
| `ServeTimeline` | `serve` over a recording: candidates, exit rules, reloads, deaths | `MCServe`, which `MCDesk` extends |
| `ParamUpgrades` | how a parameter set becomes active: checks, search, gate, evidence, activation, autonomy, restores | `MCDesk` |
| `TicketNumbers` | allocation and named creation of tickets | `MCDesk` |
| `DeskTools` | the seats' tool calls through gateway and serve: notes, memories, alerts | `MCDesk` |
| `GuardedCalls` | timeout, retries, limiter and its lock on the fixture clock; the replay runner's patience | `MCDesk` |
| `RpcFailover` | one JSON-RPC read over its endpoints | `MCDesk` |
| `ReplayRuns` | replay ledgers of one dataset; backtest runs, folds, paper gate | `MCDesk` |
| `WindowFigures` | fees, returns, drawdown and fill details of a backtest window | `MCDesk` |
| `LaunchScan` | the launch monitor, the candidate summary, the creator book with its degraded marker | `MCDesk` |
| `AgentCalls` | Grok budget, slots, retries, timing cache; the analyzer's reading and the score panel | `MCDesk` |
| `LiveDoor` | approvals from phrase to order, the live gate's window, `live confirm` | `MCDesk` |
| `MC*` | instances for TLC | |
| `PaperOrdersProofs` (with `KillFlatten`), `KillSwitchProofs`, `WatchProofs` (breakers, seats, launches), `LedgerProofs`, `EdgeProofs` (calls, figures, halts, reads, the door to live), `DeskProofs` (upgrades, tickets, tools, agents), `ServeProofs` (serve, replays, the desk's composition), and `FoldFacts` under those that fold rows | theorems (section 4) | |

`MCDesk` and `MCLedgerStore` hold several components that share no state: a behaviour picks a *scene*
in its initial state, and only that component moves. It is one model checking run per question without
the product of unrelated states.

### PaperOrders

`place` gives up the event loop at three awaits only (the decision curve, the latency sleep, the
CONFIRMING curve); each action is the code between two of them, so `pc` is the await a call stands at.

| Code | State | Actions |
|---|---|---|
| `buy.py`, `sell.py` `place`; `batch.py` `_repeat_outcome` | `placedBy`, `outcomes`, `refused` | `PlaceRepeat`, `PlaceRefused`, `PlaceAdmitted` |
| gates, sizing, second check, `batch_stages.py` | `consumed`, the UNIQUE keys | `RefusedAtCurve`, `SubmitRefused`, `SubmitRepeat`, `Submit` |
| `confirm_stages.py` | `inflight` (both `_inflight` and the barrier), `cancelled` | `LatencySlept`, `CancelledInLatency`, `LatencyTimedOut` |
| CONFIRMING re-check, drop, holding, slippage, settle | `holding`, `trades`, `plan` | `RefusedAtConfirmCurve`, `RefusedAtRecheck`, `RefusedAfterRecheck`, `SettleBuy`, `SettleSell` |
| `adapter.cancel`, `tools/exec/cancel.py`, exceptions of `place`, process death | `acked` (history) | `Cancel`, `PlaceRaises`, `Restart` |
| `RiskEngine.check`, `_cache_key`, `steps.py`, `constants.py` | `cache`, `latched` | `Verdicts`, `Decide`, `Recheck` |
| everyone else | `killed`, `halted`, `latched`, `holding`, `trades` | `Desk`, `ClearKill` |

The risk walk is the set of steps in `STEP_IDS` order: a refusal is the first step that refuses.
Steps that depend on prices, marks or breakers may refuse freely; the others are computed from the
state. The constant `OutsideSteps` names the former; each run keeps the ones its properties can tell
apart. The cache answers a second ACCEPTED check in the same ledger generation; every append moves the
generation (`store.count` is in the key), a latch change does not.

### KillFlatten

A flatten sets the switch, waits in a thread for the barrier (`BarrierEmpty`, `BarrierTimeout`), lists
the intents when the event loop resumes it (`ListIntents`), closes them one await at a time
(`CloseGone`, `CloseFails`, `CloseSells`) and reads the ledger again for its report (`Report`). It may
be asked for again at once, and several may overlap (the tool and the poll hook).

### KillSwitch

The desk's turn `absorb_alerts -> poll -> observe` has no await, but the latch file and the ledger are
shared with operators in other processes, so each read and each write is a step of its own. A switch
is `"plain"` or `"flatten"`. `sent`, `offset`, `file`, `row`, `epoch`, `keys` outlive the process;
`pending`, `escalated`, `next` do not. `excused`, `asked` and `seen` are history variables.

### Breakers

One breaker of each domain class (`exec_errors`, `loss_velocity`, `data_stale`), as an object and as
its `BreakerTripped` / `BreakerReset` rows; a behaviour meets the trip conditions of one of them
(`Watched`). Buys check, submit and confirm around the claim of a half-open probe, as in `rules.py` and
`buy.py`; `_settle_probes` decides who releases it. `Restart` drops the objects and adopts the rows. Time
is a small clock against which cooldowns and windows are counted.

### HaltLatch

An order check looks twice: at the loss of the day, then at the drawdown, each with a fold of its own
(`BeginCheck`, `JudgeLoss`, `Refold`, `JudgeDraw`), and appends `HaltSet` under a key of reason and day. The equity moves along a given
path between any two reads, the supervisor rolls the day over, the exit latch sets a halt of its own and
people clear from the CLI. `Checkers` fold the same ledger; `Watchers` only run `evaluate_halts`.

### SeatSupervision

The tick loop finds any set of seats due, and a cycle is a task that may end or crash at any time. What
a callback does without an await is one step, except between two of its appends, where the process may
die. Latches and resume notes are rows; a start rebuilds the latched seats from them. The relay hands the
rows of severity alert to the notifier and moves its cursor. The shutdown stops, drains and snapshots.

### ServeTimeline

A tick's seats run in turn. The sniper marks a candidate as attempted (`TakeCandidate`); by the time its
call runs, virtual time has moved on (`_settle_on_virtual_time` advances before the task's first step), so the
call is refused (`RefuseOrder`) or writes its row (`SubmitOrder`) at a later stamp than the candidate's, and
ends later still (`SettleBuy`). `Resume` looks for rows with the candidate's own stamp, as
`_build_serve` does.

### LedgerStore

A handle is one connection in one thread; `append` is `append_batch` of one row. SQLite is external:
`BEGIN IMMEDIATE` admits one writer and the head is read under its lock (`Begin`), each row is an
INSERT with a UNIQUE key (`InsertRow`), `Commit` publishes them all, and any exception or the death of
the process (`Rollback`, `Reopen`) publishes none. A hash is modelled as its own preimage, so it is
injective. `Edit` is a raw connection that drops the triggers; it alters content and does not rechain.
The `_inconsistent` flag belongs to a handle: a handle that saw a damaged chain appends nothing until
it verifies again, while another that never looked goes on; the runs and proofs include that.

### LedgerAccounts, LedgerReports, JournalExport

Rows carry units and lamports. `Reduce` is `reducer.py`; `book` is the fold as every reader sees it. A mark
folds, awaits the curve (`reading`) and writes equity from the old fold, so other writers may come between.
A stop takes a snapshot; the next start folds from it and checks, as `reconcile.py` does. `LedgerReports` computes the same figures by
the routes of `backtest/equity.py`, the report tool and the daily report. `JournalExport` writes row by
row to two kinds of file and dies anywhere.

### The scenes of MCDesk

| Scene | Module | What moves |
|---|---|---|
| `upgrades` | `ParamUpgrades` | two serve processes, autonomy edits, restores, a crash |
| `timeline` | `ServeTimeline` | one serve over five recorded ticks of two mints, a promotion, a death |
| `tools` | `DeskTools` | gateway and CLI process; notes, memories and alerts; repeats, timeouts, restarts |
| `tickets` | `TicketNumbers` | three creators on one day |
| `replays`, `backtests`, `folds` | `ReplayRuns` | replays of one dataset while it is edited; two equal backtests beside a trading desk; the fold arithmetic over all recordings of up to nine stamps |
| `launches`, `creators`, `candidates` | `LaunchScan` | the socket's buffer; the creator book of two processes; the summary over all pairs of ticks |
| `agents`, `readings`, `panels` | `AgentCalls` | two runs through budget, slots and cache; every reading of the analyzer; every panel of scores |
| `approvals`, `window`, `confirms` | `LiveDoor` | approvals and the orders they bind; the paper window; two confirmers with one draft file |
| `calls`, `reads` | `GuardedCalls`, `RpcFailover` | three calls of one limiter on the fixture clock; one read over two endpoints |
| `figures` | `WindowFigures` | windows over up to four fills |
| `halts` | `HaltLatch` | a desk and a gateway, one person, three days |

## 3. Runs

Bounds are in the cfg files. The MC modules fix which call carries which decision and what the inputs
are; everything that happens to them, and when, is TLC's choice.

| Run (cfg) | Question | Bounds and why they are enough |
|---|---|---|
| `repeats` (`OrdersRepeats`) | Is a decision sent once and ended once, are repeats told the truth, does one creator get one position, and does every order leave the barrier, through cancels, timeouts, drops, exceptions and restarts? | two calls of one buy (a writer and a racer or a late repeat) beside a buy of another mint of the same creator, with room for both |
| `book` (`OrdersBook`) | Do the slot limit, the mint limit, a single-use approval and the stop gates hold for buys that sleep side by side, beside a sell and forced closes? | three buys, one slot, two mints, one shared approval and a sell of what is bought: every pair competes for something else, and the CONSTRAINT `ThreeMade` lets any three of the four calls be made; quantities of one and two make partial, full and impossible sells |
| `flatten` (`Flatten`) | Does a flatten report the truth, keep buys out, and return? | two flattens over a buy and an exit sell of one mint: positions appear, vanish and fail under either |
| `kill_alerts` (`KillAlerts`) | Is a committed command in force for every later process, and is every command consumed? | three commands (a batch with a middle), two crashes, failing file writes and offset commits at every point |
| `kill_operator` (`KillOperator`) | Does an observed switch stay in the ledger until a clear? | all operator commands between any two reads, outages, one clear (set, clear, set again on one day) |
| `breakers` (`Breakers`) | Does a trip survive the process, is its cooldown served, and does only a fill close `exec_errors`? | three calls of two buys (a repeat of one decision beside another), one restart, four instants: longer than a cooldown and a window; four rejects trip once and once more |
| `seats` (`Seats`) | Is a latched seat latched after any restart, is the exit halt stored in the end, and is any alert passed over? | the exit seat, which has every behaviour of a seat and the halt besides; a budget of one; two days; one ledger fault, two starts, two notes or alerts |
| `ledger` (`Ledger`) | Three scenes. `store`: is a batch stored whole or not at all, a key once, and is `verify` exact? `accounts`: is every lamport explained, does the next start's check hold, and do all readers agree? `export`: is the journal complete as far as its cursor says, and exact? | two handles, up to four rows, batches that share and repeat keys; two mints, six rows (buy, mark, partial sell, close, buy again) with `FewOfAKind`, one refusal and two marks at most, two days, one stop; four rows over two days and three exports, two of them broken off |
| `desk` (`Desk`) | Twenty scenes around the order path (section 2): the next table says what each promises | below |

The parts of the desk's properties:

| Property | What it says | Bounds |
|---|---|---|
| `ActivationJustified`, `RulesFollowActive` | the active set's content is stored; it has the evidence of the very run that promoted it; the gate counts the trials of that search only; `manual-ticket` never upgrades; a serve loop comes to trade under the active set again and again | two serve processes, a set that wins two declared spaces, two edits, one crash |
| `DecisionsStand` | a process orders a candidate once, whatever it reloads; an unknown sell is not offered again by this process; a reload never buys a past tick; the peak is this position's own and no lower than any mark | five ticks over two mints with a rise, a fall and a graduation; orders that outlast the next tick (`Latencies`); one promotion, one death |
| `AnswersStand` | a note has one row and at most one line; an answered note has its line; a retained memory is on a line of its own, once per process; an alert is `suppressed` only when it reached every sink | three calls, one restart; `OneTool`: the calls of a behaviour are of one tool, since tools share no state, and alerts of one process |
| `TicketsSound` | no number twice; gaps are an operator's; a creation gives up only to rivals or on a full day | three creators, two attempts, a last number of 2 (999 in the code) and 4 tickets, so the day fills and its one-past ticket occurs |
| `ReplaySound` | one replay per chain; a serve's rows outlive crashes; a result is the replay it names; a backtest repeats; folds cover and never overlap | two seeds, three versions of the dataset (one with a gap), an edit, a death, three runs; two testers with one death; all recordings of stamps 1..9 |
| `ScanSound` | every launch is buffered or skipped with a reason; one verdict a launch while it is remembered; a candidate with a missing record fails; a rug written in a book stays in it; lost history stays visible; a rebuild is exact | three launches, one without a creation stamp, on a buffer and a seen set of two; a book of one address for two; six ledger rows; all pairs of ticks |
| `AgentsSound` | a day is charged at most its budget; a cached verdict is a real answer and young enough; missing data never lowers a risk or lifts a score | two runs on one slot, two tries, a budget of two, days of two hours: midnight falls between a charge and its request |
| `EdgesSound`, the conjunction of the next five | | |
| `DoorSound` | an order that passed on an approval moves exactly what it states, once; nothing passes live; the window's thresholds are those of its rows; a confirmation is whole | one approval, up to two orders, four window rows, two signers; `NoIdleApprovals`: an autonomous desk is given none of people's |
| `CallsGuarded` | the rate holds in any stretch of time; deadlines are exact; the lock is never stuck; the runner gives up only on a call beyond its patience | three calls, one token, nine instants; `MCLimits` gives one order a timeout that may outlast the runner |
| `FailoverSound` | a failed read asked every endpoint until it answered or was busy too often | two endpoints, two attempts |
| `FiguresSound` | fees are counted once, the drawdown is the deepest, the two routes to a fill agree | four fills over two stamps |
| `HaltSound` | a breach refuses buys unless a person cleared a halt that day; one halt a day and reason; the tool reports what is enforced | two checkers, two checks, three days, one clear; a path of two equities, one a loss of its day, the next a drawdown that is no loss of a day begun at the first |

Runs that expect a violation show a document or comment that the code does not keep:

| Run (cfg) | Document | What happens |
|---|---|---|
| `kill_lost` (`KillLost`) | `killswitch.py:206-207`, `alert_channel.py:139` | a command that could not be saved, then a failed `getUpdates`: the commit passes the unhandled command |
| `probe_leak` (`BreakersLeak`) | `buy.py:123`: the probe is released on every final outcome | a repeat of an ended order claims the probe at its second check, loses the UNIQUE key and returns; the probe stays owned and every later buy is refused until a restart |
| `serve_resume` (`ServeResume`) | `orders.py:32`: each BUY candidate is placed once; `serve.py:324-325`: a candidate is attempted when its `OrderPlaced` row is there, with its stamp | the row carries the clock a quarter second or more behind the stamp, so a restarted serve does not find it and orders the candidate again; the row matches at most a later candidate of the mint, which is then never placed |

### Differences from the documents that have no run

Met while modelling; the modules allow what the code does.

*Orders and switch.* A cancel during the CONFIRMING curve read is answered `cancelled=true` and the order
fills (`adapter.py:161`). The latch set is not in the cache key, so a cached pass may write a buy after its
seat was latched (`risk/engine/core.py:319`). `max_trades_per_day` is not re-evaluated at CONFIRMING
(`constants.py:78`). An escalation survives a clear that no poll saw, and the next plain KILL flattens
(`killswitch.py:285`). A decision refused before its order row is evaluated afresh when repeated. An exit
sell skips the switch and may be in flight at a flatten's first close. When the chain does not verify no
`HaltSet` and no rejection is written, so `place` raises. A clear between `observe`'s second read of the
epoch and its append is followed by the stale `KillSwitchSet`. A plain set takes a standing flatten
request back. Two processes that buy one mint write two `PositionOpened` rows, the second of which replaces
the first in the fold.

*Halts and breakers.* Clearing any halt, the exit seat's too, suppresses loss and drawdown detection for the
rest of that day (`steps.py:109-120`). A loss written by another process between the two folds of a walk is
recorded and does not refuse that buy. A check between midnight and the first tick measures against
yesterday's baseline. A clear wipes a halt set after the person looked. The reset of `loss_velocity` is
never logged, and it may close inside its cooldown (RISK_POLICY.md:89). Two half-open breakers admit two
buys. `note_tick` and `note_miss` have no caller in `src/`.

*Seats.* The exit halt is keyed by day: after a clear, a latch of the same day sets none (`seat_task.py:304`).
A ledger that cannot be read makes `_on_crash` raise before it latches (`seat_task.py:276`). A resume note
between a latch and its row counts for it or not depending on the restart. `health_status` hard-codes a
consistent ledger.

*Ledger and reports.* `_append_missing` takes no lock across processes. A mark uses positions folded before
its await (`marks.py:102-250`), so a sell by another process in between is missing in its row; a position
without a mark counts zero in the row and its cost in the fold (`marks.py:122-123`, `reducer.py:141`). A top-up of
a marked position reads as a loss until the next mark. A snapshot carries no chain hash, so check 6e of
reconcile compares nothing (`lifecycle.py:159`). `realized_pnl` and the reports sum closes only. The pnl
tool's window includes its end; its drawdown is the present one whatever `as_of`. The daily report's
`fees_network_lamports` is 0 and its venue fee includes it; its maximum drawdown is the current one.

*Serve, upgrades, tickets.* `held_out` and the peak between two marks are memory only, so a restart offers an
unknown sell again, and a restart after a reload may buy past ticks. A human restore is undone by the next hourly check.
`restore_active_set` has no caller outside tests. The ticket after the day's last is unparsable and ends
the day. A lost race of named creation is answered `ok`.

*Replay and backtest.* `verify` and `run --once` wipe the ledger a running serve of the dataset uses. A dataset
is verified and re-read by path (`recorder.py:161`). A run id pins a digest read before the search reads
the files again. A death between the ledger's creation and its verdict row makes every later serve
refuse. Some advances of the fixture clock pass a wake and a deadline at once and time the call out.

*Scanner, tools, approvals.* A crash between the quarantine's rename and its marker lets the next load find a
healthy empty book. A launch whose creation stamp is missing or 0 has age 0 for ever, and with a
`min_age_seconds` above the buffer's time to live no launch matures: such launches end as stale, unjudged
(`VerdictsOnce` promises a verdict only of those that can mature). A full book never admits a new creator. The monitor may skip one mint twice. The call
budget is charged before the slot, so requests of one day may exceed it by those charged before midnight.
A slow refresh may overwrite a newer verdict. A failed holders fetch lowers the analyzer's risk. The live
gate's drawdown is from the highest mark to the last, not the deepest. Two confirmers share one draft
file. `state autonomy` reads the previous level in a step of its own.

### Every property has a mutant

For each property of a passing run `PROJECT.json` names an operator marked `Bug:` in the module, a
plausible mistake in the mapped code (a dropped UNIQUE key, a step missing from the CONFIRMING set, a
`finally` that keeps the barrier entry, a key without the epoch, a fold that forgets refusals' fees),
under which TLC finds the property violated with the same cfg.

### Fairness

- `PaperOrders!Fairness`: weak fairness of the latency sleep's end and of the CONFIRMING part. The
  sleep runs under `clock.timeout(confirm_timeout_s)`, and a curve read returns or raises. Nothing is
  assumed of the part before the order row: such an order is not in the barrier.
- `KillFlatten!FlatFairSpec`: weak fairness of a flatten's own steps. `wait_empty` has a timeout and a
  close is a curve read followed by a batch. Orders are owed nothing: the flatten ends without them.
- `KillSwitch!Fairness`: weak fairness of the desk's turn (the supervisor ticks, the gateway's owner
  loop polls); strong fairness of a poll that returns all that was sent, and of saving, escalating
  and committing: a full disk or an outage does not last for ever.
- `SeatSupervision!Fairness`: weak fairness of what the loop does next and of a cycle's end; strong
  fairness of a tick in which the exit seat is due, whose period comes round while the loop runs; the
  ledger recovers. Nobody has to start the process, write a note or crash a seat.
- `MCDesk!MCFairness`: weak fairness of a serve process's next step in the scene of the upgrades. No
  edit, restore, start or promotion is owed.

The other scenes and runs are checked for safety only. Deadlock is checked where something always moves
(order, flatten and kill runs: the environment does); the bounded scenes, seats and breakers really stop
when their bounds are used up, and their cfgs say so.

## 4. Proofs

All theorems hold for every value of the constants: every set of calls, orders, mints, seats, processes
and batches (mints, hosts and seats finite), every limit, recording and roster, and any number of
commands, rows, clears and crashes. They assume only the named ASSUMEs of the modules, each of which says
what the configuration or a type of the code guarantees (a positive budget, a crash count, a cooldown
longer than the window it is counted in, prices and units that are counts). Where a component is a scene
of an MC module, the theorem is about the component's own specification (`Spec`, `AccountsSpec`,
`ExportSpec`, `TimelineSpec` and so on), which is the scene without the others' unchanged variables.

**Order lifecycle.** `TypeCorrect` is the type invariant. The safety theorems rest on two lemmas that
reduce the disjuncts of `Next` to a few kinds of step: `RowSteps` (a step is quiet for the
order rows, ends a call without a row, ends a call in flight with its row, writes an order, or is a
restart) and `HoldingSteps` (holdings stay, a mint is sold, or a buy that just passed the CONFIRMING
check adds to one).

- `BarrierIsExact`, `SendsOnce`, `EndsOnce`, `ApprovalsSingleUse`, `ReplaysTruthful` follow from one
  inductive invariant `IInv`. The listed properties alone are not inductive: that a call in flight
  wrote its order and has no outcome yet (`Written`), that outcome rows belong to the writer (`Owned`)
  and that a written order has consumed its human approval (`Paid`) have to be carried along.
- `NeverOversells`, `OpenPositionsAreBounded`, `CreatorsAreDistinct`, `StopGateAlwaysHolds`,
  `NeverPyramids` and `BuyGateAlwaysHolds`, which joins the last two, follow from the last check and the
  settlement being one step: nothing the order was promised at ACCEPTED is used.

**Flatten.** `FlattenImplementsOrders` shows `FlatSpec => Spec`: every step of the composition is a
step of the order lifecycle or a stutter, so all theorems above hold under flattens.
`FlattenReportsTruth` and `BarrierStopsBuys` use `FInv`: while the requested switch stands it is
engaged (`SteadyIsKilled`), every open mint of a closing flatten is in one of its sets (`Listed`), and
no cached pass of an order that the switch stops outlives its engagement. The truth of a completed
report rests on the stop gate at CONFIRMING, not on the barrier: with the barrier dropped,
`FlattenTruthful` still holds and `NoBuyBehindBarrier` does not.

**Kill switch.** `KillTypeCorrect` includes that the committed offset never passes the last batch.
`StaysRecorded` uses `KeysFresh`: all keys carry an epoch that has been, and while the ledger shows no
set row, no key carries the current one, so the append that `_SuppressIntegrity` guards is never
suppressed when it matters.

**Ledger.** `Invariance` carries `IInv`: every committed row and every row of the open transaction hashes
its content as appended and chains to the row before it (`Genuine`; for pending rows, from the committed
tip on), keys are distinct within and between the two, and the open rows are a prefix of their batch
(`OpenRows`). `VerifyIsExact` follows because hashes are injective (`HashInjective`) and an edit changes
neither a stored hash nor the tip (`GenuineEdit`): a damaged chain stays detectable however many rows
other handles append to it. `StoreImplementsLog` maps a commit to `AppendBatch`, an edit to `Alter`, and
every other step to a stutter.

**Kill switch commands.** `CommandsTakeEffect` proves `KillTakesEffect` for a channel that loses nothing
and operators whose only command is a clear (`OnlyClears`). Both conditions are needed: the run `kill_lost`
shows a command lost after an outage, and an operator's `set` or `remove` overwrites the latch file while
the process still believes it has escalated. The invariant `CommandInv` accounts for every line of the
batch in progress (it is in the file, in `pending`, or still to be read) and says what a clear excuses.

**Breakers.** `ShutInv` says of each breaker that the object and its rows agree (`Agree`): a closed object
has a reset or no trip behind it, an open one an open trip with the same anchor. It needs
`PlacedByLate`, that an order which has placed its row is past its claim. `TripsSurviveRestart` and
`ReopeningIsEarned` follow; the second is the action property that a buy inside a cooldown was let through
by a reset, and that only a fill resets `exec_errors`.

**Seats.** `LogInv` says what may stand in the log of latches, notes and halts; `LatchInv` accounts for
the gap between a latch in memory and its row, in which a resume note may arrive. With them
`LatchRemembered`, `RolloverKept` and `NoAlertSkipped` are inductive together: `RecordsAreActedOn` and
`NothingIsSkipped`. That no cycle runs when the snapshot is taken is how `Drained` is built, and no property.

**Upgrades, tickets, tools.** `UpgradesAreEarned` carries `UpInv`: a runner that holds a lock has made
exactly as many trials as its position says, and at each place of the check a candidate has behind it what
that place requires, so that the activation needs no look back. `NumbersAreNotShared` carries what each
creator knows of the directory. `AnswersAreKept` carries, for each call, what it was told and what the
files hold, and counts lines: a memory has at most as many lines as there are processes that know it.

**Serve.** `DecisionsAreKept` carries `TimelineInv`: what is looked at is held, what this life of the process
ordered or passed over was attempted, the candidate about to be ordered was not ordered in this life, an
unknown sell is held out, and a mark seen is no lower than the peak. It claims nothing about orders of two
lives: `serve_resume` shows that a candidate may have one of each. The
recording's order is `Recording`'s own, and is an assumption of the module.

**Agents.** `AgentsAreSound` counts: the runs charged to a day are no more than its quota record says
(`QuotaInv`), a run's tries are ahead of the requests it sent (`TriesInv`), and a cache entry names a run
that ended with that verdict (`CacheInv`). That a failed fetch or a missing verdict never makes a token
look better is a fact about the operators, proved for all readings.

**Launches.** `LaunchesAreSound` carries `ScanInv`, of two parts that share nothing. `MonInv` is what makes one
verdict a launch true of a seen set that forgets: the mints remembered after a mint were all skipped after
it, so one that was crowded out has as many others skipped since as the set holds (`SeenOk`), and so has a
buffered launch that was judged before (`FreshOk`). A sweep is a fold over the buffer it began with
(`SweptOk`, by an instance of `FoldFacts`), and judges the launches it has still to come to only once.
`BookInv`: the book of a process holds every rug that was written in it, because a newcomer that finds no
room is itself the first to go (`RecordIs`), and lost history has a marker, a torn file or a process between
the two that shows it. That a rebuild is exact (`RebuildExact`) holds after each row (`RebuiltOk`): an
address in the book has all its rugs, one without was never met or met a full book. The candidates
(`CandidatesPromise`) are a fact about the operators, for all ticks. The assumption `ScanAssumption` says that
the minimum age is positive (in no relation to the time to live), that the limits are positive and that no deployer has the empty name.

**Accounts.** `AccountsInv` has two parts. `Explained`: the cash is the start and the sum of what the rows
moved, each mint's units are the sum of its fills, the costs of what is held are the sum of what was paid
less the slices sold, and each holding was opened by a row that none closed. `Kept`: the book is the fold
of all rows, and also of the snapshot and the rows after it. A step appends one or two rows (`PostOne`,
`PostTwo`), and each kind of row has a lemma on what it does to the book and one on what it adds to the
sums. `LamportsExplained` is the first part, `StartsReconcile` the second. `SalesDoNotLift` needs both the
book's type and the arithmetic of the slice: what remains of a marked position after a sale is worth
no more than the mark less what was paid for the units sold. The integer division in the slice is bounded
once (`SliceBounds`).

**Reports.** `ReadersAlwaysAgree` proves `ReadersAgree` from `ReadersInv`, which adds to `AccountsInv` what
holds of the rows so far and the book they fold to (`Reads`): the path ends at the book's equity
(`PathEnds`) and its highest settled point is the book's peak (`PeakIs`), it is flat over purchases
(`StaysFlat`), the curve has as many points as there are fills (`CurveCounts`), openings less closes are
what is held (`OpenCounts`), a day has one rollover (`DaysOnce`) and the trades are those since it
(`TradesSince`). This is an invariant of whole batches only: between a fill and its position row the path
has a debit that is no settled point. So there is a lemma for a batch of one row and one for a fill with
its position row, and each says which points the longer path keeps (`Lengthens`, `GoesOn`). The path
keeps its past because it is itself a fold (`PathFold`, another instance of `FoldFacts`), and windows add up
because sums and counts over two disjoint parts do.

These are facts about folds and sums of any length, which usually take induction. `FoldFacts` gets them
from the well-foundedness of the subsets of a finite set instead: of the sets for which a claim fails
there is a minimal one, and removing the element that is folded next leaves one for which it holds.
From that: the recursive function in `MapThenFoldSet` exists and is unique, a fold that chooses the greatest
index last takes one more row with one more operation, and a sum may be taken in any order. The module has
the operation and the choice as constants; `LedgerProofs` instantiates it for the reducer, the equity path
and addition, `EdgeProofs` for the folds of halts, windows and figures.

**Export.** `ExportIsSound` carries `ExportInv`: a file holds ascending numbers of its own rows
(`LinesAscend`), none that it holds has a row of the file's before it that it lacks (`NoRowPassedOver`), the
cursor stands behind rows held everywhere they belong (`CursorBehind`), and of the rows an export set out
to write each is written or its file is still on the list (`WrittenOrLeft`). The lines a crash leaves are
the first of those that were missing, which is why the second holds.

**The desk's types.** `DeskIsTyped` states `DeskTypeOK` of the whole composition `MCSpec`: the invariants of
upgrades, timeline and tool calls (the last with `ToolsFit`, that a call in progress carries a row of the
ledger and sinks of its own process) hold together, whichever scene moves.

**Replays, backtests, folds.** `ReplaysAreSound` has three parts. `ReplayInv` says what the ledger at the path
is at each place of a run (`RunInv`), and that a `--once` run has printed, so far, its verdict and a prefix of
the timeline's orders (`OnceInv`). `TestInv` says that whoever is in the run directory holds its lock, and
that the paper ledger is a prefix of the feed: two reports that both saw a row past the window's end read
the same window, since no later row belongs to it. `FoldsAreSound` is a fact about any finite set of
stamps: ranks number the instants before the cutoff (`RankIs`), enough of them make the boundaries strictly
increasing (`BlocksAre`), and a fold replays exactly its block (`TestIs`). The assumptions are
`RunsAssumption`: a feed in order of time, a holdout that ends no earlier than it begins, at least one fold.

**Halts.** `HaltsAreSound` carries `HaltInv`: the halt the reducer folds and the halt the scans read back
agree with the rows, whatever the order of a manual halt, a loss and a rollover, and what a check in flight
remembers was true of the ledger it read.

**Reads.** `ReadsFailOver` carries `RpcInv`, which accounts for every endpoint a read has left behind: what
its last answer was, how often it said it was busy, and that none is tried once the read has its answer.

**Door.** `DoorIsSound` has three parts. `ApprovalInv`: an order that passed has its approval as the newest
row of its kind, and no approval passed two. `WindowInv`: the state that folds the paper rows as they come
is what reading the whole window at once gives (a `FoldFacts` instance). `ConfirmInv`: the file in place is
the draft of one writer and whole, although two confirmations share the name of the draft.

**Calls.** `CallsAreGuarded` carries `GuardsInv` and three more. `GuardsInv` says of each call which timers
it has (one deadline until it ends, one wake while it sleeps) and that it stands in the queue at most once;
`LockInv` that the lock is free only when nobody waits, or offered to the first in the queue; `RateInv` that
since each grant the later ones and the tokens left are no more than burst and growth allow, from which
any stretch of time follows; `RunnerInv` that the strides taken, but for the first, count against the time
the order has had.
A call cut off passes on the lock it held or was offered (`TimesOutKeeps`): without that step `LockInv` fails.

**Figures.** `FiguresAreSound` carries what every row adds. `FeesOk`: the cash the rows of the window moved,
less their trades, is what their fee columns add up to, counted once for each row. `FallsOk`: the running
peak and fall of the path are its greatest point and its deepest decline, with the declines compared as
cross products since they are ratios. Fees, accounts and path are three instances of `FoldFacts`.

**The desk's edges.** `EdgesAreSound` is about the composition `MCSpec`: the invariants of the approvals,
windows, confirmations, calls, reads, figures and halts hold together, whichever scene moves, and imply
`EdgesSound`, the property the run `desk` checks.

Only model-checked: the liveness properties (`BarrierDrains`, `FlattenReturns`, `CommandsConsumed`,
`LatchFollowed`, `RulesFollowActive`; liveness under fairness is out of the prover's reach). Every invariant
and action property of the runs that pass is a theorem. No module here declares a RECURSIVE operator.

## 5. What is abstracted, and what is not modelled

- In `PaperOrders` prices, sizes and fees are free choices; a sell takes any planned amount the code's
  caps allow. Whether a curve is thin, graduated or missing is one refusal (`no_reserves`). Breakers, loss
  halts and market-data steps may refuse at any time there; `Breakers` and `HaltLatch` say when they do.
- A chain that does not verify may make any step of `place` that verifies or appends raise
  (`PlaceRaises`, which is also the cancellation of its task). That the handle goes on refusing until it
  verifies again is in `LedgerStore`, not in `PaperOrders`, which allows more.
- `KillSwitch` assumes a ledger that accepts its appends. It has one reason and one UTC day (the case in
  which idempotency keys collide; that rows of other days or reasons do not is `AppendRow`'s free choice),
  an environment that is the same at every start, one desk process on the channel, no unreadable offset
  file, fewer commands than `getUpdates` returns at once, and no read of a file that the CLI is just
  writing.
- `LedgerStore` leaves out the 5 s busy timeout (BEGIN raises and nothing changes) and edits that
  recompute hashes: whoever rechains the whole file is not detected by any check in the code.
- A flatten run by the CLI has a process and an empty barrier of its own; `KillFlatten` models those
  in the desk process.
- `Breakers` meets the trip conditions of one breaker at a time; its clock is a few instants.
- `HaltLatch` composes detection, clear and `halt_status` as the library allows. In `src/` today
  `evaluate_halts` runs in the replay's risk seat and `state halt --clear` acts on the paper ledger.
- `SeatSupervision` does not look into a cycle; in `ServeTimeline` any order may be refused or rejected, since
  its check is `PaperOrders`; `ParamUpgrades` takes scores, bounds and spaces as constants.
- `LedgerAccounts` counts in small integers; the curve's payment for a unit is a choice. `WindowFigures`
  keeps ratios as pairs and leaves the Sharpe ratio out, which needs a square root.
- `GuardedCalls` lets the event loop run dry between two strides of the runner; the code yields one pass a
  stride, so there a lock is handed over a stride later.
- `JournalExport` has one exporter and `ReplayRuns` one replay process on a ledger at a time.
- `LaunchScan`, `AgentCalls`, `LiveDoor` abstract texts, prompts and phrases to what is decided by them.

Not modelled:

- **Degraded mode** (`supervisor/scheduler/degraded.py`): the outage buffer, its drain, the skew check and
  the feed probes have no caller in `src/` outside tests, so no program state reaches them.
- **`blind_flatten`'s gate and the graduation outbox** of the adapter; **health and metrics** readings; the
  **desk bus** mirrors, which nothing in `src/` calls.
- **`buy_out`, `sell_out` and the latency draw**: arithmetic on 64-bit reserves, a free choice elsewhere.
- **Parsing, validation, schemas, formatting, logging, prompts, CI gates, scripts and docs**: they hold no
  state that interleaves. The soak fixture's builder is the exception (`ReplayRuns`).

## 6. Plan

The modules of the plan are written: the order path (`PaperOrders`, `KillFlatten`, `KillSwitch`, `Breakers`,
`HaltLatch`), the ledger (`LedgerStore`, `LedgerAccounts`, `LedgerReports`, `JournalExport`), supervision and
serve (`SeatSupervision`, `ServeTimeline`, `ParamUpgrades`), and what stands around them. What they promise
of safety is proved; what remains to be wished for needs more than these tools give: the liveness
properties for every value of the constants, and what section 5 lists as not modelled.
