------------------------------- MODULE MCDesk -------------------------------
(***************************************************************************)
(* Instances of the modules around the order path.  The scene is picked    *)
(* once; the variables of the other scenes keep their initial values.      *)
(***************************************************************************)
EXTENDS ParamUpgrades, MCServe, DeskTools, TicketNumbers, ReplayRuns,
  LaunchScan, AgentCalls, LiveDoor, GuardedCalls,
  RpcFailover, WindowFigures, HaltLatch

VARIABLE scene

CONSTANTS p1, p2

\* Upgrades: p2 wins two declared spaces, so two runs promote it.
MCSpaces == {<<p2>>, <<p1, p2>>}
MCMean == [s \in ParamSets |-> IF s = p2 THEN 7 ELSE 5]
MCHoldoutNet == [s \in ParamSets |-> 1]

\* Tool calls: a seat with three tools, another's token, a tool off the roster.
Asked(seat, token, tool, body) ==
  [seat |-> seat, token |-> token, tool |-> tool, body |-> body]
MCRequests ==
  {Asked("s1", "s1", "note", "n"), Asked("s1", "s1", "retain", "m"),
   Asked("s1", "s1", "alert", "a"), Asked("s1", "s2", "note", "x"),
   Asked("s2", "s2", "alert", "a")}
MCGranted == {<<"s1", "note">>, <<"s1", "retain">>, <<"s1", "alert">>}

\* Bound: the calls of a run are of one tool, for the tools share no state, and
\* alerts are of one process, for the processes share nothing about alerts.
OneTool ==
  \A j, k \in DOMAIN calls :
    /\ calls[j].req.tool = calls[k].req.tool
    /\ calls[j].req.tool = "alert" => calls[j].host = calls[k].host

MCSinks == [h \in Hosts |-> IF h = "gateway" THEN {} ELSE {"k1"}]

\* Backtests: a paper ledger that runs past the holdout window.
Row(ts, net) == [ts |-> ts, net |-> net]
MCPaperFeed == <<Row(1, 5), Row(2, 3), Row(4, 2), Row(6, 9), Row(8, 1)>>

\* Launches: a plain one, one past the curve cutoff, one created at zero.
MCCarries == [m \in Launched |-> [meta |-> TRUE, curve |-> IF m = "m2" THEN 4 ELSE 1,
                                  dated |-> m # "m3"]]
Fill(type, mint, address, rug) ==
  [type |-> type, mint |-> mint, creator |-> address, rug |-> rug]
MCFills ==
  <<Fill("open", "m1", "d1", FALSE), Fill("open", "m2", "", FALSE),
    Fill("close", "m1", "", TRUE), Fill("close", "m2", "", TRUE),
    Fill("open", "m1", "d2", FALSE), Fill("close", "m1", "", TRUE)>>

\* Bound: an autonomous desk is given no approvals of people.
NoIdleApprovals ==
  engine.autonomy = "autonomous-paper" =>
    \A i \in DOMAIN apprRows : apprRows[i].kind = "autonomous_paper"

\* Guarded calls: an order that may outlast the runner's patience, two reads.
MCLimits == [c \in Guarded |-> IF c = Awaited THEN {5, 7} ELSE {5}]

\* Halts: down to a drawdown that is no loss of a day begun at 35.
MCEquityPath == <<35, 34>>

MCInit ==
  /\ UpInit /\ TickInit /\ ToolsInit /\ TicketsInit
  /\ RunsInit /\ ScanInit /\ AgentsInit /\ DoorInit /\ GuardedInit /\ RpcInit /\ FigureInit
  /\ HaltInit
  /\ scene \in {"upgrades", "timeline", "tools", "tickets", "replays", "backtests", "folds",
                "launches", "creators", "candidates",
                "agents", "readings", "panels",
                "approvals", "window", "confirms",
                "calls", "reads", "figures", "halts"}
  /\ scene # "timeline" => target = "s1"
  /\ scene # "replays" => disk = [events |-> 1, listed |-> 1]
  /\ scene # "approvals" => engine = [mode |-> "paper", autonomy |-> "manual-ticket"]
  /\ recording \in IF scene = "folds" THEN {S \cup {0} : S \in SUBSET (1..9)} ELSE {{}}
  /\ ticksIn \in IF scene = "candidates"
                  THEN UNION {[1..n -> TicksSeen] : n \in 0..2} ELSE {<<>>}

MCNext ==
  /\ UNCHANGED scene
  /\ IF scene = "upgrades" THEN UpNext ELSE UNCHANGED upVars
  /\ IF scene = "timeline" THEN TickNext ELSE UNCHANGED serveTimeVars
  /\ IF scene = "tools" THEN ToolsNext /\ OneTool' ELSE UNCHANGED toolVars
  /\ IF scene = "tickets" THEN TicketsNext ELSE UNCHANGED ticketVars
  /\ IF scene = "replays" THEN ReplayNext ELSE UNCHANGED replayVars
  /\ IF scene = "backtests" THEN TestNext ELSE UNCHANGED testVars
  /\ IF scene = "launches" THEN MonitorNext ELSE UNCHANGED monitorVars
  /\ IF scene = "creators" THEN BookNext ELSE UNCHANGED bookVars
  /\ IF scene = "agents" THEN CallsNext ELSE UNCHANGED callVars
  /\ IF scene = "readings" THEN Analyze ELSE UNCHANGED reading
  /\ IF scene = "panels" THEN ScorePanel ELSE UNCHANGED panel
  /\ IF scene = "approvals" THEN ApprovalNext /\ NoIdleApprovals' ELSE UNCHANGED approvalVars
  /\ IF scene = "window" THEN WindowNext ELSE UNCHANGED windowVars
  /\ IF scene = "confirms" THEN ConfirmNext ELSE UNCHANGED confirmVars
  /\ IF scene = "calls" THEN GuardedNext ELSE UNCHANGED guardedVars
  /\ IF scene = "reads" THEN RpcNext ELSE UNCHANGED rpcVars
  /\ IF scene = "figures" THEN FigureNext ELSE UNCHANGED figureVars
  /\ IF scene = "halts" THEN HaltNext ELSE UNCHANGED haltVars
  /\ UNCHANGED <<recording, ticksIn>>

deskVars == <<scene, upVars, serveTimeVars, toolVars, ticketVars, runsVars, scanVars,
             agentVars, doorVars, guardedVars, rpcVars, figureVars, haltVars>>
MCFairness == \A r \in Runners : WF_upVars(scene = "upgrades" /\ Serve(r))
MCSpec == MCInit /\ [][MCNext]_deskVars /\ MCFairness

\* Each component's promise, in the scenes in which it moves.
EdgesSound ==
  /\ scene \in {"approvals", "window", "confirms"} => DoorSound
  /\ scene = "calls" => CallsGuarded
  /\ scene = "reads" => FailoverSound
  /\ scene = "figures" => FiguresSound
  /\ scene = "halts" => HaltSound

DeskTypeOK == UpTypeOK /\ ServeTypeOK /\ ToolsTypeOK
=============================================================================
