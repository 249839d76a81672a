------------------------------ MODULE Heartbeat ------------------------------
(***************************************************************************)
(* The heartbeat of internal/heartbeat/service.go with its neighbours: the *)
(* chat model it shares with the turns of the agent and with consolidation *)
(* (one object, whose BindTools replaces the tools of every later call),   *)
(* the inbound channel it publishes to, and the shutdown that stops it.    *)
(*                                                                         *)
(* The gateway's model is a chatModelWrapper (provider/factory.go:14),     *)
(* which embeds model.ChatModel and so has no WithTools: consolidation     *)
(* always takes the BindTools branch of memory.go:176.  The react agent    *)
(* binds the tools it is built with once, in NewAgent.                     *)
(*                                                                         *)
(* Left out: the interval (a tick may come at any time; the ticker's       *)
(* channel keeps one) and the wording of prompts.                          *)
(***************************************************************************)
EXTENDS Naturals, FiniteSets

CONSTANTS
    HbEnabled,       \* heartbeat.enabled of the configuration; FALSE by default
    HbInboundCap,    \* capacity of the inbound channel
    Consolidators,   \* sessions that may consolidate
    Builders,        \* tools of the agents that react.NewAgent builds later: empty in the
                     \* gateway, which has neither MCP servers nor subagents
    MaxHbTurns       \* bound on the model calls of agent turns

VARIABLES
    hb,          \* where the goroutine of Start is
    tickPending, \* a tick waits in ticker.C
    stopClosed,  \* stopCh is closed
    guess,       \* contentIsTask of the content read by the tick in progress
    bound,       \* the tools the shared chat model was bound to last
    memo,        \* [Consolidators -> phase of the call to Consolidate]
    turnTools,   \* the tools the last model call of a turn was made with
    hbTurns,     \* model calls of turns so far
    hbInbound,   \* messages waiting in the inbound channel
    hbClosed,    \* the inbound channel is closed
    gateway,     \* where StartGracefulShutdown is
    shutdownDone \* the channel it returns is closed

modelVars == <<bound, memo, turnTools, hbTurns>>
hbBusVars == <<hbInbound, hbClosed>>
downVars == <<gateway, shutdownDone>>
hbVars == <<hb, tickPending, stopClosed, guess, downVars, modelVars, hbBusVars>>

ToolSets == {"agent", "heartbeat", "save_memory", "subagent"}

HbTypeOK ==
    /\ hb \in {"none", "waiting", "reading", "binding", "asking", "publishing", "exited"}
    /\ tickPending \in BOOLEAN /\ stopClosed \in BOOLEAN /\ guess \in BOOLEAN
    /\ bound \in ToolSets /\ turnTools \in ToolSets
    /\ memo \in [Consolidators -> {"idle", "forced", "allowed"}]
    /\ hbTurns \in 0 .. MaxHbTurns
    /\ hbInbound \in 0 .. HbInboundCap /\ hbClosed \in BOOLEAN
    /\ gateway \in {"running", "cancelled", "closed", "stopping", "components", "stopped",
                    "panicked"}
    /\ shutdownDone \in BOOLEAN

\* StartWithBus returns nil, and starts nothing, when the heartbeat is disabled.
HbInit ==
    /\ hb = IF HbEnabled THEN "waiting" ELSE "none"
    /\ tickPending = FALSE /\ stopClosed = FALSE /\ guess = FALSE
    /\ bound = "agent" /\ turnTools = "agent"
    /\ memo = [s \in Consolidators |-> "idle"]
    /\ hbTurns = 0
    /\ hbInbound = 0 /\ hbClosed = FALSE
    /\ gateway = "running" /\ shutdownDone = FALSE

RootDone == gateway # "running"
HbGoes(from, to) == hb = from /\ hb' = to

-----------------------------------------------------------------------------
(* The ticker loop and Tick                                                 *)

TickerFires ==
    /\ hb \notin {"none", "exited"} /\ ~tickPending
    /\ tickPending' = TRUE
    /\ UNCHANGED <<hb, stopClosed, guess, downVars, modelVars, hbBusVars>>

WakeOnTick ==
    /\ HbGoes("waiting", "reading")
    /\ tickPending /\ tickPending' = FALSE
    /\ UNCHANGED <<stopClosed, guess, downVars, modelVars, hbBusVars>>

WakeOnStop_TicksFirst ==
    /\ HbGoes("waiting", "exited")
    /\ stopClosed /\ ~tickPending
    /\ UNCHANGED <<tickPending, stopClosed, guess, downVars, modelVars, hbBusVars>>

WakeOnStop ==
    /\ HbGoes("waiting", "exited")
    /\ stopClosed
    /\ tickPending' = FALSE
    /\ UNCHANGED <<stopClosed, guess, downVars, modelVars, hbBusVars>>

\* HEARTBEAT.md is missing, unreadable or empty; or it has content, with or without
\* one of the markers of contentIsTask.
TickReads ==
    /\ \/ HbGoes("reading", "waiting") /\ guess' = FALSE
       \/ HbGoes("reading", "binding") /\ guess' \in BOOLEAN
    /\ UNCHANGED <<tickPending, stopClosed, downVars, modelVars, hbBusVars>>

TickEnds == hb' = "waiting"
Executes == hb' = "publishing"
Heuristic == IF guess THEN Executes ELSE TickEnds

\* BindTools on the model everyone shares, or its error and the heuristic.
DecideBinds ==
    /\ hb = "binding"
    /\ \/ hb' = "asking" /\ bound' = "heartbeat"
       \/ Heuristic /\ UNCHANGED bound
    /\ UNCHANGED <<tickPending, stopClosed, guess, downVars, memo, turnTools, hbTurns, hbBusVars>>

\* Generate fails, or answers without a tool call, or with a call of a tool that is
\* bound by now: only the heartbeat's has an action "run".
DecideAsks ==
    /\ hb = "asking"
    /\ \/ Heuristic
       \/ TickEnds
       \/ bound = "heartbeat" /\ Executes
    /\ UNCHANGED <<tickPending, stopClosed, guess, downVars, modelVars, hbBusVars>>

\* PublishInbound with the root context: it waits for room, but not after a shutdown
\* began.  A send on the closed channel is recovered, i.e. dropped.
TickPublishes ==
    /\ HbGoes("publishing", "waiting")
    /\ \/ ~hbClosed /\ hbInbound < HbInboundCap /\ hbInbound' = hbInbound + 1
       \/ (hbClosed \/ RootDone) /\ UNCHANGED hbInbound
    /\ UNCHANGED <<tickPending, stopClosed, guess, downVars, modelVars, hbClosed>>

-----------------------------------------------------------------------------
(* The others that use the chat model                                       *)

\* A model call of the react loop of a turn.
TurnAsks ==
    /\ hbTurns < MaxHbTurns
    /\ hbTurns' = hbTurns + 1
    /\ turnTools' = bound
    /\ UNCHANGED <<hb, tickPending, stopClosed, guess, downVars, bound, memo, hbBusVars>>

\* Consolidate binds save_memory; an error of BindTools ends it.
MemoryBinds(s) ==
    /\ memo[s] = "idle"
    /\ bound' = "save_memory"
    /\ memo' = [memo EXCEPT ![s] = "forced"]
    /\ UNCHANGED <<hb, tickPending, stopClosed, guess, downVars, turnTools, hbTurns, hbBusVars>>

\* Generate with a forced tool choice, once more with an optional one if the model
\* does not support that.
MemoryAsks(s) ==
    /\ \/ memo[s] = "forced" /\ memo' = [memo EXCEPT ![s] = "allowed"]
       \/ memo[s] # "idle" /\ memo' = [memo EXCEPT ![s] = "idle"]
    /\ UNCHANGED <<hb, tickPending, stopClosed, guess, downVars, bound, turnTools, hbTurns, hbBusVars>>

\* react.NewAgent binds its tools: the agent is rebuilt when MCP servers are connected,
\* and every Spawn builds an agent with the restricted tools.
AgentBuilt(tools) ==
    /\ tools # bound
    /\ bound' = tools
    /\ UNCHANGED <<hb, tickPending, stopClosed, guess, downVars, memo, turnTools, hbTurns, hbBusVars>>

-----------------------------------------------------------------------------
(* The dispatcher and the shutdown                                          *)

\* The dispatcher receives until the root context is done.
HbReceive ==
    /\ ~RootDone /\ hbInbound > 0
    /\ hbInbound' = hbInbound - 1
    /\ UNCHANGED <<hb, tickPending, stopClosed, guess, downVars, modelVars, hbClosed>>

GatewayGoes(from, to) == gateway = from /\ gateway' = to

CancelRoot ==
    /\ GatewayGoes("running", "cancelled")
    /\ UNCHANGED <<hb, tickPending, stopClosed, guess, shutdownDone, modelVars, hbBusVars>>

CloseBus ==
    /\ GatewayGoes("cancelled", "closed")
    /\ hbClosed' = TRUE
    /\ UNCHANGED <<hb, tickPending, stopClosed, guess, shutdownDone, modelVars, hbInbound>>

\* wg.Wait returns or the timeout passes.
WaitWorkers ==
    /\ GatewayGoes("closed", "stopping")
    /\ UNCHANGED <<hb, tickPending, stopClosed, guess, shutdownDone, modelVars, hbBusVars>>

\* stopComponents calls Stop on the heartbeat whenever the interface is not nil.  The
\* gateway stores the *HeartbeatService of StartWithBus in it, and an interface that
\* holds a nil pointer is not nil: Stop dereferences it.
StopHeartbeat ==
    /\ gateway = "stopping"
    /\ gateway' = IF HbEnabled THEN "components" ELSE "panicked"
    /\ stopClosed' = HbEnabled
    /\ UNCHANGED <<hb, tickPending, guess, shutdownDone, modelVars, hbBusVars>>

\* The rest of stopComponents: the channels are stopped.
StopChannels ==
    /\ GatewayGoes("components", "stopped")
    /\ UNCHANGED <<hb, tickPending, stopClosed, guess, shutdownDone, modelVars, hbBusVars>>

\* The deferred close runs when the sequence returns, and when a panic unwinds it.
CloseDone ==
    /\ gateway \in {"stopped", "panicked"} /\ ~shutdownDone
    /\ shutdownDone' = TRUE
    /\ UNCHANGED <<hb, tickPending, stopClosed, guess, gateway, modelVars, hbBusVars>>

TickStep == TickReads \/ DecideBinds \/ DecideAsks \/ TickPublishes
ShutdownStep == CloseBus \/ WaitWorkers \/ StopHeartbeat \/ StopChannels \/ CloseDone

HbNext ==
    \/ TickerFires \/ WakeOnTick \/ WakeOnStop \/ TickStep
    \/ TurnAsks
    \/ \E s \in Consolidators : MemoryBinds(s) \/ MemoryAsks(s)
    \/ \E tools \in Builders : AgentBuilt(tools)
    \/ HbReceive
    \/ CancelRoot \/ ShutdownStep

HbSpec == HbInit /\ [][HbNext]_hbVars

\* Goroutines are scheduled and model calls return.  select takes a ready case at
\* random, so a stop that stays ready is not passed over for ever: SF for WakeOnStop.
HbFairness ==
    /\ WF_hbVars(TickStep) /\ WF_hbVars(ShutdownStep) /\ WF_hbVars(HbReceive)
    /\ SF_hbVars(WakeOnStop)

HbFairSpec == HbSpec /\ HbFairness

-----------------------------------------------------------------------------
(* Properties                                                               *)

\* Once the shutdown has begun it completes and says so, and the heartbeat's goroutine
\* ends, whatever its tick was doing: waiting for the model or for room in the channel
\* of a dispatcher that is gone (shutdown.go:50-127, service.go:53-63).
HeartbeatShutsDown == RootDone ~> gateway = "stopped" /\ shutdownDone /\ hb = "exited"

\* The channel of StartGracefulShutdown "closes when shutdown is complete"
\* (shutdown.go:49), with or without a heartbeat: what waits for it may exit.
ShutdownIsComplete == shutdownDone => gateway = "stopped"

\* A turn calls the model with the tools of the agent, not with those of a heartbeat, a
\* consolidation or a subagent that used the same chat model before.
TurnsHaveTheirTools == turnTools = "agent"
=============================================================================
