------------------------------ MODULE Subagents ------------------------------
(***************************************************************************)
(* Background tasks of internal/subagent/manager.go: the tool call that    *)
(* spawns one, the goroutine that runs it, and the calls that cancel tasks *)
(* by session or all of them.  The two sync.Maps are modelled by what      *)
(* their operations see: a Load, Store or Delete is one step, a Range is   *)
(* one step per key.                                                       *)
(*                                                                         *)
(* The gateway passes no subagent manager to the agent (gateway.go:95), so *)
(* this is a model of the package and of the spawn tool, not of a running  *)
(* gateway.  What a task computes is left out, and so is the channel its   *)
(* result is published on, which is InboundLoop's: publishing only delays  *)
(* the end of the task.                                                    *)
(***************************************************************************)
EXTENDS Naturals, FiniteSets

CONSTANTS
    Tasks,          \* successful calls of Spawn; each has an id of its own (taskCounter)
    TaskSession,    \* [Tasks -> sessions]: the session key given to Spawn; the spawn tool
                    \* gives the empty key to all
    Cancellers,     \* goroutines that call CancelBySession and CancelAll
    MaxCancels,     \* calls of each canceller
    NoSession       \* the session of a CancelAll

SubSessions == {TaskSession[t] : t \in Tasks}
SetIds == 1 .. Cardinality(Tasks)      \* the *sync.Map objects of sessionTasks
NoSet == 0

ASSUME TasksAssumption ==
    /\ IsFiniteSet(Tasks) /\ DOMAIN TaskSession = Tasks
    /\ NoSession \notin SubSessions /\ MaxCancels \in Nat

VARIABLES
    task,        \* [Tasks -> phase]
    runningTasks,\* keys of runningTasks
    cancelled,   \* tasks whose context is cancelled
    sessionTasks,\* [SubSessions -> SetIds \cup {NoSet}]
    members,     \* [SetIds -> SUBSET Tasks]
    held,        \* [Tasks -> SetIds \cup {NoSet}]: what LoadOrStore returned
    call,        \* [Cancellers -> the call in progress, or the last one]
    calls,       \* [Cancellers -> Nat]
    overlapped   \* history: tasks whose Spawn overlapped a CancelBySession of their session

mapVars == <<sessionTasks, members, held>>
subVars == <<task, runningTasks, cancelled, call, calls, overlapped, mapVars>>

TaskPhases == {"none", "registered", "listing", "running", "leaving", "done"}

\* A call: must are the keys its Range found as it began, seen those it has visited,
\* at the one it is visiting.  owed is history: the tasks whose Spawn had returned when
\* the call began, and those a CancelAll found registered.
Calls == [op : {"idle", "range", "delete", "all"}, session : SubSessions \cup {NoSession},
          set : SetIds \cup {NoSet}, must : SUBSET Tasks, seen : SUBSET Tasks,
          at : SUBSET Tasks, owed : SUBSET Tasks]
NoCall == [op |-> "idle", session |-> NoSession, set |-> NoSet, must |-> {}, seen |-> {},
           at |-> {}, owed |-> {}]

SubTypeOK ==
    /\ task \in [Tasks -> TaskPhases]
    /\ runningTasks \subseteq Tasks
    /\ cancelled \subseteq Tasks
    /\ overlapped \subseteq Tasks
    /\ sessionTasks \in [SubSessions -> SetIds \cup {NoSet}]
    /\ members \in [SetIds -> SUBSET Tasks]
    /\ held \in [Tasks -> SetIds \cup {NoSet}]
    /\ call \in [Cancellers -> Calls]
    /\ calls \in [Cancellers -> 0 .. MaxCancels]

SubInit ==
    /\ task = [t \in Tasks |-> "none"]
    /\ runningTasks = {} /\ cancelled = {} /\ overlapped = {}
    /\ sessionTasks = [s \in SubSessions |-> NoSet]
    /\ members = [i \in SetIds |-> {}]
    /\ held = [t \in Tasks |-> NoSet]
    /\ call = [c \in Cancellers |-> NoCall]
    /\ calls = [c \in Cancellers |-> 0]

Spawning(t) == task[t] \in {"registered", "listing"}
Over(t) == task[t] \in {"leaving", "done"}
Cancelling(s) == \E c \in Cancellers : call[c].op \in {"range", "delete"}
                                       /\ call[c].session = s
Goes(t, from, to) == task[t] = from /\ task' = [task EXCEPT ![t] = to]

-----------------------------------------------------------------------------
(* Spawn.  When the react agent cannot be built it returns an error before  *)
(* it has stored anything.                                                  *)

\* The task's context is derived from the caller's; its cancel function is stored.
SpawnRegisters(t) ==
    /\ Goes(t, "none", "registered")
    /\ runningTasks' = runningTasks \cup {t}
    /\ overlapped' = IF Cancelling(TaskSession[t]) THEN overlapped \cup {t} ELSE overlapped
    /\ UNCHANGED <<cancelled, call, calls, mapVars>>

SpawnFindsSet_Stores(t) ==
    /\ Goes(t, "registered", "listing")
    /\ \E i \in SetIds :
          /\ \A u \in Tasks : held[u] < i
          /\ \A j \in SetIds : j < i => \E u \in Tasks : held[u] = j
          /\ held' = [held EXCEPT ![t] = i]
          /\ sessionTasks' = [sessionTasks EXCEPT ![TaskSession[t]] = i]
    /\ UNCHANGED <<runningTasks, cancelled, call, calls, overlapped, members>>

\* LoadOrStore of the session's set, a new one when the session has none ...
SpawnFindsSet(t) ==
    /\ Goes(t, "registered", "listing")
    /\ \E i \in SetIds :
          /\ IF sessionTasks[TaskSession[t]] # NoSet THEN i = sessionTasks[TaskSession[t]]
             ELSE \A u \in Tasks : held[u] < i
          /\ \A j \in SetIds : j < i => \E u \in Tasks : held[u] = j
          /\ held' = [held EXCEPT ![t] = i]
          /\ sessionTasks' = [sessionTasks EXCEPT ![TaskSession[t]] = i]
    /\ UNCHANGED <<runningTasks, cancelled, call, calls, overlapped, members>>

\* ... then Store in it, whether or not the map still refers to it; the goroutine starts.
SpawnLists(t) ==
    /\ Goes(t, "listing", "running")
    /\ members' = [members EXCEPT ![held[t]] = @ \cup {t}]
    /\ UNCHANGED <<runningTasks, cancelled, call, calls, overlapped, sessionTasks, held>>

-----------------------------------------------------------------------------
(* The goroutine of a task                                                  *)

\* The stream could not be opened, or was read to its end, or broke off because the
\* context was cancelled: each way the result is published and the deferred Delete runs ...
TaskEnds(t) ==
    /\ Goes(t, "running", "leaving")
    /\ runningTasks' = runningTasks \ {t}
    /\ UNCHANGED <<cancelled, call, calls, overlapped, mapVars>>

\* ... and then the deferred cancel.
TaskReturns(t) ==
    /\ Goes(t, "leaving", "done")
    /\ cancelled' = cancelled \cup {t}
    /\ UNCHANGED <<runningTasks, call, calls, overlapped, mapVars>>

\* The turn that spawned the task ends, which cancels the context it gave to Spawn
\* (agent.go:380).
TurnOfTaskEnds(t) ==
    /\ task[t] = "running" /\ t \notin cancelled
    /\ cancelled' = cancelled \cup {t}
    /\ UNCHANGED <<task, runningTasks, call, calls, overlapped, mapVars>>

-----------------------------------------------------------------------------
(* Cancelling                                                               *)

\* What is kept of a call that is over: the tasks it owed that still run uncancelled.
Returns(c) ==
    call' = [call EXCEPT ![c] = [NoCall EXCEPT !.session = call[c].session,
                 !.owed = {t \in call[c].owed : t \notin cancelled /\ ~Over(t)}]]

\* Load of the session's set, and the start of its Range; nothing to do without one.
BeginCancel(c, s) ==
    /\ call[c].op = "idle" /\ calls[c] < MaxCancels
    /\ calls' = [calls EXCEPT ![c] = @ + 1]
    /\ LET i == sessionTasks[s]
           owed == {t \in Tasks : TaskSession[t] = s /\ task[t] = "running"}
       IN  call' = [call EXCEPT ![c] =
             IF i = NoSet THEN [NoCall EXCEPT !.session = s, !.owed = owed \ cancelled]
             ELSE [op |-> "range", session |-> s, set |-> i, must |-> members[i],
                   seen |-> {}, at |-> {}, owed |-> owed]]
    /\ overlapped' = overlapped \cup {t \in Tasks : TaskSession[t] = s /\ Spawning(t)}
    /\ UNCHANGED <<task, runningTasks, cancelled, mapVars>>

BeginCancelAll(c) ==
    /\ call[c].op = "idle" /\ calls[c] < MaxCancels
    /\ calls' = [calls EXCEPT ![c] = @ + 1]
    /\ call' = [call EXCEPT ![c] = [NoCall EXCEPT !.op = "all", !.must = runningTasks,
            !.owed = {t \in Tasks : Spawning(t) \/ task[t] = "running"}]]
    /\ UNCHANGED <<task, runningTasks, cancelled, overlapped, mapVars>>

\* The keys a Range may visit next; keys stored while it runs may be missed.
Keys(c) == (IF call[c].op = "all" THEN runningTasks ELSE members[call[c].set]) \ call[c].seen

\* One key: if the task is in runningTasks its context is cancelled ...
CancelVisits(c, t) ==
    /\ call[c].op \in {"range", "all"} /\ call[c].at = {}
    /\ t \in Keys(c)
    /\ call' = [call EXCEPT ![c].seen = @ \cup {t},
                            ![c].at = {t} \cap runningTasks]
    /\ cancelled' = cancelled \cup ({t} \cap runningTasks)
    /\ UNCHANGED <<task, runningTasks, calls, overlapped, mapVars>>

\* ... and then its entry is deleted.
CancelForgets(c) ==
    /\ call[c].at # {}
    /\ runningTasks' = runningTasks \ call[c].at
    /\ call' = [call EXCEPT ![c].at = {}]
    /\ UNCHANGED <<task, cancelled, calls, overlapped, mapVars>>

CancelRanged(c) ==
    /\ call[c].op \in {"range", "all"} /\ call[c].at = {}
    /\ call[c].must \cap Keys(c) = {}
    /\ IF call[c].op = "all" THEN Returns(c) ELSE call' = [call EXCEPT ![c].op = "delete"]
    /\ UNCHANGED <<task, runningTasks, cancelled, calls, overlapped, mapVars>>

\* sessionTasks.Delete: whatever set the session has by now.
CancelDeletes(c) ==
    /\ call[c].op = "delete"
    /\ sessionTasks' = [sessionTasks EXCEPT ![call[c].session] = NoSet]
    /\ Returns(c)
    /\ UNCHANGED <<task, runningTasks, cancelled, calls, overlapped, members, held>>

CancelStep(c) ==
    \/ CancelForgets(c) \/ CancelRanged(c) \/ CancelDeletes(c)
    \/ \E t \in Tasks : CancelVisits(c, t)

SubNext ==
    \/ \E t \in Tasks :
          \/ SpawnRegisters(t) \/ SpawnFindsSet(t) \/ SpawnLists(t)
          \/ TaskEnds(t) \/ TaskReturns(t) \/ TurnOfTaskEnds(t)
    \/ \E c \in Cancellers :
          \/ CancelStep(c)
          \/ BeginCancelAll(c)
          \/ \E s \in SubSessions : BeginCancel(c, s)

SubSpec == SubInit /\ [][SubNext]_subVars

-----------------------------------------------------------------------------
(* Properties                                                               *)

\* When CancelAll has returned every task it found registered is cancelled or over,
\* and when CancelBySession has, every task of the session whose Spawn had returned and
\* overlapped no call for the session.  It relates the order in which the calls cancel,
\* delete entries and delete the session's set (manager.go:92-122) to every other
\* canceller, spawn and finishing task.
CancelReaches ==
    \A c \in Cancellers : call[c].op = "idle" =>
        call[c].owed \subseteq IF call[c].session = NoSession THEN {} ELSE overlapped

\* manager.go:91: "CancelBySession cancels all subagent tasks for a session", those too
\* whose Spawn overlapped an earlier call.
CancelBySessionReaches == \A c \in Cancellers : call[c].op = "idle" => call[c].owed = {}
=============================================================================
