------------------------------ MODULE ToolsProofs ------------------------------
(***************************************************************************)
(* Proofs about the parts of a turn that share no state, one after the     *)
(* other: what a cancellation of subagents reaches, for any tasks,         *)
(* sessions and cancellers and any number of their calls; the types, the   *)
(* breaker, the calls after a refusal and the number of calls of a request *)
(* of the wrappers around the model, for any number of callers and         *)
(* fallbacks, any number of tries and any threshold; and that the          *)
(* configuration file is never torn, for any number of processes, any      *)
(* files to lay out and any number of power failures.                      *)
(***************************************************************************)
EXTENDS Subagents, ModelFallback, Onboarding, TLAPS

-----------------------------------------------------------------------------
(* Subagents                                                                *)

Live(t) == task[t] \in {"registered", "listing", "running"}
Settled(t) == t \in cancelled \/ Over(t)

-----------------------------------------------------------------------------
(* The invariant                                                            *)

\* A task is taken from runningTasks early only by one who has cancelled it.
Forgotten == \A t \in Tasks : Live(t) /\ t \notin runningTasks => t \in cancelled

\* What is in a set was listed there by its Spawn.
Listed == \A i \in SetIds : \A t \in members[i] : task[t] \in {"running", "leaving", "done"}

\* The session's entry leads to each of its tasks, except for one that is cancelled or
\* overlapped a call.
Findable ==
    \A t \in Tasks \ (overlapped \cup cancelled) :
        LET i == sessionTasks[TaskSession[t]] IN
        /\ task[t] = "listing" => i # NoSet /\ held[t] = i
        /\ task[t] = "running" => i # NoSet /\ t \in members[i]

\* A call in progress.  It has settled what it has visited; what it owes is still to be
\* visited, or settled, or overlapped a call; and a CancelBySession owes every live task of
\* its session that overlaps none.
CallOK(c) ==
    LET k == call[c] IN
    /\ k.at \subseteq cancelled
    /\ \A t \in k.seen : Settled(t)
    /\ \A t \in k.owed : task[t] # "none"
    /\ k.op = "all" => k.session = NoSession /\ \A t \in k.owed : t \in k.must \/ Settled(t)
    /\ k.op \in {"range", "delete"} =>
          /\ k.session \in SubSessions
          /\ \A t \in Tasks : TaskSession[t] = k.session /\ Live(t)
                => t \in k.owed \cup overlapped \cup cancelled
    /\ k.op = "range" =>
          /\ k.set \in SetIds /\ k.must \subseteq members[k.set]
          /\ \A t \in k.owed : t \in k.must \cup overlapped \/ Settled(t)
    /\ k.op = "delete" => \A t \in k.owed : t \in overlapped \/ Settled(t)
    /\ k.op = "idle" => k.owed \subseteq IF k.session = NoSession THEN {} ELSE overlapped

SubInv == SubTypeOK /\ Forgotten /\ Listed /\ Findable /\ \A c \in Cancellers : CallOK(c)

-----------------------------------------------------------------------------
(* What every step leaves alone                                             *)

\* What is cancelled, over, overlapped, listed or spawned stays so.
Grows ==
    /\ cancelled \subseteq cancelled' /\ overlapped \subseteq overlapped'
    /\ \A t \in Tasks : (Settled(t) => Settled(t)') /\ (task[t] # "none" => task'[t] # "none")
    /\ \A i \in SetIds : members[i] \subseteq members'[i]

\* A task that comes alive while its session is being cancelled overlaps the call.
NewOverlap ==
    \A t \in Tasks : Live(t)' => Live(t) \/ (Cancelling(TaskSession[t]) => t \in overlapped')

LEMMA CallKept ==
    ASSUME SubTypeOK, NEW c \in Cancellers, CallOK(c), call'[c] = call[c], Grows, NewOverlap
    PROVE  CallOK(c)'
<1> DEFINE k == call[c]
<1>1. k \in Calls
  BY DEF SubTypeOK
<1>2. k.seen \subseteq Tasks /\ k.owed \subseteq Tasks /\ k.must \subseteq Tasks
  BY <1>1 DEF Calls
<1>3. /\ k.at \subseteq cancelled'
      /\ \A t \in k.seen : Settled(t)'
      /\ \A t \in k.owed : task'[t] # "none"
  BY <1>2 DEF CallOK, Grows
<1>4. k.op = "all" => k.session = NoSession /\ \A t \in k.owed : t \in k.must \/ Settled(t)'
  BY <1>2 DEF CallOK, Grows
<1>5. ASSUME k.op \in {"range", "delete"}
      PROVE  /\ k.session \in SubSessions
             /\ \A t \in Tasks : TaskSession[t] = k.session /\ Live(t)'
                   => t \in k.owed \cup overlapped' \cup cancelled'
  <2>1. k.session \in SubSessions
    BY <1>5 DEF CallOK
  <2>2. ASSUME NEW t \in Tasks, TaskSession[t] = k.session, Live(t)'
        PROVE  t \in k.owed \cup overlapped' \cup cancelled'
    <3>1. CASE Live(t)
      BY <1>5, <2>2, <3>1 DEF CallOK, Grows
    <3>2. CASE ~Live(t)
      <4>1. Cancelling(TaskSession[t])
        BY <1>5, <2>2 DEF Cancelling
      <4> QED BY <2>2, <3>2, <4>1 DEF NewOverlap
    <3> QED BY <3>1, <3>2
  <2> QED BY <2>1, <2>2
<1>6. k.op = "range" =>
          /\ k.set \in SetIds /\ k.must \subseteq members'[k.set]
          /\ \A t \in k.owed : t \in k.must \cup overlapped' \/ Settled(t)'
  BY <1>2 DEF CallOK, Grows
<1>7. k.op = "delete" => \A t \in k.owed : t \in overlapped' \/ Settled(t)'
  BY <1>2 DEF CallOK, Grows
<1>8. k.op = "idle" => k.owed \subseteq IF k.session = NoSession THEN {} ELSE overlapped'
  BY DEF CallOK, Grows
<1> QED BY <1>3, <1>4, <1>5, <1>6, <1>7, <1>8 DEF CallOK

-----------------------------------------------------------------------------
(* The steps                                                                *)

LEMMA SubInitially == SubInit => SubInv
<1> SUFFICES ASSUME SubInit PROVE SubInv
  OBVIOUS
<1>1. NoCall \in Calls
  BY DEF NoCall, Calls
<1>2. SubTypeOK
  BY <1>1, TasksAssumption DEF SubInit, SubTypeOK, TaskPhases
<1>3. Forgotten /\ Listed /\ Findable
  BY DEF SubInit, Forgotten, Listed, Findable, Live
<1>4. \A c \in Cancellers : CallOK(c)
  BY DEF SubInit, CallOK, NoCall
<1> QED BY <1>2, <1>3, <1>4 DEF SubInv

LEMMA SpawnRegistersKeeps ==
    ASSUME SubInv, NEW t \in Tasks, SpawnRegisters(t)
    PROVE  SubInv'
<1>0. SubTypeOK /\ Forgotten /\ Listed /\ Findable /\ \A c \in Cancellers : CallOK(c)
  BY DEF SubInv
<1>1. SubTypeOK'
  BY <1>0, TasksAssumption DEF SpawnRegisters, Goes, SubTypeOK, TaskPhases, mapVars, SubSessions
<1>2. Forgotten'
  BY <1>0 DEF SpawnRegisters, Goes, SubTypeOK, Forgotten, Live, mapVars
<1>3. Listed'
  BY <1>0 DEF SpawnRegisters, Goes, SubTypeOK, Listed, mapVars
<1>4. Findable'
  BY <1>0 DEF SpawnRegisters, Goes, SubTypeOK, Findable, SubSessions, SetIds, NoSet, mapVars
<1>5. Grows
  BY <1>0 DEF SpawnRegisters, Goes, SubTypeOK, Grows, Settled, Over, mapVars
<1>6. NewOverlap
  BY <1>0 DEF SpawnRegisters, Goes, SubTypeOK, NewOverlap, Live, mapVars
<1>7. call' = call
  BY DEF SpawnRegisters, mapVars
<1>8. \A c \in Cancellers : CallOK(c)'
  BY <1>0, <1>5, <1>6, <1>7, CallKept
<1> QED BY <1>1, <1>2, <1>3, <1>4, <1>8 DEF SubInv

LEMMA SpawnFindsSetKeeps ==
    ASSUME SubInv, NEW t \in Tasks, SpawnFindsSet(t)
    PROVE  SubInv'
<1>0. SubTypeOK /\ Forgotten /\ Listed /\ Findable /\ \A c \in Cancellers : CallOK(c)
  BY DEF SubInv
<1>1. SubTypeOK'
  BY <1>0, TasksAssumption DEF SpawnFindsSet, Goes, SubTypeOK, TaskPhases, mapVars, SubSessions
<1>2. Forgotten'
  BY <1>0 DEF SpawnFindsSet, Goes, SubTypeOK, Forgotten, Live, mapVars
<1>3. Listed'
  BY <1>0 DEF SpawnFindsSet, Goes, SubTypeOK, Listed, mapVars
<1>4. Findable'
  BY <1>0 DEF SpawnFindsSet, Goes, SubTypeOK, Findable, SubSessions, SetIds, NoSet, mapVars
<1>5. Grows
  BY <1>0 DEF SpawnFindsSet, Goes, SubTypeOK, Grows, Settled, Over, mapVars
<1>6. NewOverlap
  BY <1>0 DEF SpawnFindsSet, Goes, SubTypeOK, NewOverlap, Live, mapVars
<1>7. call' = call
  BY DEF SpawnFindsSet, mapVars
<1>8. \A c \in Cancellers : CallOK(c)'
  BY <1>0, <1>5, <1>6, <1>7, CallKept
<1> QED BY <1>1, <1>2, <1>3, <1>4, <1>8 DEF SubInv

LEMMA SpawnListsKeeps ==
    ASSUME SubInv, NEW t \in Tasks, SpawnLists(t)
    PROVE  SubInv'
<1>0. SubTypeOK /\ Forgotten /\ Listed /\ Findable /\ \A c \in Cancellers : CallOK(c)
  BY DEF SubInv
<1>1. SubTypeOK'
  BY <1>0, TasksAssumption, ZenonT(60) DEF SpawnLists, Goes, SubTypeOK, TaskPhases, mapVars, SubSessions
<1>2. Forgotten'
  BY <1>0 DEF SpawnLists, Goes, SubTypeOK, Forgotten, Live, mapVars
<1>3. Listed'
  BY <1>0 DEF SpawnLists, Goes, SubTypeOK, Listed, mapVars
<1>4. Findable'
  BY <1>0 DEF SpawnLists, Goes, SubTypeOK, Findable, SubSessions, SetIds, NoSet, mapVars
<1>5. Grows
  BY <1>0 DEF SpawnLists, Goes, SubTypeOK, Grows, Settled, Over, mapVars
<1>6. NewOverlap
  BY <1>0 DEF SpawnLists, Goes, SubTypeOK, NewOverlap, Live, mapVars
<1>7. call' = call
  BY DEF SpawnLists, mapVars
<1>8. \A c \in Cancellers : CallOK(c)'
  BY <1>0, <1>5, <1>6, <1>7, CallKept
<1> QED BY <1>1, <1>2, <1>3, <1>4, <1>8 DEF SubInv

LEMMA TaskEndsKeeps ==
    ASSUME SubInv, NEW t \in Tasks, TaskEnds(t)
    PROVE  SubInv'
<1>0. SubTypeOK /\ Forgotten /\ Listed /\ Findable /\ \A c \in Cancellers : CallOK(c)
  BY DEF SubInv
<1>1. SubTypeOK'
  BY <1>0, TasksAssumption DEF TaskEnds, Goes, SubTypeOK, TaskPhases, mapVars, SubSessions
<1>2. Forgotten'
  BY <1>0 DEF TaskEnds, Goes, SubTypeOK, Forgotten, Live, mapVars
<1>3. Listed'
  BY <1>0 DEF TaskEnds, Goes, SubTypeOK, Listed, mapVars
<1>4. Findable'
  BY <1>0 DEF TaskEnds, Goes, SubTypeOK, Findable, SubSessions, SetIds, NoSet, mapVars
<1>5. Grows
  BY <1>0 DEF TaskEnds, Goes, SubTypeOK, Grows, Settled, Over, mapVars
<1>6. NewOverlap
  BY <1>0 DEF TaskEnds, Goes, SubTypeOK, NewOverlap, Live, mapVars
<1>7. call' = call
  BY DEF TaskEnds, mapVars
<1>8. \A c \in Cancellers : CallOK(c)'
  BY <1>0, <1>5, <1>6, <1>7, CallKept
<1> QED BY <1>1, <1>2, <1>3, <1>4, <1>8 DEF SubInv

LEMMA TaskReturnsKeeps ==
    ASSUME SubInv, NEW t \in Tasks, TaskReturns(t)
    PROVE  SubInv'
<1>0. SubTypeOK /\ Forgotten /\ Listed /\ Findable /\ \A c \in Cancellers : CallOK(c)
  BY DEF SubInv
<1>1. SubTypeOK'
  BY <1>0, TasksAssumption DEF TaskReturns, Goes, SubTypeOK, TaskPhases, mapVars, SubSessions
<1>2. Forgotten'
  BY <1>0 DEF TaskReturns, Goes, SubTypeOK, Forgotten, Live, mapVars
<1>3. Listed'
  BY <1>0 DEF TaskReturns, Goes, SubTypeOK, Listed, mapVars
<1>4. Findable'
  BY <1>0 DEF TaskReturns, Goes, SubTypeOK, Findable, SubSessions, SetIds, NoSet, mapVars
<1>5. Grows
  BY <1>0 DEF TaskReturns, Goes, SubTypeOK, Grows, Settled, Over, mapVars
<1>6. NewOverlap
  BY <1>0 DEF TaskReturns, Goes, SubTypeOK, NewOverlap, Live, mapVars
<1>7. call' = call
  BY DEF TaskReturns, mapVars
<1>8. \A c \in Cancellers : CallOK(c)'
  BY <1>0, <1>5, <1>6, <1>7, CallKept
<1> QED BY <1>1, <1>2, <1>3, <1>4, <1>8 DEF SubInv

LEMMA TurnOfTaskEndsKeeps ==
    ASSUME SubInv, NEW t \in Tasks, TurnOfTaskEnds(t)
    PROVE  SubInv'
<1>0. SubTypeOK /\ Forgotten /\ Listed /\ Findable /\ \A c \in Cancellers : CallOK(c)
  BY DEF SubInv
<1>1. SubTypeOK'
  BY <1>0, TasksAssumption DEF TurnOfTaskEnds, Goes, SubTypeOK, TaskPhases, mapVars, SubSessions
<1>2. Forgotten'
  BY <1>0 DEF TurnOfTaskEnds, Goes, SubTypeOK, Forgotten, Live, mapVars
<1>3. Listed'
  BY <1>0 DEF TurnOfTaskEnds, Goes, SubTypeOK, Listed, mapVars
<1>4. Findable'
  BY <1>0 DEF TurnOfTaskEnds, Goes, SubTypeOK, Findable, SubSessions, SetIds, NoSet, mapVars
<1>5. Grows
  BY <1>0 DEF TurnOfTaskEnds, Goes, SubTypeOK, Grows, Settled, Over, mapVars
<1>6. NewOverlap
  BY <1>0 DEF TurnOfTaskEnds, Goes, SubTypeOK, NewOverlap, Live, mapVars
<1>7. call' = call
  BY DEF TurnOfTaskEnds, mapVars
<1>8. \A c \in Cancellers : CallOK(c)'
  BY <1>0, <1>5, <1>6, <1>7, CallKept
<1> QED BY <1>1, <1>2, <1>3, <1>4, <1>8 DEF SubInv

\* The steps of a canceller leave the other calls alone.
LEMMA OthersKept ==
    ASSUME SubInv, NEW c \in Cancellers, Grows, NewOverlap, CallOK(c)',
           \A d \in Cancellers \ {c} : call'[d] = call[d]
    PROVE  \A d \in Cancellers : CallOK(d)'
<1> SUFFICES ASSUME NEW d \in Cancellers, d # c PROVE CallOK(d)'
  OBVIOUS
<1> QED BY CallKept DEF SubInv

LEMMA CancelVisitsKeeps ==
    ASSUME SubInv, NEW c \in Cancellers, NEW t \in Tasks, CancelVisits(c, t)
    PROVE  SubInv'
<1>0. SubTypeOK /\ Forgotten /\ Listed /\ Findable /\ CallOK(c)
  BY DEF SubInv
<1> DEFINE k == call[c]
           new == [k EXCEPT !.seen = @ \cup {t}, !.at = {t} \cap runningTasks]
<1>1. k \in Calls /\ new \in Calls
  BY <1>0 DEF SubTypeOK, Calls
<1>2. /\ call' = [call EXCEPT ![c] = new]
      /\ UNCHANGED <<task, runningTasks, calls, overlapped, sessionTasks, members, held>>
      /\ cancelled' = cancelled \cup ({t} \cap runningTasks)
  BY <1>0 DEF CancelVisits, mapVars, SubTypeOK, Calls
<1>3. call'[c] = new /\ \A d \in Cancellers \ {c} : call'[d] = call[d]
  BY <1>0, <1>2 DEF SubTypeOK
<1>4. SubTypeOK'
  BY <1>0, <1>1, <1>2 DEF SubTypeOK
<1>5. Forgotten' /\ Listed' /\ Findable' /\ Grows /\ NewOverlap
  BY <1>0, <1>2
     DEF Forgotten, Listed, Findable, Grows, NewOverlap, Live, Settled, Over
<1>6. Settled(t)'
  <2>1. CASE t \in runningTasks
    BY <1>2, <2>1 DEF Settled
  <2>2. CASE t \notin runningTasks
    <3>1. k.op = "range" /\ t \in members[k.set] /\ k.set \in SetIds
      BY <1>0, <2>2 DEF CancelVisits, Keys, CallOK
    <3>2. task[t] \in {"running", "leaving", "done"}
      BY <1>0, <3>1 DEF Listed
    <3> QED BY <1>0, <1>2, <2>2, <3>2 DEF Forgotten, Live, Settled, Over
  <2> QED BY <2>1, <2>2
<1>7. CallOK(c)'
  <2>1. k.op \in {"range", "all"}
    BY DEF CancelVisits
  <2>2. /\ new.op = k.op /\ new.session = k.session /\ new.set = k.set /\ new.must = k.must
        /\ new.owed = k.owed /\ new.seen = k.seen \cup {t} /\ new.at = {t} \cap runningTasks
    BY <1>1 DEF Calls
  <2>3. k.owed \subseteq Tasks /\ k.seen \subseteq Tasks
    BY <1>1 DEF Calls
  <2> HIDE DEF new
  <2>4. /\ new.at \subseteq cancelled'
        /\ \A u \in new.seen : Settled(u)'
        /\ \A u \in new.owed : task'[u] # "none"
    BY <1>0, <1>2, <1>5, <1>6, <2>2, <2>3 DEF CallOK, Grows
  <2>5. new.op = "all" => new.session = NoSession
                           /\ \A u \in new.owed : u \in new.must \/ Settled(u)'
    BY <1>0, <1>5, <2>2, <2>3 DEF CallOK, Grows
  <2>6. new.op = "range" =>
          /\ new.session \in SubSessions
          /\ \A u \in Tasks : TaskSession[u] = new.session /\ Live(u)'
                => u \in new.owed \cup overlapped' \cup cancelled'
          /\ new.set \in SetIds /\ new.must \subseteq members'[new.set]
          /\ \A u \in new.owed : u \in new.must \cup overlapped' \/ Settled(u)'
    BY <1>0, <1>2, <1>5, <2>2, <2>3 DEF CallOK, Grows, Live
  <2> QED BY <1>3, <2>1, <2>2, <2>4, <2>5, <2>6 DEF CallOK
<1> QED BY <1>3, <1>4, <1>5, <1>7, OthersKept DEF SubInv

LEMMA CancelForgetsKeeps ==
    ASSUME SubInv, NEW c \in Cancellers, CancelForgets(c)
    PROVE  SubInv'
<1>0. SubTypeOK /\ Forgotten /\ Listed /\ Findable /\ CallOK(c)
  BY DEF SubInv
<1> DEFINE k == call[c]
           new == [k EXCEPT !.at = {}]
<1>1. k \in Calls /\ new \in Calls
  BY <1>0 DEF SubTypeOK, Calls
<1>2. /\ call' = [call EXCEPT ![c] = new] /\ runningTasks' = runningTasks \ k.at
      /\ UNCHANGED <<task, cancelled, calls, overlapped, sessionTasks, members, held>>
  BY DEF CancelForgets, mapVars
<1>3. call'[c] = new /\ \A d \in Cancellers \ {c} : call'[d] = call[d]
  BY <1>0, <1>2 DEF SubTypeOK
<1>4. SubTypeOK'
  BY <1>0, <1>1, <1>2 DEF SubTypeOK
<1>5. Forgotten'
  BY <1>0, <1>2 DEF Forgotten, Live, CallOK
<1>6. Listed' /\ Findable' /\ Grows /\ NewOverlap
  BY <1>0, <1>2
     DEF Listed, Findable, Grows, NewOverlap, Live, Settled, Over
<1>7. CallOK(c)'
  <2>1. /\ new.op = k.op /\ new.session = k.session /\ new.set = k.set /\ new.must = k.must
        /\ new.owed = k.owed /\ new.seen = k.seen /\ new.at = {}
    BY <1>1 DEF Calls
  <2> HIDE DEF new
  <2> QED BY <1>0, <1>2, <1>3, <2>1 DEF CallOK, Live, Settled, Over
<1> QED BY <1>3, <1>4, <1>5, <1>6, <1>7, OthersKept DEF SubInv

\* When the Range of a call is over it has settled all it had to visit.
LEMMA RangeIsOver ==
    ASSUME SubInv, NEW c \in Cancellers, CancelRanged(c), NEW t \in call[c].owed
    PROVE  Settled(t) \/ (call[c].op = "range" /\ t \in overlapped)
<1>0. SubTypeOK /\ Forgotten /\ Listed /\ CallOK(c)
  BY DEF SubInv
<1> DEFINE k == call[c]
<1>1. k \in Calls /\ t \in Tasks /\ task[t] # "none"
  BY <1>0 DEF SubTypeOK, Calls, CallOK
<1> SUFFICES ASSUME ~Settled(t), k.op = "range" => t \notin overlapped PROVE FALSE
  OBVIOUS
<1>2. t \in k.must
  BY <1>0 DEF CancelRanged, CallOK
<1>3. t \notin Keys(c) /\ t \notin k.seen
  BY <1>0, <1>2 DEF CancelRanged, CallOK
<1>4. CASE k.op = "range"
  BY <1>0, <1>2, <1>3, <1>4 DEF CallOK, Keys
<1>5. CASE k.op = "all"
  <2>1. t \notin runningTasks
    BY <1>3, <1>5 DEF Keys
  <2>2. Live(t)
    BY <1>0, <1>1 DEF Settled, Over, Live, SubTypeOK, TaskPhases
  <2> QED BY <1>0, <1>1, <2>1, <2>2 DEF Forgotten, Settled
<1> QED BY <1>4, <1>5 DEF CancelRanged

LEMMA CancelRangedKeeps ==
    ASSUME SubInv, NEW c \in Cancellers, CancelRanged(c)
    PROVE  SubInv'
<1>0. SubTypeOK /\ Forgotten /\ Listed /\ Findable /\ CallOK(c)
  BY DEF SubInv
<1> DEFINE k == call[c]
<1>1. k \in Calls /\ NoCall \in Calls
  BY <1>0 DEF SubTypeOK, Calls, NoCall
<1>2. UNCHANGED <<task, runningTasks, cancelled, calls, overlapped, sessionTasks, members, held>>
  BY DEF CancelRanged, mapVars
<1>3. \A d \in Cancellers \ {c} : call'[d] = call[d]
  BY <1>0 DEF SubTypeOK, CancelRanged, Returns
<1>4. Forgotten' /\ Listed' /\ Findable' /\ Grows /\ NewOverlap
  BY <1>0, <1>2
     DEF Forgotten, Listed, Findable, Grows, NewOverlap, Live, Settled, Over
<1>5. CASE k.op = "all"
  <2> DEFINE left == {t \in k.owed : t \notin cancelled /\ ~Over(t)}
             new == [NoCall EXCEPT !.session = k.session, !.owed = left]
  <2>1. left = {}
    BY <1>5, RangeIsOver DEF Settled
  <2>2. call' = [call EXCEPT ![c] = new]
    BY <1>5 DEF CancelRanged, Returns
  <2>3. /\ new \in Calls /\ new.op = "idle" /\ new.session = k.session
        /\ new.owed = {} /\ new.seen = {} /\ new.at = {}
    BY <1>1, <2>1 DEF Calls, NoCall
  <2> HIDE DEF new
  <2>4. SubTypeOK'
    BY <1>0, <1>2, <2>2, <2>3 DEF SubTypeOK
  <2>5. CallOK(c)'
    BY <1>0, <2>2, <2>3 DEF CallOK, SubTypeOK
  <2> QED BY <1>3, <1>4, <2>4, <2>5, OthersKept DEF SubInv
<1>6. CASE k.op = "range"
  <2> DEFINE new == [k EXCEPT !.op = "delete"]
  <2>1. call' = [call EXCEPT ![c] = new]
    BY <1>6 DEF CancelRanged
  <2>2. /\ new \in Calls /\ new.op = "delete" /\ new.session = k.session
        /\ new.owed = k.owed /\ new.seen = k.seen /\ new.at = k.at
    BY <1>1 DEF Calls
  <2> HIDE DEF new
  <2>3. SubTypeOK'
    BY <1>0, <1>2, <2>1, <2>2 DEF SubTypeOK
  <2>4. \A t \in new.owed : t \in overlapped \/ Settled(t)
    BY <2>2, RangeIsOver
  <2>5. CallOK(c)'
    BY <1>0, <1>2, <1>6, <2>1, <2>2, <2>4 DEF CallOK, SubTypeOK, Live, Settled, Over
  <2> QED BY <1>3, <1>4, <2>3, <2>5, OthersKept DEF SubInv
<1> QED BY <1>5, <1>6 DEF CancelRanged

\* The session's entry goes when none of its live tasks needs it any more.
LEMMA CancelDeletesKeeps ==
    ASSUME SubInv, NEW c \in Cancellers, CancelDeletes(c)
    PROVE  SubInv'
<1>0. SubTypeOK /\ Forgotten /\ Listed /\ Findable /\ CallOK(c)
  BY DEF SubInv
<1> DEFINE k == call[c]
           left == {t \in k.owed : t \notin cancelled /\ ~Over(t)}
           new == [NoCall EXCEPT !.session = k.session, !.owed = left]
<1>1. k \in Calls /\ NoCall \in Calls
  BY <1>0 DEF SubTypeOK, Calls, NoCall
<1>2. /\ UNCHANGED <<task, runningTasks, cancelled, calls, overlapped, members, held>>
      /\ sessionTasks' = [sessionTasks EXCEPT ![k.session] = NoSet]
      /\ call' = [call EXCEPT ![c] = new] /\ k.op = "delete"
  BY DEF CancelDeletes, Returns
<1>3. /\ new \in Calls /\ new.op = "idle" /\ new.session = k.session
      /\ new.owed = left /\ new.seen = {} /\ new.at = {}
  BY <1>1 DEF Calls, NoCall
<1> HIDE DEF new
<1>4. call'[c] = new /\ \A d \in Cancellers \ {c} : call'[d] = call[d]
  BY <1>0, <1>2 DEF SubTypeOK
<1>5. SubTypeOK'
  BY <1>0, <1>2, <1>3 DEF SubTypeOK
<1>6. Forgotten' /\ Listed' /\ Grows /\ NewOverlap
  BY <1>0, <1>2 DEF Forgotten, Listed, Grows, NewOverlap, Live, Settled, Over
<1>7. Findable'
  <2> SUFFICES ASSUME NEW t \in Tasks, t \notin overlapped \cup cancelled,
                      task[t] \in {"listing", "running"}
               PROVE  sessionTasks'[TaskSession[t]] = sessionTasks[TaskSession[t]]
    BY <1>0, <1>2 DEF Findable
  <2>1. TaskSession[t] # k.session
    BY <1>0, <1>2 DEF CallOK, Live, Settled, Over
  <2> QED BY <1>0, <1>2, <2>1 DEF SubTypeOK, SubSessions
<1>8. CallOK(c)'
  <2>1. left \subseteq overlapped /\ k.session # NoSession
    BY <1>0, <1>2, TasksAssumption DEF CallOK, Settled
  <2>2. \A t \in left : task[t] # "none"
    BY <1>0 DEF CallOK
  <2> QED BY <1>2, <1>3, <1>4, <2>1, <2>2 DEF CallOK
<1> QED BY <1>4, <1>5, <1>6, <1>7, <1>8, OthersKept DEF SubInv

LEMMA BeginCancelKeeps ==
    ASSUME SubInv, NEW c \in Cancellers, NEW s \in SubSessions, BeginCancel(c, s)
    PROVE  SubInv'
<1>0. SubTypeOK /\ Forgotten /\ Listed /\ Findable /\ CallOK(c)
  BY DEF SubInv
<1> DEFINE i == sessionTasks[s]
           owed == {t \in Tasks : TaskSession[t] = s /\ task[t] = "running"}
           new == IF i = NoSet THEN [NoCall EXCEPT !.session = s, !.owed = owed \ cancelled]
                  ELSE [op |-> "range", session |-> s, set |-> i, must |-> members[i],
                        seen |-> {}, at |-> {}, owed |-> owed]
<1>1. /\ UNCHANGED <<task, runningTasks, cancelled, sessionTasks, members, held>>
      /\ calls' = [calls EXCEPT ![c] = @ + 1] /\ calls[c] < MaxCancels
      /\ call' = [call EXCEPT ![c] = new]
      /\ overlapped' = overlapped \cup {t \in Tasks : TaskSession[t] = s /\ Spawning(t)}
  BY DEF BeginCancel, mapVars
<1>2. new \in Calls
  <2>1. owed \subseteq Tasks /\ i \in SetIds \cup {NoSet}
    BY <1>0 DEF SubTypeOK
  <2>2. CASE i = NoSet
    <3>1. new = [op |-> "idle", session |-> s, set |-> NoSet, must |-> {}, seen |-> {},
                 at |-> {}, owed |-> owed \ cancelled]
      BY <2>2 DEF NoCall
    <3> QED BY <2>1, <3>1 DEF Calls
  <2>3. CASE i # NoSet
    BY <1>0, <2>1, <2>3 DEF Calls, SubTypeOK
  <2> QED BY <2>2, <2>3
<1>3. call'[c] = new /\ \A d \in Cancellers \ {c} : call'[d] = call[d]
  BY <1>0, <1>1 DEF SubTypeOK
<1>4. SubTypeOK'
  <2>1. calls' \in [Cancellers -> 0 .. MaxCancels]
    BY <1>0, <1>1, TasksAssumption DEF SubTypeOK
  <2> QED BY <1>0, <1>1, <1>2, <2>1 DEF SubTypeOK
<1>5. Forgotten' /\ Listed' /\ Findable' /\ Grows /\ NewOverlap
  BY <1>0, <1>1 DEF Forgotten, Listed, Findable, Grows, NewOverlap, Live, Settled, Over
<1>6. \A t \in owed : t \in overlapped \cup cancelled \/ (i # NoSet /\ t \in members[i])
  BY <1>0 DEF Findable
<1>7. CallOK(c)'
  <2>1. CASE i = NoSet
    <3>1. /\ new.op = "idle" /\ new.session = s /\ new.owed = owed \ cancelled
          /\ new.seen = {} /\ new.at = {}
      BY <2>1 DEF NoCall
    <3>2. new.owed \subseteq overlapped'
      BY <1>1, <1>6, <2>1, <3>1
    <3>3. s # NoSession
      BY TasksAssumption
    <3>4. \A t \in new.owed : task'[t] # "none"
      BY <1>1, <3>1
    <3> HIDE DEF new
    <3> QED BY <1>3, <3>1, <3>2, <3>3, <3>4 DEF CallOK
  <2>2. CASE i # NoSet
    <3>1. /\ new.op = "range" /\ new.session = s /\ new.owed = owed /\ new.set = i
          /\ new.must = members[i] /\ new.seen = {} /\ new.at = {}
      BY <2>2
    <3>2. i \in SetIds
      BY <1>0, <2>2 DEF SubTypeOK
    <3>3. \A t \in new.owed : task'[t] # "none"
      BY <1>1, <3>1
    <3>4. \A t \in Tasks : TaskSession[t] = s /\ Live(t)'
                => t \in new.owed \cup overlapped' \cup cancelled'
      BY <1>1, <3>1 DEF Live, Spawning
    <3>5. \A t \in new.owed : t \in new.must \cup overlapped' \/ Settled(t)'
      BY <1>1, <1>6, <3>1 DEF Settled
    <3> HIDE DEF new
    <3> QED BY <1>1, <1>3, <3>1, <3>2, <3>3, <3>4, <3>5 DEF CallOK
  <2> QED BY <2>1, <2>2
<1> QED BY <1>3, <1>4, <1>5, <1>7, OthersKept DEF SubInv

LEMMA BeginCancelAllKeeps ==
    ASSUME SubInv, NEW c \in Cancellers, BeginCancelAll(c)
    PROVE  SubInv'
<1>0. SubTypeOK /\ Forgotten /\ Listed /\ Findable /\ CallOK(c)
  BY DEF SubInv
<1> DEFINE owed == {t \in Tasks : Spawning(t) \/ task[t] = "running"}
           new == [NoCall EXCEPT !.op = "all", !.must = runningTasks, !.owed = owed]
<1>1. /\ UNCHANGED <<task, runningTasks, cancelled, overlapped, sessionTasks, members, held>>
      /\ calls' = [calls EXCEPT ![c] = @ + 1] /\ calls[c] < MaxCancels
      /\ call' = [call EXCEPT ![c] = new]
  BY DEF BeginCancelAll, mapVars
<1>2. /\ new \in Calls /\ new.op = "all" /\ new.session = NoSession /\ new.must = runningTasks
      /\ new.owed = owed /\ new.seen = {} /\ new.at = {}
  <2>1. NoCall \in Calls /\ owed \subseteq Tasks /\ runningTasks \subseteq Tasks
    BY <1>0 DEF NoCall, Calls, SubTypeOK
  <2> HIDE DEF owed
  <2> QED BY <2>1 DEF Calls, NoCall
<1> HIDE DEF new
<1>3. call'[c] = new /\ \A d \in Cancellers \ {c} : call'[d] = call[d]
  BY <1>0, <1>1 DEF SubTypeOK
<1>4. SubTypeOK'
  <2>1. calls' \in [Cancellers -> 0 .. MaxCancels]
    BY <1>0, <1>1, TasksAssumption DEF SubTypeOK
  <2> QED BY <1>0, <1>1, <1>2, <2>1 DEF SubTypeOK
<1>5. Forgotten' /\ Listed' /\ Findable' /\ Grows /\ NewOverlap
  BY <1>0, <1>1 DEF Forgotten, Listed, Findable, Grows, NewOverlap, Live, Settled, Over
<1>6. CallOK(c)'
  <2>1. \A t \in owed : t \in runningTasks \/ Settled(t)'
    BY <1>0, <1>1 DEF Forgotten, Live, Settled, Spawning
  <2>2. \A t \in owed : task'[t] # "none"
    BY <1>1 DEF Spawning
  <2> QED BY <1>2, <1>3, <2>1, <2>2 DEF CallOK
<1> QED BY <1>3, <1>4, <1>5, <1>6, OthersKept DEF SubInv

-----------------------------------------------------------------------------
(* The theorem                                                              *)

LEMMA SubStep == SubInv /\ [SubNext]_subVars => SubInv'
<1> SUFFICES ASSUME SubInv, [SubNext]_subVars PROVE SubInv'
  OBVIOUS
<1>1. ASSUME NEW t \in Tasks,
             \/ SpawnRegisters(t) \/ SpawnFindsSet(t) \/ SpawnLists(t)
             \/ TaskEnds(t) \/ TaskReturns(t) \/ TurnOfTaskEnds(t)
      PROVE  SubInv'
  BY <1>1, SpawnRegistersKeeps, SpawnFindsSetKeeps, SpawnListsKeeps, TaskEndsKeeps,
     TaskReturnsKeeps, TurnOfTaskEndsKeeps
<1>2. ASSUME NEW c \in Cancellers, CancelStep(c) PROVE SubInv'
  BY <1>2, CancelVisitsKeeps, CancelForgetsKeeps, CancelRangedKeeps, CancelDeletesKeeps
     DEF CancelStep
<1>3. ASSUME NEW c \in Cancellers, BeginCancelAll(c) PROVE SubInv'
  BY <1>3, BeginCancelAllKeeps
<1>4. ASSUME NEW c \in Cancellers, NEW s \in SubSessions, BeginCancel(c, s) PROVE SubInv'
  BY <1>4, BeginCancelKeeps
<1>5. CASE UNCHANGED subVars
  BY <1>5 DEF subVars, mapVars, SubInv, SubTypeOK, Forgotten, Listed, Findable, CallOK,
              Live, Settled, Over
<1> QED BY <1>1, <1>2, <1>3, <1>4, <1>5 DEF SubNext

LEMMA SubSafe == SubSpec => []SubInv
<1> QED BY SubInitially, SubStep, PTL DEF SubSpec

\* The maps, the sets and the calls of the subagent manager keep their types
\* (manager.go:40-138).
THEOREM SubagentTypes == SubSpec => []SubTypeOK
<1>1. SubInv => SubTypeOK
  BY DEF SubInv
<1> QED BY <1>1, SubSafe, PTL

\* A CancelAll reaches every task it finds registered, and a CancelBySession every task of
\* its session whose Spawn overlapped no such call, whichever other calls, spawns and ends
\* of tasks come in between (manager.go:74-138).
THEOREM CancelReachesAll == SubSpec => []CancelReaches
<1>1. SubInv => CancelReaches
  BY DEF SubInv, CallOK, CancelReaches
<1> QED BY <1>1, SubSafe, PTL

-----------------------------------------------------------------------------
(* ModelFallback                                                            *)

\* A request that was refused is over.
RefusedIsOver == \A c \in refused : request[c].phase = "idle"

\* The calls of so many tries.
CallsOf(tries) == tries * (1 + Fallbacks)

\* The calls of the tries before this one, and of this one those it has got to.
CallsCounted ==
    \A c \in Callers :
        LET r == request[c] IN
        /\ r.phase = "primary" => attempts[c] <= CallsOf(r.try - 1)
        /\ r.phase = "recording" => attempts[c] <= CallsOf(r.try - 1) + 1
        /\ r.phase \in {"fallback", "calling"} => attempts[c] <= CallsOf(r.try - 1) + r.next
        /\ r.phase \in {"idle", "waiting"} => attempts[c] <= CallsOf(r.try)
        /\ r.phase = "calling" => r.next <= Fallbacks

\* What a request waits for, and why it asks a fallback.
InProgress ==
    \A c \in Callers :
        /\ request[c].phase = "waiting" => request[c].try < Tries
        /\ request[c].phase \in {"fallback", "calling"} => request[c].err \in Errors

FallbackInv ==
    FallbackTypeOK /\ InProgress /\ CallsCounted /\ RefusedIsOver /\ BreakerNeedsStreak

Requests == [phase : RequestPhases, try : 1 .. Tries, next : 1 .. Fallbacks + 1,
             err : Errors \cup {"ok"}]

-----------------------------------------------------------------------------
(* What a step does to the request of its caller                            *)

LEMMA RetryType ==
    ASSUME FallbackTypeOK, NEW c \in Callers, NEW err \in Errors, Retry(c, err)
    PROVE  /\ request' \in [Callers -> Requests]
           /\ request'[c].phase \in {"idle", "waiting"}
           /\ request'[c].try = request[c].try
           /\ err \in Permanent => request'[c].phase = "idle"
           /\ \A d \in Callers \ {c} : request'[d] = request[d]
<1>1. request \in [Callers -> Requests] /\ request[c] \in Requests
  BY DEF FallbackTypeOK, Requests
<1>2. request' = [request EXCEPT ![c] =
        [request[c] EXCEPT !.err = err,
           !.phase = IF Retryable(err) /\ request[c].try < Tries THEN "waiting" ELSE "idle"]]
  BY <1>1 DEF Retry, Requests
<1>3. request'[c] \in Requests
  BY <1>1, <1>2 DEF Requests, RequestPhases
<1>4. QED
  BY <1>1, <1>2, <1>3 DEF Requests, Retryable, Permanent, Transient

LEMMA NextFallbackType ==
    ASSUME FallbackTypeOK, NEW c \in Callers, NextFallback(c), request[c].next <= Fallbacks
    PROVE  /\ request' \in [Callers -> Requests]
           /\ request'[c] = [request[c] EXCEPT !.phase = "fallback", !.next = request[c].next + 1]
           /\ \A d \in Callers \ {c} : request'[d] = request[d]
<1>1. request \in [Callers -> Requests] /\ request[c] \in Requests
  BY DEF FallbackTypeOK, Requests
<1>2. request' = [request EXCEPT ![c] =
        [request[c] EXCEPT !.phase = "fallback", !.next = request[c].next + 1]]
  BY <1>1 DEF NextFallback, Requests
<1>3. request[c].next + 1 \in 1 .. Fallbacks + 1 /\ "fallback" \in RequestPhases
  BY <1>1, FallbackAssumption DEF Requests, RequestPhases
<1>4. [request[c] EXCEPT !.phase = "fallback", !.next = request[c].next + 1] \in Requests
  BY <1>1, <1>3 DEF Requests
<1>5. QED
  BY <1>1, <1>2, <1>4

-----------------------------------------------------------------------------
(* Types                                                                    *)

LEMMA CalledType ==
    ASSUME FallbackTypeOK, NEW c \in Callers, NEW err \in Errors \cup {"ok"}, Called(c, err)
    PROVE  attempts' \in [Callers -> Nat] /\ refused' \subseteq Callers
  BY DEF FallbackTypeOK, Called

LEMMA HalfOpenType ==
    ASSUME FallbackTypeOK, HalfOpen
    PROVE  consecutiveFails' \in Nat /\ consecutiveFails' <= consecutiveFails
  BY FallbackAssumption DEF FallbackTypeOK, HalfOpen

\* Steps that set the phase of a request, and perhaps where it is, within their types.
LEMMA RequestSet ==
    ASSUME FallbackTypeOK, NEW c \in Callers, NEW r \in Requests,
           request' = [request EXCEPT ![c] = r]
    PROVE  request' \in [Callers -> Requests]
  BY DEF FallbackTypeOK, Requests

LEMMA GenerateType ==
    ASSUME FallbackTypeOK, NEW c \in Callers, Generate(c)
    PROVE  FallbackTypeOK'
<1>1. [phase |-> "primary", try |-> 1, next |-> 1, err |-> "ok"] \in Requests
  BY FallbackAssumption DEF Requests, RequestPhases
<1>2. request' \in [Callers -> Requests]
  BY <1>1, RequestSet DEF Generate
<1>3. requests' \in [Callers -> 0 .. MaxRequests]
  BY FallbackAssumption DEF Generate, FallbackTypeOK
<1>4. QED
  BY <1>2, <1>3 DEF Generate, FallbackTypeOK, Requests

LEMMA PrimaryAnswersType ==
    ASSUME FallbackTypeOK, NEW c \in Callers, PrimaryAnswers(c)
    PROVE  FallbackTypeOK'
<1>1. request[c] \in Requests
  BY DEF FallbackTypeOK, Requests
<1>2. [request[c] EXCEPT !.phase = "recording", !.err = "ok"] \in Requests
  BY <1>1 DEF Requests, RequestPhases
<1>3. request' = [request EXCEPT ![c] = [request[c] EXCEPT !.phase = "recording", !.err = "ok"]]
  BY <1>1 DEF PrimaryAnswers, FallbackTypeOK, Requests
<1>4. request' \in [Callers -> Requests]
  BY <1>2, <1>3, RequestSet
<1>5. attempts' \in [Callers -> Nat] /\ refused' \subseteq Callers
  BY CalledType DEF PrimaryAnswers
<1>6. QED
  BY <1>4, <1>5 DEF PrimaryAnswers, FallbackTypeOK, Requests

LEMMA PrimaryFailsType ==
    ASSUME FallbackTypeOK, NEW c \in Callers, NEW err \in Errors, PrimaryFails(c, err)
    PROVE  FallbackTypeOK'
<1>1. attempts' \in [Callers -> Nat] /\ refused' \subseteq Callers
  BY CalledType DEF PrimaryFails
<1>2. request' \in [Callers -> Requests]
  <2>1. CASE ShouldFallback(err)
    <3>1. request[c] \in Requests
      BY DEF FallbackTypeOK, Requests
    <3>2. [request[c] EXCEPT !.phase = "recording", !.err = err] \in Requests
      BY <3>1 DEF Requests, RequestPhases
    <3>3. request' = [request EXCEPT ![c] = [request[c] EXCEPT !.phase = "recording", !.err = err]]
      BY <2>1, <3>1 DEF PrimaryFails, FallbackTypeOK, Requests
    <3>4. QED
      BY <3>2, <3>3, RequestSet
  <2>2. CASE ~ShouldFallback(err)
    BY <2>2, RetryType DEF PrimaryFails
  <2>3. QED
    BY <2>1, <2>2
<1>3. QED
  BY <1>1, <1>2 DEF PrimaryFails, FallbackTypeOK, Requests

LEMMA RecordSuccessType ==
    ASSUME FallbackTypeOK, NEW c \in Callers, RecordSuccess(c)
    PROVE  FallbackTypeOK'
<1>1. request[c] \in Requests
  BY DEF FallbackTypeOK, Requests
<1>2. [request[c] EXCEPT !.phase = "idle"] \in Requests
  BY <1>1 DEF Requests, RequestPhases
<1>3. request' \in [Callers -> Requests]
  BY <1>2, RequestSet DEF RecordSuccess
<1>4. QED
  BY <1>3 DEF RecordSuccess, FallbackTypeOK, Requests

LEMMA RecordFailureType ==
    ASSUME FallbackTypeOK, NEW c \in Callers, RecordFailure(c)
    PROVE  FallbackTypeOK'
<1>1. request[c] \in Requests /\ 1 \in 1 .. Fallbacks + 1
  BY FallbackAssumption DEF FallbackTypeOK, Requests
<1>2. [request[c] EXCEPT !.phase = "fallback", !.next = 1] \in Requests
  BY <1>1 DEF Requests, RequestPhases
<1>3. request' = [request EXCEPT ![c] = [request[c] EXCEPT !.phase = "fallback", !.next = 1]]
  BY <1>1 DEF RecordFailure, FallbackTypeOK, Requests
<1>4. request' \in [Callers -> Requests]
  BY <1>2, <1>3, RequestSet
<1>5. consecutiveFails' \in Nat /\ cooling' \in BOOLEAN /\ streak' \in Nat
  BY DEF RecordFailure, FallbackTypeOK
<1>6. QED
  BY <1>4, <1>5 DEF RecordFailure, FallbackTypeOK, Requests

LEMMA FallbackSkippedType ==
    ASSUME FallbackTypeOK, NEW c \in Callers, FallbackSkipped(c)
    PROVE  FallbackTypeOK'
<1>1. request' \in [Callers -> Requests]
  BY NextFallbackType DEF FallbackSkipped, Trying
<1>2. consecutiveFails' \in Nat
  BY HalfOpenType DEF FallbackSkipped, FallbackTypeOK
<1>3. QED
  BY <1>1, <1>2 DEF FallbackSkipped, FallbackTypeOK, Requests

LEMMA FallbackBeginsType ==
    ASSUME FallbackTypeOK, NEW c \in Callers, FallbackBegins(c)
    PROVE  FallbackTypeOK'
<1>1. request[c] \in Requests
  BY DEF FallbackTypeOK, Requests
<1>2. [request[c] EXCEPT !.phase = "calling"] \in Requests
  BY <1>1 DEF Requests, RequestPhases
<1>3. request' \in [Callers -> Requests]
  BY <1>2, RequestSet DEF FallbackBegins
<1>4. consecutiveFails' \in Nat
  BY HalfOpenType DEF FallbackBegins
<1>5. QED
  BY <1>3, <1>4 DEF FallbackBegins, FallbackTypeOK, Requests

LEMMA FallbackAnswersType ==
    ASSUME FallbackTypeOK, NEW c \in Callers, FallbackAnswers(c)
    PROVE  FallbackTypeOK'
<1>1. request[c] \in Requests
  BY DEF FallbackTypeOK, Requests
<1>2. [request[c] EXCEPT !.phase = "idle", !.err = "ok"] \in Requests
  BY <1>1 DEF Requests, RequestPhases
<1>3. request' \in [Callers -> Requests]
  BY <1>1, <1>2, RequestSet DEF FallbackAnswers, Requests, FallbackTypeOK
<1>4. attempts' \in [Callers -> Nat] /\ refused' \subseteq Callers
  BY CalledType DEF FallbackAnswers
<1>5. QED
  BY <1>3, <1>4 DEF FallbackAnswers, FallbackTypeOK, Requests

LEMMA FallbackFailsType ==
    ASSUME FallbackTypeOK, CallsCounted, NEW c \in Callers, NEW err \in Errors,
           FallbackFails(c, err)
    PROVE  FallbackTypeOK'
<1>1. request[c].next <= Fallbacks
  BY DEF FallbackFails, CallsCounted
<1>2. request' \in [Callers -> Requests]
  BY <1>1, NextFallbackType, RetryType DEF FallbackFails
<1>3. attempts' \in [Callers -> Nat] /\ refused' \subseteq Callers
  BY CalledType DEF FallbackFails
<1>4. QED
  BY <1>2, <1>3 DEF FallbackFails, FallbackTypeOK, Requests

LEMMA FallbacksExhaustedType ==
    ASSUME FallbackTypeOK, NEW c \in Callers, request[c].err \in Errors, FallbacksExhausted(c)
    PROVE  FallbackTypeOK'
<1>1. request' \in [Callers -> Requests]
  BY RetryType DEF FallbacksExhausted
<1>2. QED
  BY <1>1 DEF FallbacksExhausted, FallbackTypeOK, Requests

LEMMA DelayEndsType ==
    ASSUME FallbackTypeOK, NEW c \in Callers, request[c].try < Tries, DelayEnds(c)
    PROVE  FallbackTypeOK'
<1>1. request[c] \in Requests
  BY DEF FallbackTypeOK, Requests
<1>2. request[c].try + 1 \in 1 .. Tries /\ {"primary", "idle"} \subseteq RequestPhases
  BY <1>1, FallbackAssumption DEF Requests, RequestPhases
<1>3. /\ [request[c] EXCEPT !.phase = "primary", !.try = request[c].try + 1] \in Requests
      /\ [request[c] EXCEPT !.phase = "idle"] \in Requests
  BY <1>1, <1>2 DEF Requests
<1>4. \/ request' = [request EXCEPT ![c] =
           [request[c] EXCEPT !.phase = "primary", !.try = request[c].try + 1]]
      \/ request' = [request EXCEPT ![c] = [request[c] EXCEPT !.phase = "idle"]]
  BY <1>1 DEF DelayEnds, FallbackTypeOK, Requests
<1>5. request' \in [Callers -> Requests]
  BY <1>3, <1>4, RequestSet
<1>6. QED
  BY <1>5 DEF DelayEnds, FallbackTypeOK, Requests

LEMMA FallbackNextType ==
    ASSUME FallbackInv, [FallbackNext]_fallbackVars
    PROVE  FallbackTypeOK'
<1>1. FallbackTypeOK /\ InProgress /\ CallsCounted
  BY DEF FallbackInv
<1>2. CASE CooldownEnds
  BY <1>1, <1>2 DEF CooldownEnds, FallbackTypeOK
<1>3. CASE UNCHANGED fallbackVars
  BY <1>1, <1>3 DEF fallbackVars, FallbackTypeOK
<1>4. ASSUME NEW c \in Callers, DelayEnds(c) PROVE FallbackTypeOK'
  BY <1>1, <1>4, DelayEndsType DEF DelayEnds, InProgress
<1>5. ASSUME NEW c \in Callers, FallbacksExhausted(c) PROVE FallbackTypeOK'
  BY <1>1, <1>5, FallbacksExhaustedType DEF FallbacksExhausted, InProgress
<1>6. ASSUME NEW c \in Callers,
             \/ Generate(c) \/ PrimaryAnswers(c) \/ RecordSuccess(c) \/ RecordFailure(c)
             \/ FallbackSkipped(c) \/ FallbackBegins(c) \/ FallbackAnswers(c)
      PROVE  FallbackTypeOK'
  BY <1>1, <1>6, GenerateType, PrimaryAnswersType, RecordSuccessType, RecordFailureType,
     FallbackSkippedType, FallbackBeginsType, FallbackAnswersType
<1>7. ASSUME NEW c \in Callers, NEW err \in Errors, PrimaryFails(c, err) \/ FallbackFails(c, err)
      PROVE  FallbackTypeOK'
  BY <1>1, <1>7, PrimaryFailsType, FallbackFailsType
<1>8. QED
  BY <1>2, <1>3, <1>4, <1>5, <1>6, <1>7 DEF FallbackNext

-----------------------------------------------------------------------------
(* The breaker                                                              *)

LEMMA NextBreaker ==
    ASSUME FallbackInv, [FallbackNext]_fallbackVars
    PROVE  BreakerNeedsStreak'
<1>1. FallbackTypeOK /\ BreakerNeedsStreak
  BY DEF FallbackInv
<1>2. consecutiveFails \in Nat /\ streak \in Nat /\ Threshold \in Nat \ {0}
  BY <1>1, FallbackAssumption DEF FallbackTypeOK
<1>3. CASE CooldownEnds
  BY <1>1, <1>3 DEF CooldownEnds, BreakerNeedsStreak
<1>4. CASE UNCHANGED fallbackVars
  BY <1>1, <1>4 DEF fallbackVars, BreakerNeedsStreak
<1>5. ASSUME NEW c \in Callers,
             \/ Generate(c) \/ PrimaryAnswers(c) \/ FallbackAnswers(c)
             \/ FallbacksExhausted(c) \/ DelayEnds(c)
      PROVE  BreakerNeedsStreak'
  BY <1>1, <1>5 DEF Generate, PrimaryAnswers, FallbackAnswers, FallbacksExhausted, DelayEnds,
     BreakerNeedsStreak
<1>6. ASSUME NEW c \in Callers, FallbackSkipped(c) \/ FallbackBegins(c)
      PROVE  BreakerNeedsStreak'
  <2>1. consecutiveFails' <= consecutiveFails /\ consecutiveFails' \in Nat
    BY <1>1, <1>2, <1>6, HalfOpenType DEF FallbackSkipped, FallbackBegins
  <2>2. UNCHANGED <<cooling, streak>>
    BY <1>6 DEF FallbackSkipped, FallbackBegins
  <2>3. QED
    BY <1>1, <1>2, <2>1, <2>2 DEF BreakerNeedsStreak
<1>7. ASSUME NEW c \in Callers, RecordSuccess(c) PROVE BreakerNeedsStreak'
  BY <1>7 DEF RecordSuccess, BreakerNeedsStreak
<1>8. ASSUME NEW c \in Callers, RecordFailure(c) PROVE BreakerNeedsStreak'
  <2>1. consecutiveFails' = consecutiveFails + 1 /\ streak' = streak + 1
    BY <1>8 DEF RecordFailure
  <2>2. cooling' => (cooling \/ consecutiveFails + 1 >= Threshold)
    BY <1>8, Zenon DEF RecordFailure
  <2>3. consecutiveFails <= streak /\ (cooling => streak >= Threshold)
    BY <1>1 DEF BreakerNeedsStreak
  <2>4. cooling' => streak' >= Threshold
    BY <1>2, <2>1, <2>2, <2>3
  <2>5. QED
    BY <1>2, <2>1, <2>3, <2>4 DEF BreakerNeedsStreak
<1>9. ASSUME NEW c \in Callers, NEW err \in Errors, PrimaryFails(c, err) \/ FallbackFails(c, err)
      PROVE  BreakerNeedsStreak'
  BY <1>1, <1>9 DEF PrimaryFails, FallbackFails, BreakerNeedsStreak
<1>10. QED
  BY <1>3, <1>4, <1>5, <1>6, <1>7, <1>8, <1>9 DEF FallbackNext

-----------------------------------------------------------------------------
(* A refusal, and what requests wait for                                    *)

LEMMA NextRefused ==
    ASSUME FallbackInv, [FallbackNext]_fallbackVars
    PROVE  RefusedIsOver'
<1>1. FallbackTypeOK /\ RefusedIsOver /\ refused \subseteq Callers
      /\ request \in [Callers -> Requests]
  BY DEF FallbackInv, FallbackTypeOK, Requests
<1>2. CASE CooldownEnds \/ UNCHANGED fallbackVars
  BY <1>1, <1>2 DEF CooldownEnds, fallbackVars, RefusedIsOver
<1>3. ASSUME NEW c \in Callers, Generate(c) PROVE RefusedIsOver'
  BY <1>1, <1>3 DEF Generate, RefusedIsOver
<1>4. ASSUME NEW c \in Callers, PrimaryAnswers(c) \/ FallbackAnswers(c) PROVE RefusedIsOver'
  BY <1>1, <1>4 DEF PrimaryAnswers, FallbackAnswers, Called, RefusedIsOver, Permanent, Requests
<1>5. ASSUME NEW c \in Callers, RecordSuccess(c) \/ RecordFailure(c) PROVE RefusedIsOver'
  BY <1>1, <1>5 DEF RecordSuccess, RecordFailure, RefusedIsOver, Requests
<1>6. ASSUME NEW c \in Callers, FallbackSkipped(c) \/ FallbackBegins(c) PROVE RefusedIsOver'
  BY <1>1, <1>6 DEF FallbackSkipped, FallbackBegins, NextFallback, Trying, RefusedIsOver, Requests
<1>7. ASSUME NEW c \in Callers, FallbacksExhausted(c) PROVE RefusedIsOver'
  BY <1>1, <1>7 DEF FallbacksExhausted, Retry, RefusedIsOver, Requests
<1>8. ASSUME NEW c \in Callers, DelayEnds(c) PROVE RefusedIsOver'
  BY <1>1, <1>8 DEF DelayEnds, RefusedIsOver, Requests
<1>9. ASSUME NEW c \in Callers, NEW err \in Errors, PrimaryFails(c, err) \/ FallbackFails(c, err)
      PROVE  RefusedIsOver'
  <2>1. refused' \subseteq refused \cup {c} /\ (err \notin Permanent => refused' = refused)
    BY <1>9 DEF PrimaryFails, FallbackFails, Called
  <2>2. c \notin refused
    BY <1>1, <1>9 DEF PrimaryFails, FallbackFails, RefusedIsOver
  <2>3. \A d \in Callers \ {c} : request'[d] = request[d]
    BY <1>1, <1>9 DEF PrimaryFails, FallbackFails, NextFallback, Retry, Requests
  <2>4. CASE err \in Permanent
    <3>1. Retry(c, err)
      BY <1>9, <2>4 DEF PrimaryFails, FallbackFails, ShouldFallback, Fallbackable, Permanent, Transient
    <3>2. QED
      BY <1>1, <2>1, <2>3, <2>4, <3>1, RetryType DEF RefusedIsOver
  <2>5. CASE err \notin Permanent
    BY <1>1, <2>1, <2>2, <2>3, <2>5 DEF RefusedIsOver
  <2>6. QED
    BY <2>4, <2>5
<1>10. QED
  BY <1>2, <1>3, <1>4, <1>5, <1>6, <1>7, <1>8, <1>9 DEF FallbackNext

LEMMA NextProgress ==
    ASSUME FallbackInv, [FallbackNext]_fallbackVars
    PROVE  InProgress'
<1>1. FallbackTypeOK /\ InProgress /\ CallsCounted /\ request \in [Callers -> Requests]
  BY DEF FallbackInv, FallbackTypeOK, Requests
<1>2. CASE CooldownEnds \/ UNCHANGED fallbackVars
  BY <1>1, <1>2 DEF CooldownEnds, fallbackVars, InProgress
<1>3. ASSUME NEW c \in Callers, Generate(c) PROVE InProgress'
  BY <1>1, <1>3 DEF Generate, InProgress
<1>4. ASSUME NEW c \in Callers, PrimaryAnswers(c) \/ FallbackAnswers(c) PROVE InProgress'
  BY <1>1, <1>4 DEF PrimaryAnswers, FallbackAnswers, InProgress, Requests
<1>5. ASSUME NEW c \in Callers, RecordSuccess(c) \/ RecordFailure(c) PROVE InProgress'
  BY <1>1, <1>5 DEF RecordSuccess, RecordFailure, InProgress, Requests
<1>6. ASSUME NEW c \in Callers, FallbackSkipped(c) \/ FallbackBegins(c) PROVE InProgress'
  BY <1>1, <1>6 DEF FallbackSkipped, FallbackBegins, NextFallback, Trying, InProgress, Requests
<1>7. ASSUME NEW c \in Callers, NEW err \in Errors, Retry(c, err) PROVE InProgress'
  <2>1. request'[c].phase = "waiting" => request[c].try < Tries
    BY <1>1, <1>7 DEF Retry, Requests
  <2>2. QED
    BY <1>1, <1>7, <2>1, RetryType DEF InProgress
<1>8. ASSUME NEW c \in Callers, FallbacksExhausted(c) PROVE InProgress'
  BY <1>1, <1>7, <1>8 DEF FallbacksExhausted, InProgress
<1>9. ASSUME NEW c \in Callers, DelayEnds(c) PROVE InProgress'
  BY <1>1, <1>9 DEF DelayEnds, InProgress, Requests
<1>10. ASSUME NEW c \in Callers, NEW err \in Errors, PrimaryFails(c, err) PROVE InProgress'
  <2>1. CASE ShouldFallback(err)
    BY <1>1, <1>10, <2>1 DEF PrimaryFails, InProgress, Requests
  <2>2. CASE ~ShouldFallback(err)
    BY <1>7, <1>10, <2>2 DEF PrimaryFails
  <2>3. QED
    BY <2>1, <2>2
<1>11. ASSUME NEW c \in Callers, NEW err \in Errors, FallbackFails(c, err) PROVE InProgress'
  <2>1. CASE Fallbackable(err)
    <3>1. NextFallback(c) /\ request[c].next <= Fallbacks /\ request[c].err \in Errors
      BY <1>1, <1>11, <2>1 DEF FallbackFails, CallsCounted, InProgress
    <3>2. request'[c].phase = "fallback" /\ request'[c].err = request[c].err
      BY <1>1, <3>1 DEF NextFallback, Requests
    <3>3. QED
      BY <1>1, <3>1, <3>2, NextFallbackType DEF InProgress
  <2>2. CASE ~Fallbackable(err)
    BY <1>7, <1>11, <2>2 DEF FallbackFails
  <2>3. QED
    BY <2>1, <2>2
<1>12. QED
  BY <1>2, <1>3, <1>4, <1>5, <1>6, <1>8, <1>9, <1>10, <1>11 DEF FallbackNext

-----------------------------------------------------------------------------
(* Counting calls                                                           *)

\* One more try allows one more call of the primary and of each fallback.
LEMMA CallsOfTries ==
    /\ \A n \in Nat : CallsOf(n) \in Nat
    /\ \A n \in Nat \ {0} : CallsOf(n) = CallsOf(n - 1) + 1 + Fallbacks
    /\ CallsOf(0) = 0
<1>1. Fallbacks \in Nat
  BY FallbackAssumption
<1>2. ASSUME NEW n \in Nat PROVE CallsOf(n) \in Nat
  BY <1>1 DEF CallsOf
<1>3. ASSUME NEW n \in Nat \ {0} PROVE CallsOf(n) = CallsOf(n - 1) + 1 + Fallbacks
  BY <1>1 DEF CallsOf
<1>4. CallsOf(0) = 0
  BY <1>1 DEF CallsOf
<1>5. QED
  BY <1>2, <1>3, <1>4

\* What the counts of the caller of a step have to be; those of the others do not change.
Counted(r, n) ==
    /\ r.phase = "primary" => n <= CallsOf(r.try - 1)
    /\ r.phase = "recording" => n <= CallsOf(r.try - 1) + 1
    /\ r.phase \in {"fallback", "calling"} => n <= CallsOf(r.try - 1) + r.next
    /\ r.phase \in {"idle", "waiting"} => n <= CallsOf(r.try)
    /\ r.phase = "calling" => r.next <= Fallbacks

LEMMA CountedStep ==
    ASSUME CallsCounted, NEW c \in Callers, Counted(request'[c], attempts'[c]),
           \A d \in Callers \ {c} : request'[d] = request[d] /\ attempts'[d] = attempts[d]
    PROVE  CallsCounted'
  BY DEF CallsCounted, Counted

LEMMA CallerFacts ==
    ASSUME FallbackInv, NEW c \in Callers
    PROVE  /\ request[c] \in Requests /\ request[c].try \in Nat \ {0}
           /\ request[c].next \in Nat \ {0} /\ request[c].next <= Fallbacks + 1
           /\ attempts[c] \in Nat /\ Fallbacks \in Nat
           /\ Counted(request[c], attempts[c])
           /\ CallsOf(request[c].try) = CallsOf(request[c].try - 1) + 1 + Fallbacks
           /\ CallsOf(request[c].try) \in Nat /\ CallsOf(request[c].try - 1) \in Nat
<1>1. request[c] \in Requests /\ attempts[c] \in Nat /\ Fallbacks \in Nat /\ Tries \in Nat
  BY FallbackAssumption DEF FallbackInv, FallbackTypeOK, Requests
<1>2. request[c].try \in 1 .. Tries /\ request[c].next \in 1 .. Fallbacks + 1
  BY <1>1 DEF Requests
<1>3. Counted(request[c], attempts[c])
  BY DEF FallbackInv, CallsCounted, Counted
<1>4. request[c].try - 1 \in Nat /\ request[c].try \in Nat \ {0}
  BY <1>1, <1>2
<1>5. QED
  BY <1>1, <1>2, <1>3, <1>4, CallsOfTries

\* A step that adds at most the call of a model and gives up or goes on to the next try.
LEMMA RetryCounted ==
    ASSUME FallbackInv, NEW c \in Callers, NEW err \in Errors, Retry(c, err),
           \/ request[c].phase \in {"primary", "calling"} /\ attempts'[c] = attempts[c] + 1
           \/ request[c].phase = "fallback" /\ attempts'[c] = attempts[c]
    PROVE  Counted(request'[c], attempts'[c])
<1>1. request'[c].phase \in {"idle", "waiting"} /\ request'[c].try = request[c].try
  BY RetryType DEF FallbackInv
<1>2. attempts'[c] <= CallsOf(request[c].try)
  <2>1. CASE request[c].phase = "primary"
    BY <2>1, CallerFacts DEF Counted
  <2>2. CASE request[c].phase = "calling"
    BY <2>2, CallerFacts DEF Counted
  <2>3. CASE request[c].phase = "fallback"
    BY <2>3, CallerFacts DEF Counted
  <2>4. QED
    BY <2>1, <2>2, <2>3
<1>3. QED
  BY <1>1, <1>2 DEF Counted

LEMMA NextCounted ==
    ASSUME FallbackInv, [FallbackNext]_fallbackVars
    PROVE  CallsCounted'
<1>1. FallbackTypeOK /\ CallsCounted /\ InProgress
      /\ request \in [Callers -> Requests] /\ attempts \in [Callers -> Nat]
  BY DEF FallbackInv, FallbackTypeOK, Requests
<1>2. CASE CooldownEnds \/ UNCHANGED fallbackVars
  BY <1>1, <1>2 DEF CooldownEnds, fallbackVars, CallsCounted
<1>3. ASSUME NEW c \in Callers, Generate(c) PROVE CallsCounted'
  <2>1. request'[c] = [phase |-> "primary", try |-> 1, next |-> 1, err |-> "ok"]
        /\ attempts'[c] = 0
    BY <1>1, <1>3 DEF Generate
  <2>2. Counted(request'[c], attempts'[c])
    BY <2>1, CallsOfTries DEF Counted
  <2>3. QED
    BY <1>1, <1>3, <2>2, CountedStep DEF Generate
<1>4. ASSUME NEW c \in Callers, PrimaryAnswers(c) \/ FallbackAnswers(c) PROVE CallsCounted'
  <2>1. /\ \/ request[c].phase = "primary" /\ request'[c].phase = "recording"
           \/ request[c].phase = "calling" /\ request'[c].phase = "idle"
        /\ request'[c].try = request[c].try
        /\ attempts'[c] = attempts[c] + 1
    BY <1>1, <1>4 DEF PrimaryAnswers, FallbackAnswers, Called, Requests
  <2>2. Counted(request'[c], attempts'[c])
    BY <2>1, CallerFacts DEF Counted
  <2>3. QED
    BY <1>1, <1>4, <2>2, CountedStep DEF PrimaryAnswers, FallbackAnswers, Called
<1>5. ASSUME NEW c \in Callers, FallbackSkipped(c) PROVE CallsCounted'
  <2>1. /\ request[c].phase = "fallback" /\ request[c].next <= Fallbacks
        /\ attempts' = attempts /\ NextFallback(c)
    BY <1>5 DEF FallbackSkipped, Trying
  <2>2. request'[c].phase = "fallback" /\ request'[c].next = request[c].next + 1
        /\ request'[c].try = request[c].try
    BY <1>1, <2>1 DEF NextFallback, Requests
  <2>3. Counted(request'[c], attempts'[c])
    BY <2>1, <2>2, CallerFacts DEF Counted
  <2>4. QED
    BY <1>1, <2>1, <2>3, CountedStep, NextFallbackType
<1>6. ASSUME NEW c \in Callers, FallbackBegins(c) PROVE CallsCounted'
  <2>1. /\ request[c].phase = "fallback" /\ request[c].next <= Fallbacks
        /\ attempts' = attempts
        /\ request' = [request EXCEPT ![c].phase = "calling"]
    BY <1>6 DEF FallbackBegins, Trying
  <2>2. request'[c].phase = "calling" /\ request'[c].next = request[c].next
        /\ request'[c].try = request[c].try
    BY <1>1, <2>1 DEF Requests
  <2>3. Counted(request'[c], attempts'[c])
    BY <2>1, <2>2, CallerFacts DEF Counted
  <2>4. QED
    BY <1>1, <2>1, <2>3, CountedStep
<1>7. ASSUME NEW c \in Callers, FallbacksExhausted(c) PROVE CallsCounted'
  <2>1. /\ request[c].phase = "fallback" /\ attempts' = attempts
        /\ request[c].err \in Errors /\ Retry(c, request[c].err)
    BY <1>1, <1>7 DEF FallbacksExhausted, InProgress
  <2>2. Counted(request'[c], attempts'[c])
    BY <2>1, RetryCounted
  <2>3. QED
    BY <1>1, <2>1, <2>2, CountedStep, RetryType
<1>8. ASSUME NEW c \in Callers, DelayEnds(c) PROVE CallsCounted'
  <2>1. request[c].phase = "waiting" /\ attempts' = attempts
    BY <1>8 DEF DelayEnds
  <2>2. \/ request'[c].phase = "primary" /\ request'[c].try = request[c].try + 1
        \/ request'[c].phase = "idle" /\ request'[c].try = request[c].try
    BY <1>1, <1>8 DEF DelayEnds, Requests
  <2>3. Counted(request'[c], attempts'[c])
    <3>1. attempts[c] <= CallsOf(request[c].try) /\ attempts'[c] = attempts[c]
      BY <2>1, CallerFacts DEF Counted
    <3>2. CASE request'[c].phase = "primary" /\ request'[c].try = request[c].try + 1
      <4>1. request'[c].try - 1 = request[c].try
        BY <3>2, CallerFacts
      <4>2. attempts'[c] <= CallsOf(request'[c].try - 1)
        BY <3>1, <4>1
      <4>3. QED
        BY <3>2, <4>2 DEF Counted
    <3>3. CASE request'[c].phase = "idle" /\ request'[c].try = request[c].try
      <4>1. attempts'[c] <= CallsOf(request'[c].try)
        BY <3>1, <3>3
      <4>2. QED
        BY <3>3, <4>1 DEF Counted
    <3>4. QED
      BY <2>2, <3>2, <3>3
  <2>4. QED
    BY <1>1, <1>8, <2>1, <2>3, CountedStep DEF DelayEnds
<1>9. ASSUME NEW c \in Callers, NEW err \in Errors, PrimaryFails(c, err) PROVE CallsCounted'
  <2>1. request[c].phase = "primary" /\ attempts' = [attempts EXCEPT ![c] = attempts[c] + 1]
    BY <1>9 DEF PrimaryFails, Called
  <2>2. CASE ShouldFallback(err)
    <3>1. request'[c].phase = "recording" /\ request'[c].try = request[c].try
      BY <1>1, <1>9, <2>2 DEF PrimaryFails, Requests
    <3>2. attempts'[c] = attempts[c] + 1 /\ attempts[c] <= CallsOf(request[c].try - 1)
      BY <1>1, <2>1 DEF CallsCounted
    <3>3. attempts'[c] <= CallsOf(request[c].try - 1) + 1
      BY <3>2, CallerFacts
    <3>4. Counted(request'[c], attempts'[c])
      BY <3>1, <3>3 DEF Counted
    <3>5. QED
      BY <1>1, <1>9, <2>1, <2>2, <3>4, CountedStep DEF PrimaryFails
  <2>3. CASE ~ShouldFallback(err)
    <3>1. Retry(c, err)
      BY <1>9, <2>3 DEF PrimaryFails
    <3>2. Counted(request'[c], attempts'[c])
      BY <1>1, <2>1, <3>1, RetryCounted
    <3>3. QED
      BY <1>1, <2>1, <3>1, <3>2, CountedStep, RetryType
  <2>4. QED
    BY <2>2, <2>3
<1>10. ASSUME NEW c \in Callers, NEW err \in Errors, FallbackFails(c, err) PROVE CallsCounted'
  <2>1. /\ request[c].phase = "calling" /\ request[c].next <= Fallbacks
        /\ attempts' = [attempts EXCEPT ![c] = attempts[c] + 1]
    BY <1>1, <1>10 DEF FallbackFails, Called, CallsCounted
  <2>2. CASE Fallbackable(err)
    <3>1. NextFallback(c)
      BY <1>10, <2>2 DEF FallbackFails
    <3>2. request'[c].phase = "fallback" /\ request'[c].next = request[c].next + 1
          /\ request'[c].try = request[c].try
      BY <1>1, <3>1 DEF NextFallback, Requests
    <3>3. Counted(request'[c], attempts'[c])
      BY <1>1, <2>1, <3>2, CallerFacts DEF Counted
    <3>4. QED
      BY <1>1, <2>1, <3>1, <3>3, CountedStep, NextFallbackType
  <2>3. CASE ~Fallbackable(err)
    <3>1. Retry(c, err)
      BY <1>10, <2>3 DEF FallbackFails
    <3>2. Counted(request'[c], attempts'[c])
      BY <1>1, <2>1, <3>1, RetryCounted
    <3>3. QED
      BY <1>1, <2>1, <3>1, <3>2, CountedStep, RetryType
  <2>4. QED
    BY <2>2, <2>3
<1>11. ASSUME NEW c \in Callers, RecordSuccess(c) \/ RecordFailure(c) PROVE CallsCounted'
  <2>1. /\ request[c].phase = "recording" /\ attempts' = attempts
        /\ \/ request'[c].phase = "idle"
           \/ request'[c].phase = "fallback" /\ request'[c].next = 1
        /\ request'[c].try = request[c].try
    BY <1>1, <1>11 DEF RecordSuccess, RecordFailure, Requests
  <2>2. Counted(request'[c], attempts'[c])
    BY <2>1, CallerFacts DEF Counted
  <2>3. QED
    BY <1>1, <1>11, <2>2, CountedStep DEF RecordSuccess, RecordFailure
<1>12. QED
  BY <1>2, <1>3, <1>4, <1>5, <1>6, <1>7, <1>8, <1>9, <1>10, <1>11 DEF FallbackNext

-----------------------------------------------------------------------------
(* Theorems                                                                 *)

LEMMA FallbackInitially == FallbackInit => FallbackInv
<1> SUFFICES ASSUME FallbackInit PROVE FallbackInv
  OBVIOUS
<1>2. FallbackTypeOK
  <2>1. [phase |-> "idle", try |-> 1, next |-> 1, err |-> "ok"] \in Requests
    BY FallbackAssumption DEF Requests, RequestPhases
  <2>2. request \in [Callers -> Requests]
    BY <2>1 DEF FallbackInit
  <2>3. 0 \in 0 .. MaxRequests
    BY FallbackAssumption
  <2>4. QED
    BY <2>2, <2>3 DEF FallbackInit, FallbackTypeOK, Requests
<1>3. InProgress /\ RefusedIsOver
  BY DEF FallbackInit, InProgress, RefusedIsOver
<1>4. BreakerNeedsStreak
  BY DEF FallbackInit, BreakerNeedsStreak
<1>5. CallsCounted
  <2>1. CallsOf(1) \in Nat /\ CallsOf(1) >= 0
    BY CallsOfTries
  <2>2. ASSUME NEW c \in Callers
        PROVE  request[c].phase = "idle" /\ request[c].try = 1 /\ attempts[c] = 0
    BY DEF FallbackInit
  <2>3. QED
    BY <2>1, <2>2 DEF CallsCounted
<1>6. QED
  BY <1>2, <1>3, <1>4, <1>5 DEF FallbackInv

\* The inductive invariant, for every number of callers, fallbacks and tries.
THEOREM FallbackSafe == FallbackSpec => []FallbackInv
<1>1. FallbackInv /\ [FallbackNext]_fallbackVars => FallbackInv'
  BY FallbackNextType, NextBreaker, NextRefused, NextProgress, NextCounted DEF FallbackInv
<1>2. QED
  BY <1>1, FallbackInitially, PTL DEF FallbackSpec

\* The variables stay within their types.
THEOREM FallbackTypeCorrect == FallbackSpec => []FallbackTypeOK
<1>1. FallbackInv => FallbackTypeOK
  BY DEF FallbackInv
<1>2. QED
  BY <1>1, FallbackSafe, PTL

\* The breaker opens only after Threshold failures of the primary were recorded without a
\* success in between, however many requests return, record and probe at the same time
\* (fallback.go:53-63, 92-119).
THEOREM BreakerSafe == FallbackSpec => []BreakerNeedsStreak
<1>1. FallbackInv => BreakerNeedsStreak
  BY DEF FallbackInv
<1>2. QED
  BY <1>1, FallbackSafe, PTL

\* No step calls a model for a request that a model has refused for good
\* (fallback.go:60-80, retry.go:55-57).
THEOREM RefusedStaysRefused == FallbackSpec => PermanentIsFinal
<1> DEFINE NoMoreCalls == \A c \in Callers : c \in refused /\ requests'[c] = requests[c]
                              => attempts'[c] = attempts[c]
<1>1. FallbackInv /\ [FallbackNext]_fallbackVars => [NoMoreCalls]_fallbackVars
  <2> SUFFICES ASSUME FallbackInv, FallbackNext, NEW c \in Callers, c \in refused,
                      requests'[c] = requests[c]
               PROVE  attempts'[c] = attempts[c]
    OBVIOUS
  <2>1. /\ request[c].phase = "idle" /\ requests[c] \in Nat
        /\ requests \in [Callers -> 0 .. MaxRequests] /\ attempts \in [Callers -> Nat]
    BY FallbackAssumption DEF FallbackInv, RefusedIsOver, FallbackTypeOK
  <2>2. ASSUME NEW d \in Callers, Generate(d) PROVE attempts'[c] = attempts[c]
    BY <2>1, <2>2 DEF Generate
  <2>3. ASSUME NEW d \in Callers, PrimaryAnswers(d) \/ FallbackAnswers(d)
        PROVE  attempts'[c] = attempts[c]
    BY <2>1, <2>3 DEF PrimaryAnswers, FallbackAnswers, Called
  <2>4. ASSUME NEW d \in Callers, NEW err \in Errors, PrimaryFails(d, err) \/ FallbackFails(d, err)
        PROVE  attempts'[c] = attempts[c]
    BY <2>1, <2>4 DEF PrimaryFails, FallbackFails, Called
  <2>5. QED
    BY <2>2, <2>3, <2>4 DEF FallbackNext, RecordSuccess, RecordFailure, FallbackSkipped,
       FallbackBegins, FallbacksExhausted, DelayEnds, CooldownEnds
<1>2. QED
  BY <1>1, FallbackSafe, PTL DEF FallbackSpec, PermanentIsFinal

\* No request makes more calls than its tries allow: the primary and every fallback once
\* each (fallback.go:52-86, retry.go:43-93).
THEOREM AttemptsSafe == FallbackSpec => []AttemptsBounded
<1>1. FallbackInv => AttemptsBounded
  <2> SUFFICES ASSUME FallbackInv, NEW c \in Callers
               PROVE  attempts[c] <= request[c].try * (1 + Fallbacks)
    BY DEF AttemptsBounded
  <2>1. attempts[c] <= CallsOf(request[c].try)
    BY CallerFacts DEF Counted, Requests, RequestPhases
  <2>2. QED
    BY <2>1 DEF CallsOf
<1>2. QED
  BY <1>1, FallbackSafe, PTL

-----------------------------------------------------------------------------
(* Onboarding                                                               *)

\* Onboards do not overlap, so the temporary file is that of one process.
OneOnboard == \A p, q \in Onboards : Running(p) /\ Running(q) => p = q

\* Only an onboard works on it, and before the rename it is whole and flushed.
TmpReady ==
    \A p \in Processes :
        /\ program[p].phase \in {"tmp", "encode", "sync", "rename"} => p \in Onboards
        /\ program[p].phase \in {"sync", "rename"} => content[Tmp] = "default"
        /\ program[p].phase = "rename" => Tmp \in durable

\* The files that are created in place are others.
LaysOut ==
    \A p \in Processes : program[p].phase \in {"create", "fill"} =>
        File(p) \in FilesLaid /\ program[p].at <= Len(Layout(p))

\* The configuration and what a lost rename brings back are whole and flushed.
ConfigSafe ==
    /\ ConfigWhole /\ Config \in durable
    /\ replaced # "torn"

OnboardInv == OnboardTypeOK /\ OneOnboard /\ TmpReady /\ LaysOut /\ ConfigSafe

USE DEF Config, Tmp, Processes, Paths

LEMMA FilesOfLayout ==
    ASSUME NEW p \in Processes, NEW i \in 1 .. Len(Layout(p))
    PROVE  Layout(p)[i] \in FilesLaid
<1>1. Templates \in Seq(STRING) /\ MemoryFiles \in Seq(STRING)
  BY LayoutAssumption
<1>2. CASE p \in Onboards
  <2>1. Layout(p) = Templates \o MemoryFiles
    BY <1>2 DEF Layout
  <2>2. CASE i <= Len(Templates)
    BY <1>1, <2>1, <2>2 DEF FilesLaid
  <2>3. CASE i > Len(Templates)
    <3>1. i - Len(Templates) \in 1 .. Len(MemoryFiles)
      BY <1>1, <2>1, <2>3
    <3>2. Layout(p)[i] = MemoryFiles[i - Len(Templates)]
      BY <1>1, <2>1, <2>3
    <3> QED BY <3>1, <3>2 DEF FilesLaid
  <2> QED BY <1>1, <2>1, <2>2, <2>3
<1>3. CASE p \notin Onboards
  BY <1>3 DEF Layout, FilesLaid
<1> QED BY <1>2, <1>3

LEMMA LayoutLength == \A p \in Processes : Len(Layout(p)) \in Nat
BY LayoutAssumption DEF Layout

LEMMA OnboardingInit == OnboardInit => OnboardInv
<1> SUFFICES ASSUME OnboardInit PROVE OnboardInv
  OBVIOUS
<1>1. OnboardTypeOK
  BY LayoutAssumption, LayoutLength DEF OnboardInit, OnboardTypeOK
<1>2. OneOnboard /\ TmpReady /\ LaysOut /\ ConfigSafe
  BY DEF OnboardInit, OneOnboard, TmpReady, LaysOut, ConfigSafe, ConfigWhole, Running
<1> QED BY <1>1, <1>2 DEF OnboardInv

Phases == {"off", "tmp", "encode", "sync", "rename", "stat", "create", "fill", "done",
           "failed", "dead"}

\* A process goes to a phase; the others stay where they are.
LEMMA Moves ==
    ASSUME OnboardTypeOK, NEW p \in Processes, NEW ph \in Phases, ProgramGoes(p, ph)
    PROVE  /\ program' \in [Processes -> [phase : Phases, at : Nat \ {0}]]
           /\ program'[p].phase = ph /\ program'[p].at = program[p].at
           /\ \A q \in Processes \ {p} : program'[q] = program[q]
BY DEF OnboardTypeOK, ProgramGoes, Phases

Contents == {"absent", "torn", "default", "user"}

\* Types, when a process goes to a phase.
LEMMA TypesMove ==
    ASSUME OnboardTypeOK, NEW p \in Processes, \E ph \in Phases : ProgramGoes(p, ph),
           content' \in [Paths -> Contents], durable' \subseteq Paths,
           replaced' \in Contents \cup {"none"}, outages' = outages
    PROVE  OnboardTypeOK'
<1>1. /\ program' \in [Processes -> [phase : Phases, at : Nat \ {0}]]
      /\ \A q \in Processes : program'[q].at = program[q].at
  BY Moves
<1> QED BY <1>1 DEF OnboardTypeOK, Phases, Contents

LEMMA OnboardingStep == OnboardInv /\ [OnboardNext]_onboardVars => OnboardInv'
<1> SUFFICES ASSUME OnboardInv, [OnboardNext]_onboardVars PROVE OnboardInv'
  OBVIOUS
<1>0. OnboardTypeOK /\ OneOnboard /\ TmpReady /\ LaysOut /\ ConfigSafe
  BY DEF OnboardInv
<1>1. ASSUME NEW p \in Processes, BeginOnboard(p) PROVE OnboardInv'
  <2>1. \E ph \in Phases : ProgramGoes(p, ph)
    BY <1>1 DEF BeginOnboard, Phases
  <2>2. OnboardTypeOK'
    <3>1. content' \in [Paths -> Contents] /\ durable' \subseteq Paths
      BY <1>0, <1>1 DEF BeginOnboard, OnboardTypeOK, Contents
    <3>2. replaced' \in Contents \cup {"none"} /\ outages' = outages
      BY <1>0, <1>1 DEF BeginOnboard, OnboardTypeOK, Contents
    <3> QED BY <1>0, <2>1, <3>1, <3>2, TypesMove
  <2>3. OneOnboard'
    BY <1>0, <1>1, <2>1, Moves DEF BeginOnboard, OneOnboard, Running, ProgramGoes, OnboardTypeOK
  <2>4. TmpReady'
    BY <1>0, <1>1, <2>1, Moves
       DEF BeginOnboard, TmpReady, OneOnboard, Running, ProgramGoes, OnboardTypeOK
  <2>5. LaysOut'
    BY <1>0, <1>1, <2>1, Moves DEF BeginOnboard, LaysOut, File, ProgramGoes, OnboardTypeOK
  <2>6. ConfigSafe'
    BY <1>0, <1>1 DEF BeginOnboard, ConfigSafe, ConfigWhole, TmpReady, OnboardTypeOK
  <2> QED BY <2>2, <2>3, <2>4, <2>5, <2>6 DEF OnboardInv
<1>2. ASSUME NEW p \in Processes, BeginGateway(p) PROVE OnboardInv'
  <2>1. \E ph \in Phases : ProgramGoes(p, ph)
    BY <1>2 DEF BeginGateway, Phases
  <2>2. OnboardTypeOK'
    <3>1. content' \in [Paths -> Contents] /\ durable' \subseteq Paths
      BY <1>0, <1>2 DEF BeginGateway, OnboardTypeOK, Contents
    <3>2. replaced' \in Contents \cup {"none"} /\ outages' = outages
      BY <1>0, <1>2 DEF BeginGateway, OnboardTypeOK, Contents
    <3> QED BY <1>0, <2>1, <3>1, <3>2, TypesMove
  <2>3. OneOnboard'
    <3>1. p \notin Onboards
      BY <1>2, LayoutAssumption DEF BeginGateway
    <3>2. \A q \in Onboards : program'[q] = program[q]
      BY <1>0, <2>1, <3>1, Moves
    <3> QED BY <1>0, <3>2 DEF OneOnboard, Running
  <2>4. TmpReady'
    BY <1>0, <1>2, <2>1, Moves
       DEF BeginGateway, TmpReady, OneOnboard, Running, ProgramGoes, OnboardTypeOK
  <2>5. LaysOut'
    BY <1>0, <1>2, <2>1, Moves DEF BeginGateway, LaysOut, File, ProgramGoes, OnboardTypeOK
  <2>6. ConfigSafe'
    BY <1>0, <1>2 DEF BeginGateway, ConfigSafe, ConfigWhole, TmpReady, OnboardTypeOK
  <2> QED BY <2>2, <2>3, <2>4, <2>5, <2>6 DEF OnboardInv
<1>3. ASSUME NEW p \in Processes, OpenTmp(p) PROVE OnboardInv'
  <2>1. \E ph \in Phases : ProgramGoes(p, ph)
    BY <1>3 DEF OpenTmp, Fails, Writes, Phases
  <2>2. OnboardTypeOK'
    <3>1. content' \in [Paths -> Contents] /\ durable' \subseteq Paths
      BY <1>0, <1>3 DEF OpenTmp, Fails, Writes, OnboardTypeOK, Contents
    <3>2. replaced' \in Contents \cup {"none"} /\ outages' = outages
      BY <1>0, <1>3 DEF OpenTmp, OnboardTypeOK, Contents
    <3> QED BY <1>0, <2>1, <3>1, <3>2, TypesMove
  <2>3. OneOnboard'
    BY <1>0, <1>3, <2>1, Moves
       DEF OpenTmp, Fails, Writes, OneOnboard, Running, ProgramGoes, OnboardTypeOK
  <2>4. TmpReady'
    <3>1. /\ p \in Onboards
          /\ \A q \in Processes \ {p} : program[q].phase \notin {"tmp", "encode", "sync", "rename"}
      BY <1>0, <1>3 DEF OpenTmp, TmpReady, OneOnboard, Running
    <3>2. /\ program'[p].phase \in {"encode", "failed"}
      BY <1>0, <1>3 DEF OpenTmp, Fails, Writes, ProgramGoes, TmpReady, OnboardTypeOK
    <3> QED BY <1>0, <2>1, <3>1, <3>2, Moves DEF TmpReady
  <2>5. LaysOut'
    BY <1>0, <1>3, <2>1, Moves DEF OpenTmp, Fails, Writes, LaysOut, File, ProgramGoes, OnboardTypeOK
  <2>6. ConfigSafe'
    BY <1>0, <1>3 DEF OpenTmp, Fails, Writes, ConfigSafe, ConfigWhole, TmpReady, OnboardTypeOK
  <2> QED BY <2>2, <2>3, <2>4, <2>5, <2>6 DEF OnboardInv
<1>4. ASSUME NEW p \in Processes, EncodeConfig(p) PROVE OnboardInv'
  <2>1. \E ph \in Phases : ProgramGoes(p, ph)
    BY <1>4 DEF EncodeConfig, Fails, Writes, RemovesTmp, Phases
  <2>2. OnboardTypeOK'
    <3>1. content' \in [Paths -> Contents] /\ durable' \subseteq Paths
      BY <1>0, <1>4 DEF EncodeConfig, Fails, Writes, RemovesTmp, OnboardTypeOK, Contents
    <3>2. replaced' \in Contents \cup {"none"} /\ outages' = outages
      BY <1>0, <1>4 DEF EncodeConfig, OnboardTypeOK, Contents
    <3> QED BY <1>0, <2>1, <3>1, <3>2, TypesMove
  <2>3. OneOnboard'
    BY <1>0, <1>4, <2>1, Moves
       DEF EncodeConfig, Fails, Writes, RemovesTmp, OneOnboard, Running, ProgramGoes, OnboardTypeOK
  <2>4. TmpReady'
    <3>1. /\ p \in Onboards
          /\ \A q \in Processes \ {p} : program[q].phase \notin {"tmp", "encode", "sync", "rename"}
      BY <1>0, <1>4 DEF EncodeConfig, TmpReady, OneOnboard, Running
    <3>2. /\ program'[p].phase \in {"sync", "failed"}
          /\ program'[p].phase = "sync" => content'[Tmp] = "default"
      BY <1>0, <1>4 DEF EncodeConfig, Fails, Writes, RemovesTmp, ProgramGoes, TmpReady, OnboardTypeOK
    <3> QED BY <1>0, <2>1, <3>1, <3>2, Moves DEF TmpReady
  <2>5. LaysOut'
    BY <1>0, <1>4, <2>1, Moves
       DEF EncodeConfig, Fails, Writes, RemovesTmp, LaysOut, File, ProgramGoes, OnboardTypeOK
  <2>6. ConfigSafe'
    BY <1>0, <1>4
       DEF EncodeConfig, Fails, Writes, RemovesTmp, ConfigSafe, ConfigWhole, TmpReady,
           OnboardTypeOK
  <2> QED BY <2>2, <2>3, <2>4, <2>5, <2>6 DEF OnboardInv
<1>5. ASSUME NEW p \in Processes, SyncTmp(p) PROVE OnboardInv'
  <2>1. \E ph \in Phases : ProgramGoes(p, ph)
    BY <1>5 DEF SyncTmp, Fails, Writes, RemovesTmp, Phases
  <2>2. OnboardTypeOK'
    <3>1. content' \in [Paths -> Contents] /\ durable' \subseteq Paths
      BY <1>0, <1>5 DEF SyncTmp, Fails, Writes, RemovesTmp, OnboardTypeOK, Contents
    <3>2. replaced' \in Contents \cup {"none"} /\ outages' = outages
      BY <1>0, <1>5 DEF SyncTmp, OnboardTypeOK, Contents
    <3> QED BY <1>0, <2>1, <3>1, <3>2, TypesMove
  <2>3. OneOnboard'
    BY <1>0, <1>5, <2>1, Moves
       DEF SyncTmp, Fails, Writes, RemovesTmp, OneOnboard, Running, ProgramGoes, OnboardTypeOK
  <2>4. TmpReady'
    <3>1. /\ p \in Onboards
          /\ \A q \in Processes \ {p} : program[q].phase \notin {"tmp", "encode", "sync", "rename"}
      BY <1>0, <1>5 DEF SyncTmp, TmpReady, OneOnboard, Running
    <3>2. /\ program'[p].phase \in {"rename", "failed"}
          /\ program'[p].phase = "rename" => content'[Tmp] = "default" /\ Tmp \in durable'
      BY <1>0, <1>5 DEF SyncTmp, Fails, Writes, RemovesTmp, ProgramGoes, TmpReady, OnboardTypeOK
    <3> QED BY <1>0, <2>1, <3>1, <3>2, Moves DEF TmpReady
  <2>5. LaysOut'
    BY <1>0, <1>5, <2>1, Moves
       DEF SyncTmp, Fails, Writes, RemovesTmp, LaysOut, File, ProgramGoes, OnboardTypeOK
  <2>6. ConfigSafe'
    BY <1>0, <1>5
       DEF SyncTmp, Fails, Writes, RemovesTmp, ConfigSafe, ConfigWhole, TmpReady,
           OnboardTypeOK
  <2> QED BY <2>2, <2>3, <2>4, <2>5, <2>6 DEF OnboardInv
<1>6. ASSUME NEW p \in Processes, RenameTmp(p) PROVE OnboardInv'
  <2>1. \E ph \in Phases : ProgramGoes(p, ph)
    BY <1>6 DEF RenameTmp, Fails, Writes, RemovesTmp, Phases
  <2>2. OnboardTypeOK'
    <3>1. content' \in [Paths -> Contents] /\ durable' \subseteq Paths
      BY <1>0, <1>6 DEF RenameTmp, Fails, Writes, RemovesTmp, OnboardTypeOK, Contents
    <3>2. replaced' \in Contents \cup {"none"} /\ outages' = outages
      BY <1>0, <1>6 DEF RenameTmp, OnboardTypeOK, Contents
    <3> QED BY <1>0, <2>1, <3>1, <3>2, TypesMove
  <2>3. OneOnboard'
    BY <1>0, <1>6, <2>1, Moves
       DEF RenameTmp, Fails, Writes, RemovesTmp, OneOnboard, Running, ProgramGoes, OnboardTypeOK
  <2>4. TmpReady'
    <3>1. \A q \in Processes \ {p} : program[q].phase \notin {"tmp", "encode", "sync", "rename"}
      BY <1>0, <1>6 DEF RenameTmp, TmpReady, OneOnboard, Running
    <3>2. program'[p].phase \in {"stat", "failed"}
      BY <1>0, <1>6 DEF RenameTmp, RemovesTmp, Fails, ProgramGoes, OnboardTypeOK
    <3> QED BY <1>0, <2>1, <3>1, <3>2, Moves DEF TmpReady
  <2>5. LaysOut'
    BY <1>0, <1>6, <2>1, Moves
       DEF RenameTmp, Fails, Writes, RemovesTmp, LaysOut, File, ProgramGoes, OnboardTypeOK
  <2>6. ConfigSafe'
    BY <1>0, <1>6
       DEF RenameTmp, Fails, Writes, RemovesTmp, ConfigSafe, ConfigWhole, TmpReady,
           OnboardTypeOK
  <2> QED BY <2>2, <2>3, <2>4, <2>5, <2>6 DEF OnboardInv
<1>7. ASSUME NEW p \in Processes, StatFile(p) PROVE OnboardInv'
  <2> DEFINE at == program[p].at
  <2>1. UNCHANGED <<content, durable, replaced, outages>> /\ program[p].phase = "stat"
    BY <1>7 DEF StatFile
  <2>2. ASSUME NEW ph \in {"done", "create"}, ProgramGoes(p, ph),
               ph = "create" => at <= Len(Layout(p))
        PROVE  OnboardInv'
    <3>1. /\ program' \in [Processes -> [phase : Phases, at : Nat \ {0}]]
          /\ program'[p].phase = ph /\ program'[p].at = at
          /\ \A q \in Processes \ {p} : program'[q] = program[q]
      BY <1>0, <2>2, Moves DEF Phases
    <3>2. OnboardTypeOK'
      BY <1>0, <2>1, <3>1 DEF OnboardTypeOK, Phases
    <3>3. OneOnboard' /\ TmpReady' /\ ConfigSafe'
      BY <1>0, <2>1, <3>1 DEF OneOnboard, TmpReady, ConfigSafe, ConfigWhole, Running
    <3>4. ph = "create" => Layout(p)[at] \in FilesLaid
      BY <1>0, <2>2, FilesOfLayout, LayoutLength DEF OnboardTypeOK
    <3>5. LaysOut'
      BY <1>0, <2>2, <3>1, <3>4 DEF LaysOut, File
    <3> QED BY <3>2, <3>3, <3>5 DEF OnboardInv
  <2>3. CASE at <= Len(Layout(p)) /\ program' = [program EXCEPT ![p].at = @ + 1]
    <3>1. OnboardTypeOK'
      BY <1>0, <2>1, <2>3, LayoutLength DEF OnboardTypeOK
    <3>2. /\ \A q \in Processes : program'[q].phase = program[q].phase
          /\ \A q \in Processes \ {p} : program'[q] = program[q]
      BY <1>0, <2>3 DEF OnboardTypeOK
    <3> QED
      BY <1>0, <2>1, <3>1, <3>2
         DEF OnboardInv, OneOnboard, TmpReady, LaysOut, ConfigSafe, ConfigWhole, Running, File
  <2> QED
    BY <1>0, <1>7, <2>2, <2>3, LayoutLength DEF StatFile, OnboardTypeOK
<1>8. ASSUME NEW p \in Processes, CreateFile(p) PROVE OnboardInv'
  <2>1. /\ File(p) \in FilesLaid /\ File(p) \notin {Config, Tmp}
        /\ program[p].at <= Len(Layout(p))
    BY <1>0, <1>8, LayoutAssumption DEF CreateFile, LaysOut
  <2>2. /\ content' \in [Paths -> {"absent", "torn", "default", "user"}]
        /\ durable' \subseteq Paths /\ UNCHANGED <<replaced, outages>>
        /\ content'[Config] = content[Config] /\ (Config \in durable => Config \in durable')
        /\ content'[Tmp] = content[Tmp] /\ (Tmp \in durable => Tmp \in durable')
    BY <1>0, <1>8, <2>1 DEF CreateFile, Writes, OnboardTypeOK
  <2>3. /\ program' \in [Processes -> [phase : Phases, at : Nat \ {0}]]
        /\ \A q \in Processes : program'[q].at <= Len(Layout(q)) + 1
        /\ \A q \in Processes \ {p} : program'[q] = program[q]
        /\ program'[p].phase \in {"fill", "failed"} /\ program'[p].at = program[p].at
    BY <1>0, <1>8, Moves DEF CreateFile, Fails, OnboardTypeOK, Phases
  <2>4. OnboardTypeOK'
    BY <1>0, <2>2, <2>3 DEF OnboardTypeOK, Phases
  <2>5. OneOnboard' /\ TmpReady'
    BY <1>0, <1>8, <2>2, <2>3 DEF CreateFile, OneOnboard, TmpReady, Running
  <2>6. LaysOut'
    BY <1>0, <2>1, <2>3 DEF LaysOut, File
  <2>7. ConfigSafe'
    BY <1>0, <2>2 DEF ConfigSafe, ConfigWhole
  <2> QED BY <2>4, <2>5, <2>6, <2>7 DEF OnboardInv
<1>9. ASSUME NEW p \in Processes, FillNewFile(p) PROVE OnboardInv'
  <2>1. /\ File(p) \in FilesLaid /\ File(p) \notin {Config, Tmp}
        /\ program[p].at <= Len(Layout(p))
    BY <1>0, <1>9, LayoutAssumption DEF FillNewFile, LaysOut
  <2>2. /\ content' \in [Paths -> {"absent", "torn", "default", "user"}]
        /\ durable' \subseteq Paths /\ UNCHANGED <<replaced, outages>>
        /\ content'[Config] = content[Config] /\ (Config \in durable => Config \in durable')
        /\ content'[Tmp] = content[Tmp] /\ (Tmp \in durable => Tmp \in durable')
    BY <1>0, <1>9, <2>1 DEF FillNewFile, Writes, OnboardTypeOK
  <2>3. /\ program' \in [Processes -> [phase : Phases, at : Nat \ {0}]]
        /\ \A q \in Processes : program'[q].at <= Len(Layout(q)) + 1
        /\ \A q \in Processes \ {p} : program'[q] = program[q]
        /\ program'[p].phase \in {"stat", "failed"}
    <3>1. CASE Fails(p)
      BY <1>0, <3>1, Moves DEF Fails, OnboardTypeOK, Phases
    <3>2. CASE program' = [program EXCEPT ![p] = [phase |-> "stat", at |-> @.at + 1]]
      <4>1. program[p].at <= Len(Layout(p)) /\ program[p].at \in Nat \ {0}
        BY <1>0, <1>9 DEF FillNewFile, LaysOut, OnboardTypeOK
      <4> QED BY <1>0, <3>2, <4>1, LayoutLength DEF OnboardTypeOK, Phases
    <3> QED BY <1>9, <3>1, <3>2 DEF FillNewFile
  <2>4. OnboardTypeOK'
    BY <1>0, <2>2, <2>3 DEF OnboardTypeOK, Phases
  <2>5. OneOnboard' /\ TmpReady'
    BY <1>0, <1>9, <2>2, <2>3 DEF FillNewFile, OneOnboard, TmpReady, Running
  <2>6. LaysOut'
    BY <1>0, <2>1, <2>3 DEF LaysOut, File
  <2>7. ConfigSafe'
    BY <1>0, <2>2 DEF ConfigSafe, ConfigWhole
  <2> QED BY <2>4, <2>5, <2>6, <2>7 DEF OnboardInv
<1>10. ASSUME NEW p \in Processes, Dies(p) PROVE OnboardInv'
  <2>1. \E ph \in Phases : ProgramGoes(p, ph)
    BY <1>10 DEF Dies, Phases
  <2>2. OnboardTypeOK'
    <3>1. content' \in [Paths -> Contents] /\ durable' \subseteq Paths
      BY <1>0, <1>10 DEF Dies, OnboardTypeOK, Contents
    <3>2. replaced' \in Contents \cup {"none"} /\ outages' = outages
      BY <1>0, <1>10 DEF Dies, OnboardTypeOK, Contents
    <3> QED BY <1>0, <2>1, <3>1, <3>2, TypesMove
  <2>3. OneOnboard'
    BY <1>0, <1>10, <2>1, Moves DEF Dies, OneOnboard, Running, ProgramGoes, OnboardTypeOK
  <2>4. TmpReady'
    BY <1>0, <1>10, <2>1, Moves DEF Dies, TmpReady, OneOnboard, Running, ProgramGoes, OnboardTypeOK
  <2>5. LaysOut'
    BY <1>0, <1>10, <2>1, Moves DEF Dies, LaysOut, File, ProgramGoes, OnboardTypeOK
  <2>6. ConfigSafe'
    BY <1>0, <1>10 DEF Dies, ConfigSafe, ConfigWhole, TmpReady, OnboardTypeOK
  <2> QED BY <2>2, <2>3, <2>4, <2>5, <2>6 DEF OnboardInv
<1>11. CASE PowerFails
  <2>1. PICK lost \in SUBSET {f \in Paths \ durable : content[f] # "absent"},
             undone \in {FALSE} \cup {replaced # "none"} :
          content' = [f \in Paths |-> IF undone /\ f = Config THEN replaced
                                     ELSE IF f \in lost THEN "torn" ELSE content[f]]
    BY <1>11 DEF PowerFails
  <2>2. /\ durable' = Paths /\ replaced' = "none" /\ outages < MaxOutages
        /\ outages' = outages + 1
        /\ program' = [p \in Processes |-> IF Running(p)
                         THEN [program[p] EXCEPT !.phase = "dead"] ELSE program[p]]
    BY <1>11 DEF PowerFails
  <2>3. /\ program' \in [Processes -> [phase : Phases, at : Nat \ {0}]]
        /\ \A p \in Processes : program'[p].phase \in {"off", "done", "failed", "dead"}
        /\ \A p \in Processes : program'[p].at = program[p].at
    BY <1>0, <2>2 DEF OnboardTypeOK, Running, Phases
  <2>4. undone => replaced \in {"absent", "default", "user"}
    BY <1>0 DEF ConfigSafe, OnboardTypeOK
  <2>5. /\ content' \in [Paths -> {"absent", "torn", "default", "user"}]
        /\ content'[Config] # "torn"
    BY <1>0, <2>1, <2>4 DEF ConfigSafe, ConfigWhole, OnboardTypeOK
  <2>6. OnboardTypeOK'
    BY <1>0, <2>2, <2>3, <2>5, LayoutAssumption DEF OnboardTypeOK, Phases
  <2> QED
    BY <2>2, <2>3, <2>5, <2>6
       DEF OnboardInv, OneOnboard, TmpReady, LaysOut, ConfigSafe, ConfigWhole, Running
<1>12. ASSUME NEW f \in Paths, UserEdits(f) PROVE OnboardInv'
  <2>1. OnboardTypeOK' /\ ConfigSafe'
    BY <1>0, <1>12 DEF UserEdits, OnboardTypeOK, ConfigSafe, ConfigWhole
  <2>2. content'[Tmp] = content[Tmp] /\ (Tmp \in durable => Tmp \in durable')
    BY <1>0, <1>12 DEF UserEdits, OnboardTypeOK
  <2>3. UNCHANGED program
    BY <1>12 DEF UserEdits
  <2>4. OneOnboard' /\ TmpReady' /\ LaysOut'
    BY <1>0, <2>2, <2>3 DEF OneOnboard, TmpReady, LaysOut, Running, File
  <2> QED BY <2>1, <2>4 DEF OnboardInv
<1>13. CASE UNCHANGED onboardVars
  BY <1>0, <1>13
     DEF onboardVars, OnboardInv, OnboardTypeOK, OneOnboard, TmpReady, LaysOut, ConfigSafe,
         ConfigWhole, Running, File
<1> QED
  BY <1>1, <1>2, <1>3, <1>4, <1>5, <1>6, <1>7, <1>8, <1>9, <1>10, <1>11, <1>12, <1>13
     DEF OnboardNext

\* The configuration of config/loader.go stays whole whatever is killed, fails or loses power
\* between two of the steps of Save, and whoever else starts or edits meanwhile.
THEOREM ConfigStaysWhole == OnboardSpec => []ConfigWhole
<1>1. OnboardInit => OnboardInv
  BY OnboardingInit
<1>2. OnboardInv /\ [OnboardNext]_onboardVars => OnboardInv'
  BY OnboardingStep
<1>3. OnboardInv => ConfigWhole
  BY DEF OnboardInv, ConfigSafe
<1> QED BY <1>1, <1>2, <1>3, PTL DEF OnboardSpec

\* The files of a start keep their types.
THEOREM OnboardingTypes == OnboardSpec => []OnboardTypeOK
<1>1. OnboardInit => OnboardInv
  BY OnboardingInit
<1>2. OnboardInv /\ [OnboardNext]_onboardVars => OnboardInv'
  BY OnboardingStep
<1>3. OnboardInv => OnboardTypeOK
  BY DEF OnboardInv
<1> QED BY <1>1, <1>2, <1>3, PTL DEF OnboardSpec
=============================================================================
