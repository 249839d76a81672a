---------------------------- MODULE SourcesProofs ----------------------------
(***************************************************************************)
(* Proofs about the sources and channels: the runs of a cron job, the      *)
(* events and replies of Feishu, and the broadcasts of the websocket.      *)
(***************************************************************************)
EXTENDS Cron, FeishuChannel, WebSocketChannel, SequenceTheorems, TLAPS

-----------------------------------------------------------------------------
(* Cron                                                                     *)

\* A job as the map and the file hold it: an "at" is never due before its time.
GoodJob(job) ==
    /\ job.schedule \in Schedules /\ job.next \in Int
    /\ job.schedule.kind = "at" => job.schedule.arg <= job.next
GoodJobs(m) == \A j \in DOMAIN m : GoodJob(m[j])

\* The ids that are in use, and that a restart begins with no runs.
IdsOK ==
    /\ DOMAIN cronJobs \subseteq added /\ DOMAIN jobFile \subseteq added
    /\ added \subseteq Jobs /\ firing \subseteq Jobs
    /\ removed \subseteq added /\ removed \cap DOMAIN cronJobs = {}
    /\ cronUp \in BOOLEAN
    /\ \A j \in Jobs : fired[j] # {} => cronUp /\ j \in added

\* The next run of a job is its interval after every run that it had.
NextIsLater ==
    \A j \in DOMAIN cronJobs : \A a \in fired[j] :
        a + Spacing(cronJobs[j].schedule) <= cronJobs[j].next

CronInv ==
    /\ clock \in Nat
    /\ GoodJobs(cronJobs) /\ GoodJobs(jobFile)
    /\ DOMAIN fired = Jobs /\ \A j \in Jobs : fired[j] \subseteq 0 .. clock
    /\ IdsOK
    /\ NextIsLater
    /\ RunsAreSpaced

\* nextRun: an interval from now at least.
LEMMA NextRunFacts ==
    ASSUME clock \in Nat, NEW s \in Schedules
    PROVE  /\ NextRun(s) \in Int /\ Spacing(s) \in Int
           /\ s.kind = "at" => s.arg <= NextRun(s)
           /\ (s.kind = "at" => s.arg <= clock) => NextRun(s) = clock + Spacing(s)
<1> USE CronAssumption DEF NextRun, Spacing
<1>1. CASE s \in [kind : {"every"}, arg : Intervals]
  BY <1>1
<1>2. CASE s \in [kind : {"cron"}, arg : {0}]
  BY <1>2
<1>3. CASE s \in [kind : {"at"}, arg : 0 .. MaxClock]
  BY <1>3
<1> QED BY <1>1, <1>2, <1>3 DEF Schedules

\* The steps that leave the jobs and their runs alone.
LEMMA CronQuiet ==
    ASSUME CronInv, UNCHANGED <<clock, cronJobs, jobFile, cronUp, added, removed, fired>>,
           firing' \subseteq firing
    PROVE  CronInv'
  BY DEF CronInv, GoodJobs, GoodJob, IdsOK, NextIsLater, RunsAreSpaced, Schedules

\* Every step keeps CronInv.
LEMMA CronKeeps ==
    ASSUME CronInv, [CronNext]_cronVars
    PROVE  CronInv'
<1> USE CronAssumption DEF CronInv, IdsOK
<1>1. ASSUME NEW j \in Jobs, NEW s \in Schedules, AddJob(j, s) PROVE CronInv'
  <2>0. /\ cronUp /\ j \notin added /\ added' = added \cup {j}
        /\ cronJobs' = With(cronJobs, j, [schedule |-> s, next |-> NextRun(s)])
        /\ UNCHANGED <<clock, firing, jobFile, cronUp, removed, fired, late>>
    BY <1>1 DEF AddJob
  <2>1. DOMAIN cronJobs' = DOMAIN cronJobs \cup {j}
    BY <2>0 DEF With
  <2>2. \A i \in DOMAIN cronJobs' : i # j => i \in DOMAIN cronJobs /\ cronJobs'[i] = cronJobs[i]
    BY <2>0 DEF With
  <2>3. cronJobs'[j] = [schedule |-> s, next |-> NextRun(s)] /\ fired[j] = {} /\ fired' = fired
    BY <2>0 DEF With
  <2>4. GoodJob(cronJobs'[j])
    BY <2>3, NextRunFacts DEF GoodJob
  <2>5. GoodJobs(cronJobs') /\ GoodJobs(jobFile')
    BY <2>0, <2>2, <2>4 DEF GoodJobs
  <2>6. IdsOK'
    BY <2>0, <2>1
  <2>7. NextIsLater' /\ RunsAreSpaced'
    BY <2>2, <2>3 DEF NextIsLater, RunsAreSpaced
  <2> QED BY <2>0, <2>5, <2>6, <2>7
<1>2. ASSUME NEW j \in Jobs, RemoveJob(j) PROVE CronInv'
  <2>0. /\ cronUp /\ j \in DOMAIN cronJobs /\ removed' = removed \cup {j}
        /\ cronJobs' = Without(cronJobs, j)
        /\ UNCHANGED <<clock, firing, jobFile, cronUp, added, fired>>
    BY <1>2 DEF RemoveJob
  <2>1. DOMAIN cronJobs' = DOMAIN cronJobs \ {j}
    BY <2>0 DEF Without
  <2>2. \A i \in DOMAIN cronJobs' : cronJobs'[i] = cronJobs[i]
    BY <2>0 DEF Without
  <2>3. GoodJobs(cronJobs') /\ GoodJobs(jobFile')
    BY <2>0, <2>1, <2>2 DEF GoodJobs
  <2>4. IdsOK'
    BY <2>0, <2>1
  <2>5. NextIsLater' /\ RunsAreSpaced'
    BY <2>0, <2>1, <2>2 DEF NextIsLater, RunsAreSpaced
  <2> QED BY <2>0, <2>3, <2>4, <2>5
<1>3. ASSUME CollectDue PROVE CronInv'
  <2>0. /\ cronUp /\ firing' = Due
        /\ cronJobs' = [j \in DOMAIN cronJobs |->
               IF j \in Due THEN [cronJobs[j] EXCEPT !.next = NextRun(cronJobs[j].schedule)]
               ELSE cronJobs[j]]
        /\ fired' = [j \in Jobs |-> IF j \in Due THEN fired[j] \cup {clock} ELSE fired[j]]
        /\ UNCHANGED <<clock, jobFile, cronUp, added, removed, late>>
    BY <1>3 DEF CollectDue
  <2>1. Due \subseteq DOMAIN cronJobs /\ DOMAIN cronJobs' = DOMAIN cronJobs
    BY <2>0 DEF Due
  <2>2. ASSUME NEW j \in DOMAIN cronJobs
        PROVE  /\ cronJobs'[j].schedule = cronJobs[j].schedule /\ GoodJob(cronJobs'[j])
               /\ \A a \in fired'[j] :
                     a + Spacing(cronJobs'[j].schedule) <= cronJobs'[j].next
               /\ \A a, b \in fired'[j] :
                     a < b => b - a > Spacing(cronJobs'[j].schedule)
    <3> DEFINE s == cronJobs[j].schedule
    <3>1. GoodJob(cronJobs[j]) /\ s \in Schedules /\ cronJobs[j].next \in Int /\ j \in Jobs
      BY DEF GoodJobs, GoodJob
    <3>2. CASE j \in Due
      <4>1. cronJobs'[j] = [cronJobs[j] EXCEPT !.next = NextRun(s)]
        BY <2>0, <3>2
      <4>2. clock > cronJobs[j].next
        BY <3>2 DEF Due
      <4>3. s.kind = "at" => s.arg <= clock
        BY <3>1, <4>2 DEF GoodJob, Schedules
      <4>4. NextRun(s) = clock + Spacing(s) /\ NextRun(s) \in Int /\ Spacing(s) \in Int
        BY <3>1, <4>3, NextRunFacts
      <4>5. fired'[j] = fired[j] \cup {clock}
        BY <2>0, <3>1, <3>2
      <4>6. \A a \in fired[j] : a \in Nat /\ a <= clock /\ a + Spacing(s) <= cronJobs[j].next
        BY <3>1 DEF NextIsLater
      <4>7. cronJobs'[j].schedule = s /\ cronJobs'[j].next = NextRun(s)
        BY <4>1, <3>1 DEF GoodJob
      <4> QED BY <3>1, <4>1, <4>4, <4>5, <4>6, <4>7, <4>2, NextRunFacts DEF GoodJob, RunsAreSpaced
    <3>3. CASE j \notin Due
      BY <2>0, <3>1, <3>3 DEF NextIsLater, RunsAreSpaced
    <3> QED BY <3>2, <3>3
  <2>3. GoodJobs(cronJobs') /\ GoodJobs(jobFile') /\ NextIsLater' /\ RunsAreSpaced'
    BY <2>0, <2>1, <2>2 DEF GoodJobs, NextIsLater, RunsAreSpaced
  <2>4. IdsOK'
    BY <2>0, <2>1
  <2>5. \A j \in Jobs : fired'[j] \subseteq 0 .. clock'
    BY <2>0
  <2> QED BY <2>0, <2>3, <2>4, <2>5
<1>4. ASSUME NEW j \in Jobs, Fire(j) PROVE CronInv'
  BY <1>4, CronQuiet DEF Fire
<1>5. ASSUME Save PROVE CronInv'
  <2>1. jobFile' = cronJobs /\ UNCHANGED <<clock, cronJobs, firing, cronUp, added, removed, fired>>
    BY <1>5 DEF Save
  <2>2. GoodJobs(cronJobs') /\ GoodJobs(jobFile') /\ NextIsLater' /\ RunsAreSpaced'
    BY <2>1 DEF NextIsLater, RunsAreSpaced
  <2> QED BY <2>1, <2>2
<1>6. ASSUME Dies PROVE CronInv'
  <2>1. /\ cronJobs' = NoJobs /\ firing' = {} /\ fired' = [j \in Jobs |-> {}]
        /\ jobFile' \in {jobFile, NoJobs} /\ UNCHANGED <<clock, added, removed>> /\ cronUp' = FALSE
    BY <1>6 DEF Dies
  <2>2. DOMAIN NoJobs = {} /\ GoodJobs(NoJobs)
    BY DEF NoJobs, GoodJobs
  <2>3. GoodJobs(cronJobs') /\ GoodJobs(jobFile') /\ NextIsLater' /\ RunsAreSpaced'
    BY <2>1, <2>2 DEF NextIsLater, RunsAreSpaced
  <2> QED BY <2>1, <2>2, <2>3
<1>7. ASSUME Load PROVE CronInv'
  <2>1. /\ cronUp' = TRUE /\ removed' = removed \ DOMAIN jobFile /\ ~cronUp
        /\ cronJobs' = [j \in DOMAIN cronJobs \cup DOMAIN jobFile |->
                          IF j \in DOMAIN jobFile THEN jobFile[j] ELSE cronJobs[j]]
        /\ UNCHANGED <<clock, firing, jobFile, added, fired, late>>
    BY <1>7 DEF Load
  <2>2. \A j \in Jobs : fired[j] = {}
    BY <2>1
  <2>3. GoodJobs(cronJobs') /\ GoodJobs(jobFile') /\ DOMAIN cronJobs' \subseteq Jobs
    BY <2>1 DEF GoodJobs
  <2>4. NextIsLater' /\ RunsAreSpaced'
    BY <2>1, <2>2, <2>3 DEF NextIsLater, RunsAreSpaced
  <2> QED BY <2>1, <2>2, <2>3, <2>4
<1>8. ASSUME TimePasses PROVE CronInv'
  <2>1. clock' = clock + 1 /\ UNCHANGED <<cronJobs, firing, jobFile, cronUp, added, removed, fired>>
    BY <1>8 DEF TimePasses
  <2>2. GoodJobs(cronJobs') /\ GoodJobs(jobFile') /\ NextIsLater' /\ RunsAreSpaced'
    BY <2>1 DEF NextIsLater, RunsAreSpaced
  <2>3. \A j \in Jobs : fired'[j] \subseteq 0 .. clock'
    BY <2>1
  <2> QED BY <2>1, <2>2, <2>3
<1>9. CASE UNCHANGED cronVars
  BY <1>9, CronQuiet DEF cronVars
<1> QED BY <1>1, <1>2, <1>3, <1>4, <1>5, <1>6, <1>7, <1>8, <1>9 DEF CronNext

\* CronInv holds always.
LEMMA CronInvariant == CronSpec => []CronInv
<1>1. CronInit => CronInv
  BY CronAssumption DEF CronInit, CronInv, NoJobs, GoodJobs, IdsOK, NextIsLater, RunsAreSpaced
<1> QED BY <1>1, CronKeeps, PTL DEF CronSpec

\* Whatever jobs are added, removed, saved and loaded, and however late the ticker is, the
\* runs of a job in one life of the process are more than its interval apart.
THEOREM JobsDoNotBurst == CronSpec => []RunsAreSpaced
<1>1. CronInv => RunsAreSpaced
  BY DEF CronInv
<1> QED BY <1>1, CronInvariant, PTL

\* A job that was removed while it was being fired has not fired since.
LateOK ==
    /\ DOMAIN late = Jobs
    /\ \A j \in Jobs : late[j] \in 0 .. 1 /\ (j \in removed \cap firing => late[j] = 0)

\* Every step keeps LateOK.
LEMMA LateKeeps ==
    ASSUME CronInv, LateOK, [CronNext]_cronVars
    PROVE  LateOK'
<1> USE DEF LateOK
<1>0. IdsOK
  BY DEF CronInv
<1>1. ASSUME NEW j \in Jobs, RemoveJob(j) PROVE LateOK'
  BY <1>1 DEF RemoveJob
<1>2. ASSUME NEW j \in Jobs, Fire(j) PROVE LateOK'
  BY <1>2 DEF Fire
<1>3. ASSUME CollectDue PROVE LateOK'
  BY <1>0, <1>3 DEF CollectDue, Due, IdsOK
<1>4. ASSUME Load PROVE LateOK'
  BY <1>4 DEF Load
<1>5. ASSUME Dies PROVE LateOK'
  BY <1>5 DEF Dies
<1>6. CASE \/ \E j \in Jobs : \E s \in Schedules : AddJob(j, s)
           \/ Save \/ TimePasses \/ UNCHANGED cronVars
  BY <1>6 DEF AddJob, Save, TimePasses, cronVars
<1> QED BY <1>1, <1>2, <1>3, <1>4, <1>5, <1>6 DEF CronNext

\* A job that was removed fires at most once more, from the tick in progress.
THEOREM RemovedIsGone == CronSpec => []RemovedFiresAtMostOnce
<1>1. CronInit => LateOK
  BY DEF CronInit, LateOK
<1>2. LateOK => RemovedFiresAtMostOnce
  BY DEF LateOK, RemovedFiresAtMostOnce
<1> QED BY <1>1, <1>2, LateKeeps, CronInvariant, PTL DEF CronSpec

-----------------------------------------------------------------------------
(* Feishu: events                                                           *)

\* An event that was not seen is nowhere; one that was is in one place at most.
IntakeOK ==
    /\ handling \in [Ids -> Nat] /\ published \in [Ids -> Nat]
    /\ \A e \in Ids : e \notin seen => handling[e] = 0 /\ published[e] = 0
    /\ PublishedOnce

\* Every step keeps IntakeOK.
LEMMA IntakeKeeps ==
    ASSUME IntakeOK, [FeishuNext]_feishuVars
    PROVE  IntakeOK'
<1> USE DEF IntakeOK, PublishedOnce
<1>1. ASSUME NEW e \in Ids, Receive(e) PROVE IntakeOK'
  <2>1. /\ e \notin seen /\ seen' = seen \cup {e} /\ published' = published
        /\ \/ handling' = [handling EXCEPT ![e] = @ + 1]
           \/ handling' = [handling EXCEPT ![e] = @]
    BY <1>1 DEF Receive
  <2> QED BY <2>1
<1>2. ASSUME NEW e \in Ids, PublishEvent(e) PROVE IntakeOK'
  <2>1. /\ handling[e] > 0 /\ handling' = [handling EXCEPT ![e] = @ - 1] /\ seen' = seen
        /\ published' \in {published, [published EXCEPT ![e] = @ + 1]}
    BY <1>2 DEF PublishEvent
  <2> QED BY <2>1
<1>3. CASE UNCHANGED intakeVars
  BY <1>3 DEF intakeVars
<1>4. ASSUME NEW k \in Stoppers, StopBegins(k) \/ StopEnds(k) PROVE UNCHANGED intakeVars
  BY <1>4 DEF StopBegins, StopEnds
<1>5. ASSUME NEW g \in Starts,
             SocketBegins(g) \/ SocketEnds(g) \/ TakeOutbound(g) \/ ConsumerReturns(g)
             \/ ReplyFirst(g) \/ CreateFirst(g) \/ SendNext(g)
      PROVE  UNCHANGED intakeVars
  BY <1>5 DEF SocketBegins, SocketEnds, TakeOutbound, ConsumerReturns, ReplyFirst, CreateFirst,
     SendNext
<1>6. CASE Start \/ RootEnds \/ UNCHANGED feishuVars
  BY <1>3, <1>6 DEF Start, RootEnds, feishuVars
<1> QED BY <1>1, <1>2, <1>3, <1>4, <1>5, <1>6 DEF FeishuNext, FeishuStep

\* Any number of Starts, Stops and deliveries of an event, overlapping as they may, publish
\* it once at most.
THEOREM EventsPublishedOnce == FeishuSpec => []PublishedOnce
<1>1. FeishuInit => IntakeOK
  BY DEF FeishuInit, IntakeOK, PublishedOnce
<1>2. IntakeOK => PublishedOnce
  BY DEF IntakeOK
<1> QED BY <1>1, <1>2, IntakeKeeps, PTL DEF FeishuSpec

-----------------------------------------------------------------------------
(* Feishu: Start and Stop                                                   *)

\* What the goroutines of Start and the callers of Stop may be.
SocketPhases == {"none", "starting", "serving", "over"}
StopPhases == {"idle", "waiting", "returned", "gave up"}
LifeTypes ==
    /\ socket \in [Starts -> [phase : SocketPhases, closes : 0 .. 1]]
    /\ stopper \in [Stoppers -> [phase : StopPhases, of : 0 .. 1]]

\* With one Start the two fields are set and cleared together, the channel is closed when
\* its goroutine ends, and a Stop waits for it.
LifeOK ==
    /\ starts \in 0 .. 1 /\ stopWS \in 0 .. starts /\ wsDone = stopWS
    /\ starts = 0 => socket[1].phase = "none"
    /\ closed \subseteq {1} /\ (closed # {} => socket[1].phase = "over")
    /\ \A k \in Stoppers :
         /\ stopper[k].phase = "waiting" => stopper[k].of = 1
         /\ stopper[k].phase = "returned" => stopper[k].of = 1 /\ closed # {}

\* What an assignment to the phase of a goroutine does.
LEMMA SetSocket ==
    ASSUME NEW S, NEW P, NEW C, NEW f \in [S -> [phase : P, closes : C]], NEW g \in S, NEW p \in P
    PROVE  /\ [f EXCEPT ![g].phase = p] \in [S -> [phase : P, closes : C]]
           /\ [f EXCEPT ![g].phase = p][g] = [phase |-> p, closes |-> f[g].closes]
           /\ \A h \in S \ {g} : [f EXCEPT ![g].phase = p][h] = f[h]
  OBVIOUS

\* Every step keeps LifeTypes and LifeOK.
LEMMA LifeKeeps ==
    ASSUME MaxStarts = 1, LifeTypes, LifeOK, [FeishuNext]_feishuVars
    PROVE  LifeTypes' /\ LifeOK'
<1>0. /\ Starts = {1} /\ None = 0 /\ socket[1].closes \in 0 .. 1
      /\ starts \in 0 .. 1 /\ stopWS \in 0 .. starts /\ wsDone = stopWS
  BY MaxStarts = 1 DEF Starts, None, LifeOK, LifeTypes
<1>1. CASE Start
  <2>1. starts = 0 /\ starts' = 1 /\ stopWS' = 1 /\ wsDone' = 1 /\ UNCHANGED <<closed, stopper>>
    BY <1>0, <1>1, MaxStarts = 1 DEF Start
  <2>2. socket' = [socket EXCEPT ![1].phase = "starting"]
    BY <1>1, <2>1 DEF Start
  <2>3. LifeTypes'
    BY <1>0, <2>1, <2>2, SetSocket DEF LifeTypes, SocketPhases
  <2>4. closed = {}
    BY <2>1 DEF LifeOK
  <2> QED BY <2>1, <2>3, <2>4 DEF LifeOK
<1>2. ASSUME NEW g \in Starts, SocketBegins(g) PROVE LifeTypes' /\ LifeOK'
  <2>1. /\ socket[1].phase = "starting" /\ UNCHANGED <<starts, stopWS, wsDone, closed, stopper>>
        /\ socket' = [socket EXCEPT ![1] = [phase |-> "serving", closes |-> wsDone]]
    BY <1>0, <1>2 DEF SocketBegins
  <2>2. LifeTypes'
    BY <1>0, <2>1 DEF LifeTypes, SocketPhases
  <2>3. starts = 1 /\ closed = {}
    BY <1>0, <2>1 DEF LifeOK
  <2> QED BY <2>1, <2>2, <2>3 DEF LifeOK
<1>3. ASSUME NEW g \in Starts, SocketEnds(g) PROVE LifeTypes' /\ LifeOK'
  <2>1. /\ socket[1].phase = "serving" /\ UNCHANGED <<starts, stopWS, wsDone, stopper>>
        /\ socket' = [socket EXCEPT ![1].phase = "over"]
        /\ closed' = closed \cup ({socket[1].closes} \ {None})
    BY <1>0, <1>3 DEF SocketEnds
  <2>2. LifeTypes' /\ socket'[1].phase = "over"
    BY <1>0, <2>1, SetSocket DEF LifeTypes, SocketPhases
  <2>3. starts = 1 /\ closed = {}
    BY <1>0, <2>1 DEF LifeOK
  <2>4. closed' \subseteq {1}
    BY <1>0, <2>1, <2>3
  <2> QED BY <2>1, <2>2, <2>3, <2>4 DEF LifeOK
<1>4. ASSUME NEW k \in Stoppers, StopBegins(k) PROVE LifeTypes' /\ LifeOK'
  <2>1. /\ stopWS # 0 /\ stopWS' = 0 /\ wsDone' = 0 /\ UNCHANGED <<starts, socket, closed>>
        /\ stopper' = [stopper EXCEPT ![k] = [phase |-> "waiting", of |-> wsDone]]
    BY <1>0, <1>4 DEF StopBegins
  <2>2. wsDone = 1
    BY <1>0, <2>1
  <2>3. stopper'[k] = [phase |-> "waiting", of |-> 1]
        /\ \A i \in Stoppers \ {k} : stopper'[i] = stopper[i]
    BY <2>1, <2>2 DEF LifeTypes
  <2>4. [phase |-> "waiting", of |-> 1] \in [phase : StopPhases, of : 0 .. 1]
    BY DEF StopPhases
  <2>5. LifeTypes'
    BY <2>1, <2>2, <2>4 DEF LifeTypes
  <2> QED BY <1>0, <2>1, <2>3, <2>5 DEF LifeOK
<1>5. ASSUME NEW k \in Stoppers, StopEnds(k) PROVE LifeTypes' /\ LifeOK'
  <2>1. /\ stopper[k].phase = "waiting" /\ UNCHANGED <<starts, stopWS, wsDone, socket, closed>>
    BY <1>5 DEF StopEnds
  <2>2. PICK p \in {"returned", "gave up"} :
           /\ stopper' = [stopper EXCEPT ![k].phase = p]
           /\ p = "returned" => stopper[k].of \in closed
    BY <1>5 DEF StopEnds
  <2>3. /\ stopper \in [Stoppers -> [phase : StopPhases, of : 0 .. 1]] /\ p \in StopPhases
        /\ stopper' = [stopper EXCEPT ![k].phase = p]
    BY <2>2 DEF LifeTypes, StopPhases
  <2>4. stopper' \in [Stoppers -> [phase : StopPhases, of : 0 .. 1]]
    BY <2>3
  <2>5. /\ stopper'[k].phase = p /\ stopper'[k].of = stopper[k].of
        /\ \A i \in Stoppers \ {k} : stopper'[i] = stopper[i]
    BY <2>3
  <2>6. stopper[k].of = 1 /\ (p = "returned" => closed # {}) /\ p # "waiting"
    BY <2>1, <2>2 DEF LifeOK
  <2>7. LifeTypes'
    BY <2>1, <2>4 DEF LifeTypes
  <2> QED BY <2>1, <2>5, <2>6, <2>7 DEF LifeOK
<1>6. CASE UNCHANGED <<starts, stopWS, wsDone, socket, closed, stopper>>
  BY <1>6 DEF LifeTypes, LifeOK
<1>7. ASSUME NEW e \in Ids, Receive(e) \/ PublishEvent(e) PROVE LifeTypes' /\ LifeOK'
  BY <1>6, <1>7 DEF Receive, PublishEvent, lifeVars
<1>8. ASSUME NEW g \in Starts, TakeOutbound(g) \/ ConsumerReturns(g) \/ ReplyFirst(g)
                               \/ CreateFirst(g) \/ SendNext(g)
      PROVE  LifeTypes' /\ LifeOK'
  <2>1. UNCHANGED lifeVars
    BY <1>8 DEF TakeOutbound, ConsumerReturns, ReplyFirst, CreateFirst, SendNext
  <2> QED BY <1>6, <2>1 DEF lifeVars
<1>9. CASE RootEnds \/ UNCHANGED feishuVars
  BY <1>6, <1>9 DEF RootEnds, feishuVars, lifeVars
<1> QED BY <1>1, <1>2, <1>3, <1>4, <1>5, <1>7, <1>8, <1>9 DEF FeishuNext, FeishuStep

\* When Stop returns without an error, the websocket goroutine is over, however many
\* goroutines stop the channel and whenever the connection ends: with one Start.
THEOREM StopWaitsForSocket ==
    ASSUME MaxStarts = 1
    PROVE  FeishuSpec => []StopWaits
<1>1. FeishuInit => LifeTypes /\ LifeOK
  BY MaxStarts = 1 DEF FeishuInit, LifeTypes, LifeOK, Starts, None, SocketPhases, StopPhases
<1>2. LifeTypes /\ LifeOK /\ [FeishuNext]_feishuVars => LifeTypes' /\ LifeOK'
  BY LifeKeeps
<1>3. LifeOK => StopWaits
  BY DEF LifeOK, StopWaits
<1> QED BY <1>1, <1>2, <1>3, PTL DEF FeishuSpec

-----------------------------------------------------------------------------
(* Feishu: replies                                                          *)

\* The chat ends with chunk n of message m.
EndsWith(m, n) == chat # <<>> /\ chat[Len(chat)] = <<m, n>>

\* The consumer of the one Start.
SendPhases == {"none", "idle", "reply", "first", "rest", "new", "over"}
SendTypes ==
    /\ consumer \in [Starts -> [phase : SendPhases, msg : Nat, next : Nat]]
    /\ taken \in Nat /\ chat \in Seq(Nat \X Nat)

\* A chunk after the first one follows that before it, which is the last thing in the chat
\* when the consumer comes to send it.
Continues ==
    consumer[1].phase \in {"rest", "new"} =>
        /\ consumer[1].next > 0
        /\ consumer[1].next > 1 => EndsWith(consumer[1].msg, consumer[1].next - 1)

SendOK == SendTypes /\ Continues /\ ChunksAreContiguous

\* One more chunk, in its place, keeps the chunks contiguous.
LEMMA ShownFacts ==
    ASSUME chat \in Seq(Nat \X Nat), ChunksAreContiguous, NEW m \in Nat, NEW i \in Nat, i > 0,
           i > 1 => EndsWith(m, i - 1), chat' = Append(chat, <<m, i>>)
    PROVE  /\ chat' \in Seq(Nat \X Nat) /\ ChunksAreContiguous'
           /\ chat' # <<>> /\ chat'[Len(chat')] = <<m, i>>
<1>1. /\ Len(chat) \in Nat /\ Len(chat') = Len(chat) + 1 /\ chat'[Len(chat) + 1] = <<m, i>>
      /\ \A k \in 1 .. Len(chat) : chat'[k] = chat[k]
      /\ chat' \in Seq(Nat \X Nat) /\ chat' # <<>>
  OBVIOUS
<1>2. i > 1 => Len(chat) > 0 /\ chat[Len(chat)] = <<m, i - 1>>
  BY DEF EndsWith
<1>3. ASSUME NEW k \in 1 .. Len(chat'), chat'[k][2] > 1
      PROVE  k > 1 /\ chat'[k - 1] = <<chat'[k][1], chat'[k][2] - 1>>
  <2>1. CASE k = Len(chat) + 1
    <3>1. chat'[k] = <<m, i>> /\ i > 1
      BY <1>1, <1>3, <2>1
    <3>2. chat'[k - 1] = <<m, i - 1>> /\ k > 1
      BY <1>1, <1>2, <2>1, <3>1
    <3>3. chat'[k][1] = m /\ chat'[k][2] = i
      BY <3>1, SMTT(40)
    <3> QED BY <3>2, <3>3
  <2>2. CASE k \in 1 .. Len(chat)
    <3>1. chat'[k] = chat[k] /\ (k > 1 => chat'[k - 1] = chat[k - 1])
      BY <1>1, <2>2
    <3>2. chat[k][2] > 1 => k > 1 /\ chat[k - 1] = <<chat[k][1], chat[k][2] - 1>>
      BY <2>2 DEF ChunksAreContiguous
    <3>3. chat[k][2] > 1
      BY <1>3, <3>1
    <3>4. k > 1 /\ chat[k - 1] = <<chat[k][1], chat[k][2] - 1>>
      BY <3>2, <3>3
    <3> QED BY <3>1, <3>4
  <2>3. k = Len(chat) + 1 \/ k \in 1 .. Len(chat)
    <3>1. Len(chat) \in Nat /\ Len(chat') = Len(chat) + 1 /\ k \in 1 .. Len(chat')
      BY <1>1
    <3> QED BY <3>1
  <2> QED BY <2>1, <2>2, <2>3
<1> QED BY <1>1, <1>3 DEF ChunksAreContiguous

\* What an assignment to the phase of the consumer does.
LEMMA SetPhase ==
    ASSUME NEW S, NEW f \in [S -> [phase : SendPhases, msg : Nat, next : Nat]], NEW g \in S,
           NEW p \in SendPhases
    PROVE  /\ [f EXCEPT ![g].phase = p] \in [S -> [phase : SendPhases, msg : Nat, next : Nat]]
           /\ [f EXCEPT ![g].phase = p][g].phase = p
  OBVIOUS

\* A chunk is shown, or the request that failed was not carried out, and the consumer goes on.
LEMMA Goes ==
    ASSUME MaxStarts = 1, SendOK, NEW p \in SendPhases, NEW n \in Nat, Becomes(1, p, n),
           NEW i \in Nat, i > 0, i > 1 => EndsWith(consumer[1].msg, i - 1),
           taken' = taken,
           \/ Failed(1, i) /\ (p \in {"rest", "new"} => n = 1)
           \/ Shown(1, i) /\ (p \in {"rest", "new"} => n = i + 1)
    PROVE  SendOK'
<1>1. Starts = {1} /\ consumer[1].msg \in Nat /\ taken \in Nat /\ chat \in Seq(Nat \X Nat)
      /\ consumer \in [Starts -> [phase : SendPhases, msg : Nat, next : Nat]]
      /\ ChunksAreContiguous
  BY MaxStarts = 1 DEF Starts, SendOK, SendTypes
<1>2. /\ consumer' \in [Starts -> [phase : SendPhases, msg : Nat, next : Nat]]
      /\ consumer'[1] = [phase |-> p, msg |-> consumer[1].msg, next |-> n]
  <2>1. consumer' = [consumer EXCEPT ![1].phase = p, ![1].next = n] /\ 1 \in Starts
    BY <1>1 DEF Becomes
  <2> QED BY <1>1, <2>1
<1>3. CASE Shown(1, i)
  <2>1. /\ chat' \in Seq(Nat \X Nat) /\ ChunksAreContiguous'
        /\ chat' # <<>> /\ chat'[Len(chat')] = <<consumer[1].msg, i>>
    BY <1>1, <1>3, ShownFacts DEF Shown
  <2>2. p \in {"rest", "new"} => n = 1 \/ n = i + 1
    BY <1>3
  <2>3. Continues'
    BY <1>2, <2>1, <2>2 DEF Continues, EndsWith
  <2> QED BY <1>1, <1>2, <2>1, <2>3 DEF SendOK, SendTypes
<1>4. CASE chat' = chat /\ (p \in {"rest", "new"} => n = 1)
  <2>1. Continues'
    BY <1>2, <1>4 DEF Continues
  <2>2. ChunksAreContiguous'
    BY <1>1, <1>4 DEF ChunksAreContiguous
  <2> QED BY <1>1, <1>2, <1>4, <2>1, <2>2 DEF SendOK, SendTypes
<1> QED BY <1>3, <1>4 DEF Failed

\* Every step keeps SendOK.
LEMMA SendKeeps ==
    ASSUME MaxStarts = 1, SendOK, [FeishuNext]_feishuVars
    PROVE  SendOK'
<1>0. /\ Starts = {1} /\ consumer[1].msg \in Nat /\ consumer[1].next \in Nat
      /\ consumer \in [Starts -> [phase : SendPhases, msg : Nat, next : Nat]]
      /\ taken \in Nat /\ chat \in Seq(Nat \X Nat) /\ Continues /\ ChunksAreContiguous
  BY MaxStarts = 1 DEF Starts, SendOK, SendTypes
<1>a. chat' = chat => ChunksAreContiguous' /\ (consumer' = consumer => Continues')
  BY <1>0 DEF ChunksAreContiguous, Continues, EndsWith
<1>1. CASE TakeOutbound(1)
  <2>1. chat' = chat /\ taken' = taken + 1
    BY <1>1 DEF TakeOutbound
  <2>2. CASE consumer' = consumer
    BY <1>0, <1>a, <2>1, <2>2 DEF SendOK, SendTypes
  <2>3. ASSUME NEW p \in {"reply", "new"},
               consumer' = [consumer EXCEPT ![1] = [phase |-> p, msg |-> taken + 1, next |-> 1]]
        PROVE  SendOK'
    <3>1. /\ consumer' \in [Starts -> [phase : SendPhases, msg : Nat, next : Nat]]
          /\ consumer'[1].next = 1
      BY <1>0, <2>3 DEF SendPhases
    <3>2. Continues'
      BY <3>1 DEF Continues
    <3> QED BY <1>0, <1>a, <2>1, <3>1, <3>2 DEF SendOK, SendTypes
  <2> QED BY <1>1, <2>2, <2>3 DEF TakeOutbound
<1>2. CASE ConsumerReturns(1)
  <2>1. /\ UNCHANGED <<taken, chat>> /\ consumer' = [consumer EXCEPT ![1].phase = "over"]
    BY <1>2 DEF ConsumerReturns
  <2>2. /\ consumer' \in [Starts -> [phase : SendPhases, msg : Nat, next : Nat]]
        /\ consumer'[1].phase = "over"
    <3>1. "over" \in SendPhases /\ 1 \in Starts
      BY <1>0 DEF SendPhases
    <3> QED BY <1>0, <2>1, <3>1, SetPhase
  <2> QED BY <1>0, <1>a, <2>1, <2>2 DEF SendOK, SendTypes, Continues
<1>3. CASE ReplyFirst(1)
  <2>1. taken' = taken
    BY <1>3 DEF ReplyFirst
  <2>2. CASE Becomes(1, "first", 1) /\ Failed(1, 1)
    BY <2>1, <2>2, Goes DEF SendPhases
  <2>3. CASE Becomes(1, "rest", 2) /\ Shown(1, 1)
    BY <2>1, <2>3, Goes DEF SendPhases
  <2>4. CASE SendReturns(1, "ok") /\ Shown(1, 1)
    BY <2>1, <2>4, Goes DEF SendReturns, SendPhases
  <2> QED BY <1>3, <2>2, <2>3, <2>4 DEF ReplyFirst
<1>4. CASE CreateFirst(1)
  <2>1. taken' = taken
    BY <1>4 DEF CreateFirst
  <2>2. CASE Becomes(1, "new", 1) /\ Failed(1, 1)
    BY <2>1, <2>2, Goes DEF SendPhases
  <2>3. CASE SendReturns(1, "ok") /\ Shown(1, 1)
    BY <2>1, <2>3, Goes DEF SendReturns, SendPhases
  <2> QED BY <1>4, <2>2, <2>3 DEF CreateFirst
<1>5. CASE SendNext(1)
  <2> DEFINE i == consumer[1].next
  <2>1. taken' = taken /\ consumer[1].phase \in {"rest", "new"}
    BY <1>5 DEF SendNext
  <2>2. i \in Nat /\ i > 0 /\ (i > 1 => EndsWith(consumer[1].msg, i - 1))
    BY <1>0, <2>1 DEF Continues
  <2>3. CASE Becomes(1, consumer[1].phase, i + 1) /\ Shown(1, i)
    BY <2>1, <2>2, <2>3, Goes DEF SendPhases
  <2>4. CASE SendReturns(1, "ok") /\ Shown(1, i)
    BY <2>1, <2>2, <2>4, Goes DEF SendReturns, SendPhases
  <2>5. CASE Becomes(1, "new", 1) /\ Failed(1, i)
    BY <2>1, <2>2, <2>5, Goes DEF SendPhases
  <2>6. CASE SendReturns(1, "error") /\ Failed(1, i)
    BY <2>1, <2>2, <2>6, Goes DEF SendReturns, SendPhases
  <2> QED BY <1>5, <2>3, <2>4, <2>5, <2>6 DEF SendNext
<1>6. CASE Start
  <2>1. UNCHANGED <<taken, chat>> /\ consumer' = [consumer EXCEPT ![starts + 1].phase = "idle"]
    BY <1>6, MaxStarts = 1 DEF Start
  <2>2. CASE starts + 1 \in Starts
    <3>1. /\ consumer' \in [Starts -> [phase : SendPhases, msg : Nat, next : Nat]]
          /\ consumer'[1].phase = "idle"
      <4>1. "idle" \in SendPhases /\ starts + 1 = 1
        BY <1>0, <2>2 DEF SendPhases
      <4>2. consumer' = [consumer EXCEPT ![1].phase = "idle"] /\ 1 \in Starts
        BY <1>0, <2>1, <4>1
      <4> QED BY <1>0, <4>1, <4>2, SetPhase
    <3> QED BY <1>0, <1>a, <2>1, <3>1 DEF SendOK, SendTypes, Continues
  <2>3. CASE starts + 1 \notin Starts
    <3>1. consumer' = consumer
      BY <1>0, <2>1, <2>3
    <3> QED BY <1>0, <1>a, <2>1, <3>1 DEF SendOK, SendTypes
  <2> QED BY <2>2, <2>3
<1>7. CASE UNCHANGED sendVars
  BY <1>0, <1>7 DEF sendVars, SendOK, SendTypes, Continues, EndsWith, ChunksAreContiguous
<1>8. ASSUME NEW k \in Stoppers, StopBegins(k) \/ StopEnds(k) PROVE SendOK'
  BY <1>7, <1>8 DEF StopBegins, StopEnds
<1>9. ASSUME NEW g \in Starts, SocketBegins(g) \/ SocketEnds(g) PROVE SendOK'
  BY <1>7, <1>9 DEF SocketBegins, SocketEnds
<1>10. ASSUME NEW e \in Ids, Receive(e) \/ PublishEvent(e) PROVE SendOK'
  BY <1>7, <1>10 DEF Receive, PublishEvent
<1>11. CASE RootEnds \/ UNCHANGED feishuVars
  BY <1>7, <1>11 DEF RootEnds, feishuVars
<1> QED
  BY <1>0, <1>1, <1>2, <1>3, <1>4, <1>5, <1>6, <1>8, <1>9, <1>10, <1>11 DEF FeishuNext, FeishuStep

\* The chunks of every attempt follow one another in the chat, whatever the messages and
\* whichever requests fail: with one Start.
THEOREM ChunksFollow ==
    ASSUME MaxStarts = 1
    PROVE  FeishuSpec => []ChunksAreContiguous
<1>1. FeishuInit => SendOK
  BY MaxStarts = 1 DEF FeishuInit, SendOK, SendTypes, SendPhases, Continues, Starts, None,
     ChunksAreContiguous
<1>2. SendOK /\ [FeishuNext]_feishuVars => SendOK'
  BY SendKeeps
<1>3. SendOK => ChunksAreContiguous
  BY DEF SendOK
<1> QED BY <1>1, <1>2, <1>3, PTL DEF FeishuSpec

-----------------------------------------------------------------------------
(* Websocket: broadcasts                                                    *)

Ready == {"reading", "publishing"}
InMap == Ready \cup {"leaving"}

WsTypes ==
    /\ conns \in [Addresses -> WsClients \cup {NoConn}]
    /\ DOMAIN handler = WsClients
    /\ wsSend \in [phase : {"idle", "waiting", "writing", "over"}, msg : Nat,
                   todo : SUBSET WsClients]
    /\ wsTaken \in Nat /\ begun \in Seq(Nat)
    /\ joined \in [WsClients -> Nat] /\ got \in [WsClients -> Seq(Nat)]

\* An open client is under its address, and only those who entered are in the map.
MapOK ==
    \A c \in WsClients :
       /\ handler[c] \in Ready /\ c \notin broken => conns[RemoteAddr[c]] = c
       /\ \A a \in Addresses : conns[a] = c => a = RemoteAddr[c] /\ handler[c] \in InMap

\* Whom a broadcast has still to write to, and what a client has before it enters.
WritesOK ==
    /\ wsSend.phase # "writing" => wsSend.todo = {}
    /\ \A c \in WsClients :
         /\ c \in wsSend.todo => handler[c] \in InMap
         /\ handler[c] \in {"away", "requested", "upgraded"} => got[c] = <<>>
         /\ handler[c] \in InMap => joined[c] <= Len(begun)

WsInv == WsTypes /\ MapOK /\ WritesOK /\ ClientsMissNothing

\* Each client has an address of its own.
OwnAddresses == \A c, d \in WsClients : RemoteAddr[c] = RemoteAddr[d] => c = d

\* What Append does to the end of a sequence.
LEMMA SubSeqAppend ==
    ASSUME NEW S, NEW q \in Seq(S), NEW e \in S, NEW j \in Nat, j <= Len(q)
    PROVE  SubSeq(Append(q, e), j + 1, Len(q) + 1) = Append(SubSeq(q, j + 1, Len(q)), e)
<1> DEFINE l == SubSeq(Append(q, e), j + 1, Len(q) + 1)
           m == SubSeq(q, j + 1, Len(q))
           n == Len(q) - j
<1>1. Len(q) \in Nat /\ n \in Nat
  OBVIOUS
<1>2. /\ Append(q, e) \in Seq(S) /\ Append(q, e)[Len(q) + 1] = e
      /\ \A i \in 1 .. Len(q) : Append(q, e)[i] = q[i]
  BY SMTT(40)
<1>3. m \in Seq(S) /\ Len(m) = n /\ \A i \in 1 .. n : m[i] = q[j + i]
  BY <1>1
<1>4. l \in Seq(S) /\ Len(l) = n + 1 /\ \A i \in 1 .. n + 1 : l[i] = Append(q, e)[j + i]
  BY <1>1, <1>2, SMTT(30)
<1> HIDE DEF l, m
<1>5. /\ Append(m, e) \in Seq(S) /\ Len(Append(m, e)) = n + 1 /\ Append(m, e)[n + 1] = e
      /\ \A i \in 1 .. n : Append(m, e)[i] = m[i]
  BY <1>1, <1>3
<1>6. ASSUME NEW i \in 1 .. n + 1 PROVE l[i] = Append(m, e)[i]
  <2>1. CASE i = n + 1
    BY <1>1, <1>2, <1>4, <1>5, <2>1, SMTT(30)
  <2>2. CASE i \in 1 .. n
    BY <1>1, <1>2, <1>3, <1>4, <1>5, <2>2, SMTT(30)
  <2>3. i = n + 1 \/ i \in 1 .. n
    BY <1>1
  <2> QED BY <2>1, <2>2, <2>3
<1>7. l = Append(m, e)
  BY <1>4, <1>5, <1>6, SeqEqual
<1> QED BY <1>7 DEF l, m

\* A handler that goes on, with the same entries in the map and the same broadcasts.
LEMMA HandlerSteps ==
    ASSUME WsInv, NEW c \in WsClients, NEW p, HandlerGoes(c, p),
           UNCHANGED <<conns, wsSend, wsTaken, begun, joined, got>>, broken' = broken,
           \/ handler[c] \in {"away", "requested"} /\ p \in {"requested", "upgraded", "left"}
           \/ handler[c] \in Ready /\ p \in Ready
           \/ handler[c] \in Ready /\ p = "leaving"
    PROVE  WsInv'
<1>1. /\ DOMAIN handler' = WsClients /\ handler'[c] = p
      /\ \A d \in WsClients \ {c} : handler'[d] = handler[d]
  BY DEF WsInv, WsTypes, HandlerGoes
<1>2. WsTypes'
  BY <1>1 DEF WsInv, WsTypes
<1>3. MapOK'
  BY <1>1 DEF WsInv, MapOK, Ready, InMap
<1>4. WritesOK'
  BY <1>1 DEF WsInv, WritesOK, Ready, InMap
<1>5. ClientsMissNothing'
  BY <1>1 DEF WsInv, ClientsMissNothing, Ready
<1> QED BY <1>2, <1>3, <1>4, <1>5 DEF WsInv

\* A client enters the map: it misses nothing yet.
LEMMA RegisterKeeps ==
    ASSUME OwnAddresses, WsInv, NEW c \in WsClients, Register(c)
    PROVE  WsInv'
<1>0. /\ handler[c] = "upgraded" /\ wsSend.phase # "writing" /\ RemoteAddr[c] \in Addresses
      /\ conns' = [conns EXCEPT ![RemoteAddr[c]] = c] /\ joined' = [joined EXCEPT ![c] = Len(begun)]
      /\ handler' = [handler EXCEPT ![c] = "reading"]
      /\ UNCHANGED <<broken, wsTaken, wsSend, begun, got>>
  BY DEF Register, Unlocked, HandlerGoes, Addresses
<1>1. /\ DOMAIN handler' = WsClients /\ handler'[c] = "reading"
      /\ \A d \in WsClients \ {c} : handler'[d] = handler[d]
  BY <1>0 DEF WsInv, WsTypes
<1>2. begun \in Seq(Nat) /\ Len(begun) \in Nat /\ SubSeq(begun, Len(begun) + 1, Len(begun)) = <<>>
  BY DEF WsInv, WsTypes
<1>3. /\ joined' \in [WsClients -> Nat] /\ joined'[c] = Len(begun)
      /\ \A d \in WsClients \ {c} : joined'[d] = joined[d]
  BY <1>0, <1>2 DEF WsInv, WsTypes
<1>4. /\ conns' \in [Addresses -> WsClients \cup {NoConn}] /\ conns'[RemoteAddr[c]] = c
      /\ \A a \in Addresses \ {RemoteAddr[c]} : conns'[a] = conns[a]
  BY <1>0 DEF WsInv, WsTypes
<1>5. WsTypes'
  BY <1>0, <1>1, <1>3, <1>4 DEF WsInv, WsTypes
<1>6. MapOK'
  <2>1. \A d \in WsClients \ {c} : RemoteAddr[d] # RemoteAddr[c] /\ RemoteAddr[d] \in Addresses
    BY DEF OwnAddresses, Addresses
  <2> QED BY <1>0, <1>1, <1>4, <2>1 DEF WsInv, MapOK, Ready, InMap
<1>7. wsSend.todo = {} /\ got[c] = <<>>
  BY <1>0 DEF WsInv, WritesOK
<1>8. WritesOK'
  BY <1>0, <1>1, <1>2, <1>3, <1>7, SMTT(40) DEF WsInv, WritesOK, Ready, InMap
<1>9. ClientsMissNothing'
  BY <1>0, <1>1, <1>2, <1>3, <1>7, ZenonT(60) DEF WsInv, ClientsMissNothing
<1> QED BY <1>5, <1>6, <1>8, <1>9 DEF WsInv

\* A client leaves the map: nobody else's entry goes.
LEMMA LeaveKeeps ==
    ASSUME OwnAddresses, WsInv, NEW c \in WsClients, Leave(c)
    PROVE  WsInv'
<1>0. /\ handler[c] = "leaving" /\ wsSend.phase # "writing" /\ RemoteAddr[c] \in Addresses
      /\ conns' = [conns EXCEPT ![RemoteAddr[c]] = NoConn]
      /\ handler' = [handler EXCEPT ![c] = "left"]
      /\ UNCHANGED <<broken, wsTaken, wsSend, begun, joined, got>>
  BY DEF Leave, Unlocked, HandlerGoes, Addresses
<1>1. /\ DOMAIN handler' = WsClients /\ handler'[c] = "left"
      /\ \A d \in WsClients \ {c} : handler'[d] = handler[d]
  BY <1>0 DEF WsInv, WsTypes
<1>2. /\ conns' \in [Addresses -> WsClients \cup {NoConn}] /\ conns'[RemoteAddr[c]] = NoConn
      /\ \A a \in Addresses \ {RemoteAddr[c]} : conns'[a] = conns[a]
  BY <1>0 DEF WsInv, WsTypes
<1>3. WsTypes'
  BY <1>0, <1>1, <1>2 DEF WsInv, WsTypes
<1>4. MapOK'
  <2>1. \A d \in WsClients \ {c} : RemoteAddr[d] # RemoteAddr[c] /\ RemoteAddr[d] \in Addresses
    BY DEF OwnAddresses, Addresses
  <2> QED BY <1>0, <1>1, <1>2, <2>1, WsAssumption DEF WsInv, MapOK, Ready, InMap
<1>5. wsSend.todo = {}
  BY <1>0 DEF WsInv, WritesOK
<1>6. WritesOK'
  BY <1>0, <1>1, <1>5 DEF WsInv, WritesOK, Ready, InMap
<1>7. ClientsMissNothing'
  BY <1>0, <1>1 DEF WsInv, ClientsMissNothing
<1> QED BY <1>3, <1>4, <1>6, <1>7 DEF WsInv

\* A connection breaks.
LEMMA BreakKeeps ==
    ASSUME WsInv, broken \subseteq broken',
           UNCHANGED <<conns, handler, wsSend, wsTaken, begun, joined, got>>
    PROVE  WsInv'
<1>1. WsTypes' /\ MapOK'
  BY DEF WsInv, WsTypes, MapOK
<1>2. WritesOK' /\ ClientsMissNothing'
  BY DEF WsInv, WritesOK, ClientsMissNothing
<1> QED BY <1>1, <1>2 DEF WsInv

\* The consumer between broadcasts.
LEMMA ConsumerKeeps ==
    ASSUME WsInv, wsSend.todo = {}, wsTaken' \in Nat,
           wsSend' \in [phase : {"idle", "waiting", "writing", "over"}, msg : Nat,
                        todo : SUBSET WsClients],
           wsSend'.todo = {},
           UNCHANGED <<conns, handler, broken, begun, joined, got>>
    PROVE  WsInv'
<1>1. WsTypes' /\ MapOK'
  BY DEF WsInv, WsTypes, MapOK
<1>2. WritesOK'
  BY DEF WsInv, WritesOK
<1>3. ClientsMissNothing'
  BY DEF WsInv, ClientsMissNothing
<1> QED BY <1>1, <1>2, <1>3 DEF WsInv

\* A broadcast begins: it is for all open clients.
LEMMA LocksKeeps ==
    ASSUME WsInv, SendLocks
    PROVE  WsInv'
<1>0. /\ wsSend.phase = "waiting"
      /\ wsSend' = [wsSend EXCEPT !.phase = "writing", !.todo = Registered]
      /\ begun' = Append(begun, wsSend.msg)
      /\ UNCHANGED <<conns, handler, broken, wsTaken, joined, got>>
  BY DEF SendLocks
<1>1. /\ wsSend' = [phase |-> "writing", msg |-> wsSend.msg, todo |-> Registered]
      /\ wsSend.msg \in Nat /\ wsSend.todo = {}
  BY <1>0 DEF WsInv, WsTypes, WritesOK
<1>2. Registered \subseteq WsClients
  BY DEF WsInv, WsTypes, Registered
<1>3. /\ begun \in Seq(Nat) /\ begun' \in Seq(Nat)
      /\ Len(begun) \in Nat /\ Len(begun') = Len(begun) + 1
  BY <1>0, <1>1 DEF WsInv, WsTypes
<1>4. WsTypes' /\ MapOK'
  <2>1. wsSend' \in [phase : {"idle", "waiting", "writing", "over"}, msg : Nat,
                     todo : SUBSET WsClients]
    BY <1>1, <1>2
  <2> QED BY <1>0, <1>3, <2>1 DEF WsInv, WsTypes, MapOK
<1>5. ASSUME NEW c \in Registered PROVE handler[c] \in InMap
  BY <1>2, <1>5 DEF Registered, WsInv, MapOK
<1>6. WritesOK'
  BY <1>0, <1>1, <1>3, <1>5 DEF WsInv, WsTypes, WritesOK
<1>7. ASSUME NEW c \in WsClients, handler[c] \in Ready, c \notin broken
      PROVE  /\ c \in Registered
             /\ SubSeq(begun', joined[c] + 1, Len(begun')) = Append(got[c], wsSend.msg)
  <2>1. c \in Registered
    BY <1>7, WsAssumption DEF WsInv, MapOK, Registered, Addresses
  <2>2. joined[c] \in Nat /\ joined[c] <= Len(begun)
    BY <1>7 DEF WsInv, WsTypes, WritesOK, InMap
  <2>3. SubSeq(begun, joined[c] + 1, Len(begun)) = got[c]
    BY <1>1, <1>7 DEF WsInv, ClientsMissNothing, Ready
  <2>4. SubSeq(Append(begun, wsSend.msg), joined[c] + 1, Len(begun) + 1) =
            Append(SubSeq(begun, joined[c] + 1, Len(begun)), wsSend.msg)
    BY <1>1, <1>3, <2>2, SubSeqAppend
  <2> QED BY <1>0, <1>3, <2>1, <2>3, <2>4
<1>8. ClientsMissNothing'
  BY <1>0, <1>1, <1>7 DEF ClientsMissNothing, Ready
<1> QED BY <1>4, <1>6, <1>8 DEF WsInv

\* A client gets the message, or breaks.
LEMMA WriteKeeps ==
    ASSUME WsInv, NEW c \in WsClients, WriteOne(c)
    PROVE  WsInv'
<1>0. /\ wsSend.phase = "writing" /\ c \in wsSend.todo
      /\ wsSend' = [wsSend EXCEPT !.todo = @ \ {c}]
      /\ \/ /\ c \notin broken /\ broken' = broken
            /\ got' = [got EXCEPT ![c] = Append(@, wsSend.msg)]
         \/ broken' = broken \cup {c} /\ got' = got
      /\ UNCHANGED <<conns, handler, wsTaken, begun, joined>>
  BY DEF WriteOne
<1>1. /\ wsSend' = [phase |-> "writing", msg |-> wsSend.msg, todo |-> wsSend.todo \ {c}]
      /\ wsSend.msg \in Nat /\ wsSend.todo \subseteq WsClients
  BY <1>0 DEF WsInv, WsTypes
<1>2. /\ got' \in [WsClients -> Seq(Nat)] /\ \A d \in WsClients \ {c} : got'[d] = got[d]
      /\ c \notin broken' => got'[c] = Append(got[c], wsSend.msg)
  <2>1. got \in [WsClients -> Seq(Nat)] /\ Append(got[c], wsSend.msg) \in Seq(Nat)
    BY <1>1 DEF WsInv, WsTypes
  <2>2. CASE c \notin broken /\ got' = [got EXCEPT ![c] = Append(got[c], wsSend.msg)]
    BY <2>1, <2>2
  <2>3. CASE broken' = broken \cup {c} /\ got' = got
    BY <2>1, <2>3
  <2> QED BY <1>0, <2>2, <2>3
<1>3. WsTypes'
  <2>1. wsSend' \in [phase : {"idle", "waiting", "writing", "over"}, msg : Nat,
                     todo : SUBSET WsClients]
    BY <1>1
  <2> QED BY <1>0, <1>2, <2>1 DEF WsInv, WsTypes
<1>4. broken \subseteq broken' /\ MapOK'
  BY <1>0 DEF WsInv, MapOK
<1>5. handler[c] \in InMap
  BY <1>0 DEF WsInv, WritesOK
<1>6. WritesOK'
  BY <1>0, <1>1, <1>2, <1>5, ZenonT(60) DEF WsInv, WritesOK, InMap, Ready
<1>7. ClientsMissNothing'
  BY <1>0, <1>1, <1>2, <1>4, ZenonT(60) DEF WsInv, ClientsMissNothing
<1> QED BY <1>3, <1>4, <1>6, <1>7 DEF WsInv

\* Stop closes every connection of the map, and an open one is there.
LEMMA StopKeeps ==
    ASSUME WsInv, WsStopLocks
    PROVE  WsInv'
<1>0. /\ wsSend.phase # "writing" /\ broken' = broken \cup Registered
      /\ conns' = [a \in Addresses |-> NoConn]
      /\ UNCHANGED <<handler, wsTaken, wsSend, begun, joined, got>>
  BY DEF WsStopLocks, Unlocked
<1>1. WsTypes'
  BY <1>0 DEF WsInv, WsTypes
<1>2. ASSUME NEW c \in WsClients, handler[c] \in Ready PROVE c \in broken'
  <2>1. c \notin broken => c \in Registered
    BY <1>2, WsAssumption DEF WsInv, MapOK, Registered, Addresses
  <2> QED BY <1>0, <2>1
<1>3. MapOK'
  BY <1>0, <1>2, WsAssumption DEF MapOK
<1>4. WritesOK'
  BY <1>0 DEF WsInv, WritesOK
<1>5. ClientsMissNothing'
  BY <1>0, <1>2 DEF ClientsMissNothing, Ready
<1> QED BY <1>1, <1>3, <1>4, <1>5 DEF WsInv

\* Every step keeps WsInv.
LEMMA WsKeeps ==
    ASSUME OwnAddresses, WsInv, [WsNext]_wsVars
    PROVE  WsInv'
<1>1. ASSUME NEW c \in WsClients, WsRequest(c) \/ Upgrade(c) PROVE WsInv'
  BY <1>1, HandlerSteps DEF WsRequest, Upgrade
<1>2. ASSUME NEW c \in WsClients, ReadMessage(c) \/ WsPublished(c) \/ ReadFails(c) PROVE WsInv'
  BY <1>2, HandlerSteps DEF ReadMessage, WsPublished, ReadFails, Ready
<1>3. ASSUME NEW c \in WsClients, Breaks(c) PROVE WsInv'
  BY <1>3, BreakKeeps DEF Breaks
<1>4. CASE WsTake
  <2>1. wsSend.todo = {} /\ wsTaken + 1 \in Nat
    BY <1>4 DEF WsTake, WsInv, WsTypes, WritesOK
  <2>2. /\ wsSend' \in [phase : {"idle", "waiting", "writing", "over"}, msg : Nat,
                        todo : SUBSET WsClients]
        /\ wsSend'.todo = {}
    BY <1>4, <2>1 DEF WsTake, WsInv, WsTypes
  <2> QED BY <1>4, <2>1, <2>2, ConsumerKeeps DEF WsTake
<1>5. CASE OtherTakes
  <2>1. /\ wsTaken' = wsTaken + 1 /\ wsTaken' \in Nat
        /\ UNCHANGED <<conns, handler, broken, wsSend, begun, joined, got>>
    BY <1>5 DEF OtherTakes, WsInv, WsTypes
  <2>2. WsTypes' /\ MapOK'
    BY <2>1 DEF WsInv, WsTypes, MapOK
  <2>3. WritesOK' /\ ClientsMissNothing'
    BY <2>1 DEF WsInv, WritesOK, ClientsMissNothing
  <2> QED BY <2>2, <2>3 DEF WsInv
<1>6. CASE SendUnlocks
  <2>1. wsSend'.todo = {} /\ wsTaken' \in Nat
        /\ wsSend' \in [phase : {"idle", "waiting", "writing", "over"}, msg : Nat,
                        todo : SUBSET WsClients]
    BY <1>6 DEF SendUnlocks, WsInv, WsTypes
  <2> QED BY <1>6, <2>1, ConsumerKeeps DEF SendUnlocks
<1>7. CASE WsConsumerReturns
  <2>1. wsSend.todo = {} /\ wsSend' = [wsSend EXCEPT !.phase = "over"] /\ wsTaken' \in Nat
    BY <1>7 DEF WsConsumerReturns, WsInv, WsTypes, WritesOK
  <2>2. /\ wsSend' \in [phase : {"idle", "waiting", "writing", "over"}, msg : Nat,
                        todo : SUBSET WsClients]
        /\ wsSend'.todo = {}
    BY <2>1 DEF WsInv, WsTypes
  <2> QED BY <1>7, <2>1, <2>2, ConsumerKeeps DEF WsConsumerReturns
<1>8. CASE WsStopCalled \/ WsStopReturns \/ WsRootEnds \/ UNCHANGED wsVars
  BY <1>8, BreakKeeps DEF WsStopCalled, WsStopReturns, WsRootEnds, wsVars
<1> QED
  BY <1>1, <1>2, <1>3, <1>4, <1>5, <1>6, <1>7, <1>8, RegisterKeeps, LeaveKeeps, LocksKeeps,
     WriteKeeps, StopKeeps DEF WsNext

\* An open connection has received every reply whose broadcast began since it entered the
\* map, in order, whatever the other clients and Stop do, as long as each client has an
\* address of its own.
THEOREM BroadcastsReachAll ==
    ASSUME OwnAddresses
    PROVE  WsSpec => []ClientsMissNothing
<1>1. WsInit => WsInv
  BY WsAssumption DEF WsInit, WsInv, WsTypes, MapOK, WritesOK, ClientsMissNothing, Ready, InMap
<1>2. WsInv /\ [WsNext]_wsVars => WsInv'
  BY WsKeeps
<1>3. WsInv => ClientsMissNothing
  BY DEF WsInv
<1> QED BY <1>1, <1>2, <1>3, PTL DEF WsSpec
=============================================================================
