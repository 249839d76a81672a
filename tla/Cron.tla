-------------------------------- MODULE Cron --------------------------------
(***************************************************************************)
(* The scheduler of internal/cron/service.go and the cron tool that fills  *)
(* it: jobs with a next run, the 30 second ticker that collects what is    *)
(* due under the lock and fires it afterwards from the collected pointers, *)
(* the job file, and a restart of the process.                             *)
(*                                                                         *)
(* Time is a clock that advances by one unit; intervals are in that unit.  *)
(* The gateway creates the service without a callback (gateway.go:100) and *)
(* never calls Save: CronWired and CronSaves are FALSE there.              *)
(***************************************************************************)
EXTENDS Integers, FiniteSets

CONSTANTS
    Jobs,        \* ids of the jobs that may be added
    Intervals,   \* every_seconds as the tool passes it on: zero and below are accepted
    Day,         \* 24 hours, the next run of an "at" that has passed
    Minute,      \* 60 seconds, the next run of every cron expression
    CronWired,   \* the service has an onFire callback
    CronSaves,   \* somebody calls Save
    MaxClock     \* bound on the clock

ASSUME CronAssumption ==
    Intervals \subseteq Int /\ Day \in Nat /\ Minute \in Nat /\ MaxClock \in Nat

VARIABLES
    clock,       \* time.Now()
    cronJobs,    \* [a subset of Jobs -> job]: the map, under the mutex
    firing,      \* jobs collected by the fireDue in progress, not yet fired
    jobFile,     \* what Save wrote last
    cronUp,      \* the process runs
    added,       \* ids that were given out
    removed,     \* history: ids whose RemoveJob returned
    fired,       \* history: [Jobs -> clocks at which the job was collected in this life]
    late         \* history: [Jobs -> times it fired since its RemoveJob returned]

cronVars == <<clock, cronJobs, firing, jobFile, cronUp, added, removed, fired, late>>

Times == -MaxClock - Day .. MaxClock + Day + Minute
Schedules == [kind : {"every"}, arg : Intervals] \cup [kind : {"cron"}, arg : {0}]
             \cup [kind : {"at"}, arg : 0 .. MaxClock]
Job == [schedule : Schedules, next : Times]

CronTypeOK ==
    /\ clock \in 0 .. MaxClock
    /\ \A m \in {cronJobs, jobFile} :
          DOMAIN m \subseteq Jobs /\ \A j \in DOMAIN m : m[j] \in Job
    /\ firing \subseteq Jobs /\ added \subseteq Jobs /\ removed \subseteq added
    /\ cronUp \in BOOLEAN
    /\ fired \in [Jobs -> SUBSET (0 .. MaxClock)]
    /\ late \in [Jobs -> Nat]

NoJobs == [j \in {} |-> 0]

CronInit ==
    /\ clock = 0
    /\ cronJobs = NoJobs /\ jobFile = NoJobs
    /\ firing = {} /\ added = {} /\ removed = {}
    /\ cronUp = TRUE
    /\ fired = [j \in Jobs |-> {}]
    /\ late = [j \in Jobs |-> 0]

\* nextRun: an "at" in the past, like one that does not parse, is a day from now, and
\* every cron expression a minute from now.
NextRun(s) ==
    CASE s.kind = "every" -> clock + s.arg
      [] s.kind = "at"    -> IF s.arg > clock THEN s.arg ELSE clock + Day
      [] s.kind = "cron"  -> clock + Minute

With(m, j, job) == [i \in DOMAIN m \cup {j} |-> IF i = j THEN job ELSE m[i]]
Without(m, j) == [i \in DOMAIN m \ {j} |-> m[i]]

-----------------------------------------------------------------------------

\* The tool's add: a job is always to be delivered; AddJob gives it an id of its own.
AddJob(j, s) ==
    /\ cronUp /\ j \notin added
    /\ cronJobs' = With(cronJobs, j, [schedule |-> s, next |-> NextRun(s)])
    /\ added' = added \cup {j}
    /\ UNCHANGED <<clock, firing, jobFile, cronUp, removed, fired, late>>

\* An unknown id is an error and changes nothing.
RemoveJob(j) ==
    /\ cronUp /\ j \in DOMAIN cronJobs
    /\ cronJobs' = Without(cronJobs, j)
    /\ removed' = removed \cup {j} /\ late' = [late EXCEPT ![j] = 0]
    /\ UNCHANGED <<clock, firing, jobFile, cronUp, added, fired>>

Due == {j \in DOMAIN cronJobs : clock > cronJobs[j].next}

CollectDue_Burst ==
    /\ cronUp /\ firing = {} /\ Due # {}
    /\ firing' = Due
    /\ cronJobs' = [j \in DOMAIN cronJobs |->
                      IF j \in Due THEN [cronJobs[j] EXCEPT !.next = @ + 1] ELSE cronJobs[j]]
    /\ fired' = [j \in Jobs |-> IF j \in Due THEN fired[j] \cup {clock} ELSE fired[j]]
    /\ UNCHANGED <<clock, jobFile, cronUp, added, removed, late>>

\* fireDue under the lock: what is due is collected and rescheduled from now.  The
\* ticker's goroutine fires the jobs of one tick before it takes the next.
CollectDue ==
    /\ cronUp /\ firing = {} /\ Due # {}
    /\ firing' = Due
    /\ cronJobs' = [j \in DOMAIN cronJobs |->
                      IF j \in Due THEN [cronJobs[j] EXCEPT !.next = NextRun(cronJobs[j].schedule)]
                      ELSE cronJobs[j]]
    /\ fired' = [j \in Jobs |-> IF j \in Due THEN fired[j] \cup {clock} ELSE fired[j]]
    /\ UNCHANGED <<clock, jobFile, cronUp, added, removed, late>>

Fire_Reschedules(j) ==
    /\ cronUp /\ j \in firing
    /\ firing' = firing \ {j}
    /\ cronJobs' = With(cronJobs, j, [schedule |-> [kind |-> "every", arg |-> 0], next |-> clock])
    /\ late' = [late EXCEPT ![j] = IF CronWired /\ j \in removed THEN @ + 1 ELSE @]
    /\ UNCHANGED <<clock, jobFile, cronUp, added, removed, fired>>

\* After the unlock each collected job fires, in map order, whether or not it has been
\* removed since.
Fire(j) ==
    /\ cronUp /\ j \in firing
    /\ firing' = firing \ {j}
    /\ late' = [late EXCEPT ![j] = IF CronWired /\ j \in removed THEN @ + 1 ELSE @]
    /\ UNCHANGED <<clock, cronJobs, jobFile, cronUp, added, removed, fired>>

Save ==
    /\ cronUp /\ CronSaves /\ jobFile # cronJobs
    /\ jobFile' = cronJobs
    /\ UNCHANGED <<clock, cronJobs, firing, cronUp, added, removed, fired, late>>

\* The process dies at any point, inside WriteFile too: what Load finds then does not
\* parse and counts as no jobs.
Dies ==
    /\ cronUp
    /\ cronUp' = FALSE
    /\ cronJobs' = NoJobs /\ firing' = {}
    /\ fired' = [j \in Jobs |-> {}]
    /\ jobFile' \in {jobFile} \cup IF CronSaves THEN {NoJobs} ELSE {}
    /\ UNCHANGED <<clock, added, removed, late>>

Load ==
    /\ ~cronUp
    /\ cronUp' = TRUE
    /\ cronJobs' = [j \in DOMAIN cronJobs \cup DOMAIN jobFile |->
                      IF j \in DOMAIN jobFile THEN jobFile[j] ELSE cronJobs[j]]
    /\ removed' = removed \ DOMAIN jobFile
    /\ UNCHANGED <<clock, firing, jobFile, added, fired, late>>

TimePasses ==
    /\ clock < MaxClock
    /\ clock' = clock + 1
    /\ UNCHANGED <<cronJobs, firing, jobFile, cronUp, added, removed, fired, late>>

CronNext ==
    \/ \E j \in Jobs : RemoveJob(j) \/ Fire(j) \/ \E s \in Schedules : AddJob(j, s)
    \/ CollectDue \/ Save \/ Dies \/ Load \/ TimePasses

CronSpec == CronInit /\ [][CronNext]_cronVars

-----------------------------------------------------------------------------
(* Properties                                                               *)

\* However long the ticker was held up, a job does not fire in a burst afterwards: two
\* runs in one life of the process are more than its interval apart, a day for a
\* one-shot job and a minute for a cron expression (service.go:121-124).
Spacing(s) == CASE s.kind = "every" -> s.arg [] s.kind = "at" -> Day [] s.kind = "cron" -> Minute
RunsAreSpaced ==
    \A j \in DOMAIN cronJobs : \A a, b \in fired[j] :
        a < b => b - a > Spacing(cronJobs[j].schedule)

\* A removed job fires at most once more, from the snapshot of the tick that was in
\* progress (service.go:115-132); one that comes back with Load is not removed.
RemovedFiresAtMostOnce == \A j \in Jobs : late[j] <= 1
=============================================================================
