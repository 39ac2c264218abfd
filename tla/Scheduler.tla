------------------------------ MODULE Scheduler ------------------------------
(***************************************************************************)
(* packages/schedule: SchedulerService, SchedulerRegistry, SchedulerRunner,*)
(* the job definitions and their triggers, and the SchedulePlugin that     *)
(* starts and stops all jobs, together with Node's timers.                 *)
(*                                                                         *)
(* Time is relative, so that it need not be bounded: a trigger keeps the   *)
(* age of the moment it counts from and a timer keeps what is left of it.  *)
(* Ages beyond MaxAge are all alike: their execution time has passed.      *)
(* A job is asynchronous: it starts when its timer fires and ends later.   *)
(***************************************************************************)
EXTENDS Integers, FiniteSets

CONSTANTS
    Name,           \* job names
    Job,            \* JobDefinition objects; two may have the same name
    Def,            \* name, type, value and initiallyDisabled of every job
    Declared,       \* the jobs the generator finds in the decorators
    CronPeriod,     \* every cron job runs each CronPeriod units of time
    NoJob,
    Operations,     \* what the program calls at run time, a subset of UserOperations
    Updates,        \* the values passed to updateInterval, updateDate, updateTimeout
    StartDelay,     \* onStart runs at most this long after onRegister
    MaxRun,         \* an execution of a job lasts at most this long
    MaxDelay,       \* 2^31 - 1 ms: a longer setTimeout fires after 1 ms
    MaxTimers       \* bound on the timers and executions alive under one name

Types == {"cron", "interval", "date", "timeout"}
UserOperations == {"start", "stop", "remove", "update"}

ASSUME SchedulerAssumptions ==
    /\ Def \in [Job -> [name : Name, type : Types, value : Nat \ {0}, disabled : BOOLEAN]]
    /\ Declared \subseteq Job
    /\ \A j, k \in Declared : Def[j].name = Def[k].name => j = k
    /\ \A j \in Job : Def[j].type = "cron" => Def[j].value = CronPeriod
    /\ CronPeriod \in Nat \ {0}
    /\ Operations \subseteq UserOperations
    /\ IsFiniteSet(Job) /\ IsFiniteSet(Updates)
    /\ Updates \subseteq Nat \ {0}
    /\ NoJob \notin Job
    /\ {StartDelay, MaxRun} \subseteq Nat
    /\ {MaxDelay, MaxTimers} \subseteq Nat \ {0}

VARIABLES
    plugin,         \* SchedulePlugin: "registered", "started" or "stopped"
    jobs,           \* SchedulerRegistry.jobs
    runningJobs,    \* SchedulerRunner.runningJobs: the timer id, or 0
    enabledJobs,    \* SchedulerRunner.enabledJobs
    timers,         \* the timers Node holds
    executions,     \* the timer callbacks that await job.execute()
    value,          \* the interval, the timeout or the remaining time of each trigger
    ran,            \* the jobs with a lastExecutionTime
    age,            \* the age of the time a trigger counts from
    clock,          \* the time of day, modulo CronPeriod
    interrupted     \* history: the names stopped while an execution goes on

vars == <<plugin, jobs, runningJobs, enabledJobs, timers, executions, value, ran, age, clock,
          interrupted>>
runnerVars == <<runningJobs, enabledJobs, timers>>
triggerVars == <<value, ran, age, clock>>

NameOf(j) == Def[j].name
NamesOf(S) == {NameOf(x.job) : x \in S}
Values == {Def[j].value : j \in Job} \cup Updates
MaxAge == CHOOSE m \in Values : \A v \in Values : v <= m
Ids == 1 .. MaxTimers
Recurring(j) == Def[j].type \in {"cron", "interval"}

Init ==
    /\ plugin = "registered"
    /\ jobs = [n \in Name |-> IF \E j \in Declared : NameOf(j) = n
                              THEN CHOOSE j \in Declared : NameOf(j) = n ELSE NoJob]
    /\ runningJobs = [n \in Name |-> 0]
    /\ enabledJobs = {}
    /\ timers = {}
    /\ executions = {}
    /\ value = [j \in Job |-> Def[j].value]
    /\ ran = {}
    /\ age = [j \in Job |-> 0]
    /\ clock = 0
    /\ interrupted = {}

-----------------------------------------------------------------------------
(* getNextExecutionTime() - Date.now(), which is not positive when the time *)
(* has passed. A cron trigger answers the first instant after its base.    *)

NextIn(j) ==
    IF Def[j].type = "cron" THEN IF age[j] <= clock THEN CronPeriod - clock ELSE 0
                            ELSE value[j] - age[j]

\* Not the code: for the mutants.
SecondsForMilliseconds(j) == 1

\* What SchedulerRunner.schedule passes to setTimeout.
Delay(j) == NextIn(j)

TimerLeft(delay) == IF delay > MaxDelay THEN 1 ELSE delay

IdsIn(S, n) == {t.id : t \in {u \in S : NameOf(u.job) = n}}
Busy(n) == IdsIn(timers \cup executions, n) \cup {runningJobs[n]}
FreeId(busy) == CHOOSE i \in Ids \ busy : \A k \in Ids \ busy : i <= k

Schedulable(j) == NextIn(j) > 0

\* Not the code: for the mutants.
NeverRunning(n) == FALSE

\* SchedulerRunner.start on a set of jobs with different names.
IsRunning(n) == runningJobs[n] # 0
Start(js) ==
    LET starting == {j \in js : ~IsRunning(NameOf(j))}
        planned == {j \in starting : Schedulable(j)}
        id(n) == FreeId(Busy(n)) IN
    /\ \A j \in planned : Ids \ Busy(NameOf(j)) # {}
    /\ enabledJobs' = enabledJobs \cup {NameOf(j) : j \in starting}
    /\ timers' = timers \cup {[id |-> id(NameOf(j)), job |-> j, left |-> TimerLeft(Delay(j))] :
                                j \in planned}
    /\ runningJobs' = [n \in Name |-> IF \E j \in planned : NameOf(j) = n
                                      THEN id(n) ELSE runningJobs[n]]
    /\ UNCHANGED interrupted

\* Not the code: for the mutants.
TimersKept(ns) == timers

\* SchedulerRunner.stop: clearTimeout has no effect on a timer that has fired.
TimersLeft(ns) ==
    {t \in timers : NameOf(t.job) \in ns => t.id # runningJobs[NameOf(t.job)]}
Stop(ns) ==
    /\ enabledJobs' = enabledJobs \ ns
    /\ timers' = TimersLeft(ns)
    /\ runningJobs' = [n \in Name |-> IF n \in ns THEN 0 ELSE runningJobs[n]]
    /\ interrupted' = interrupted \cup (ns \cap NamesOf(executions))

RegisteredJobs == {jobs[n] : n \in Name} \ {NoJob}

-----------------------------------------------------------------------------
(* SchedulePlugin.onStart and onStop.                                      *)

PluginStart ==
    /\ plugin = "registered"
    /\ plugin' = "started"
    /\ Start({j \in RegisteredJobs : ~Def[j].disabled})
    /\ UNCHANGED <<jobs, executions, triggerVars>>

PluginStop ==
    /\ plugin = "started"
    /\ plugin' = "stopped"
    /\ Stop({NameOf(j) : j \in RegisteredJobs})
    /\ UNCHANGED <<jobs, executions, triggerVars>>

(* What the program may call while the plugin is started.                  *)

\* startJob(job) registers a job whose name is free; otherwise it starts the
\* job that is registered under the name.
StartJob(j) ==
    LET n == NameOf(j) IN
    /\ plugin = "started" /\ "start" \in Operations
    /\ jobs' = IF jobs[n] = NoJob THEN [jobs EXCEPT ![n] = j] ELSE jobs
    /\ Start({jobs'[n]})
    /\ UNCHANGED <<plugin, executions, triggerVars>>

StopJob(n) ==
    /\ plugin = "started" /\ "stop" \in Operations
    /\ jobs[n] # NoJob
    /\ Stop({n})
    /\ UNCHANGED <<plugin, jobs, executions, triggerVars>>

\* removeJob only touches the registry.
RemoveJob(n) ==
    /\ plugin = "started" /\ "remove" \in Operations
    /\ jobs[n] # NoJob
    /\ jobs' = [jobs EXCEPT ![n] = NoJob]
    /\ UNCHANGED <<plugin, runnerVars, executions, triggerVars, interrupted>>

\* updateInterval and its likes install a new trigger, created now. A job that
\* has run counts from its last execution, except for one-shot triggers. The
\* timer that is pending stays as it is.
UpdateTrigger(j, v) ==
    /\ plugin = "started" /\ "update" \in Operations
    /\ Def[j].type # "cron"
    /\ value' = [value EXCEPT ![j] = v]
    /\ age' = [age EXCEPT ![j] = IF Recurring(j) /\ j \in ran THEN @ ELSE 0]
    /\ UNCHANGED <<plugin, jobs, runnerVars, executions, ran, clock, interrupted>>

-----------------------------------------------------------------------------
(* Node's timers and the callback of SchedulerRunner.schedule.             *)

\* Not the code: for the mutants.
LastExecutionForgotten(j) == age[j]

AgeAfterRun(j) == IF Recurring(j) THEN 0 ELSE age[j]

\* The timer fires: job.execute() notes the time and runs up to its first await.
Fire(t) ==
    /\ t.left = 0
    /\ timers' = timers \ {t}
    /\ executions' = executions \cup {[id |-> t.id, job |-> t.job, since |-> 0]}
    /\ ran' = ran \cup {t.job}
    /\ age' = [age EXCEPT ![t.job] = AgeAfterRun(t.job)]
    /\ UNCHANGED <<plugin, jobs, runningJobs, enabledJobs, value, clock, interrupted>>

\* Not the code: for the mutants.
RescheduleAlways(e) == Schedulable(e.job)

Reschedule(e) == NameOf(e.job) \in enabledJobs /\ Schedulable(e.job)

EntryAfterRun(n) == 0

\* The job resolves or rejects; the finally block deletes the entry of the
\* job's name, whoever owns it, and schedules the next execution.
Finish(e) ==
    LET n == NameOf(e.job)
        id == FreeId(IdsIn(timers \cup (executions \ {e}), n)) IN
    /\ executions' = executions \ {e}
    /\ IF Reschedule(e)
       THEN /\ runningJobs' = [runningJobs EXCEPT ![n] = id]
            /\ timers' = timers \cup
                    {[id |-> id, job |-> e.job, left |-> TimerLeft(Delay(e.job))]}
       ELSE /\ runningJobs' = [runningJobs EXCEPT ![n] = EntryAfterRun(n)]
            /\ UNCHANGED timers
    \* Whatever went on while n was stopped is over when nothing is left of it.
    /\ interrupted' = interrupted \ ({n} \ NamesOf(timers' \cup executions'))
    /\ UNCHANGED <<plugin, jobs, enabledJobs, triggerVars>>

\* A unit of time passes. Timers fire on time, executions last MaxRun at most.
Tick ==
    /\ \A t \in timers : t.left > 0
    /\ \A e \in executions : e.since < MaxRun
    /\ plugin = "registered" => \A j \in Job : age[j] < StartDelay
    /\ timers' = {[t EXCEPT !.left = @ - 1] : t \in timers}
    /\ executions' = {[e EXCEPT !.since = @ + 1] : e \in executions}
    /\ age' = [j \in Job |-> IF age[j] < MaxAge THEN age[j] + 1 ELSE MaxAge]
    /\ clock' = (clock + 1) % CronPeriod
    /\ UNCHANGED <<plugin, jobs, runningJobs, enabledJobs, value, ran, interrupted>>

UserCall ==
    \/ \E j \in Job : StartJob(j)
    \/ \E j \in Job, v \in Updates : UpdateTrigger(j, v)
    \/ \E n \in Name : StopJob(n) \/ RemoveJob(n)

SomeFire == \E t \in timers : Fire(t)
SomeFinish == \E e \in executions : Finish(e)

Next == PluginStart \/ PluginStop \/ UserCall \/ SomeFire \/ SomeFinish \/ Tick

\* Time passes, Node fires its timers, and the program's jobs end.
Spec == Init /\ [][Next]_vars /\ WF_vars(Tick) /\ WF_vars(SomeFire) /\ WF_vars(SomeFinish)

-----------------------------------------------------------------------------
(* Properties.                                                             *)

Alive(n) == {x \in timers \cup executions : NameOf(x.job) = n}

\* A job has one timer or one execution, never two: executions do not overlap,
\* whatever is started, removed or updated, unless stopJob is called while the
\* job executes: startJob then sets a timer beside the one its end will set.
OneChainPerJob == \A n \in Name \ interrupted : Cardinality(Alive(n)) <= 1

\* With the same exception, a job that is not enabled has no timer: nothing
\* will run it again.
StoppedIsSilent == \A n \in Name \ (enabledJobs \cup interrupted) : IdsIn(timers, n) = {}

\* An enabled recurring job always has its next execution ahead of it.
EnabledKeepsRunning ==
    \A j \in RegisteredJobs :
        Recurring(j) /\ NameOf(j) \in enabledJobs => Alive(NameOf(j)) # {}

Begins(j) == \E e \in executions' \ executions : e.job = j /\ e.since = 0

\* A job never begins before the time its trigger gives: intervals keep their
\* distance and a date is not anticipated; and a timeout or date job runs at most
\* once. The exception is the same, for a job with two timers; and an update
\* leaves the timer of the old trigger pending.
OnTime ==
    \A j \in Job :
        NameOf(j) \notin interrupted /\ Begins(j) =>
            NextIn(j) <= 0 /\ (~Recurring(j) => j \notin ran)
=============================================================================
