---------------------------- MODULE MCScheduler ----------------------------
(***************************************************************************)
(* Scheduler twice: with every operation of its API on two jobs of one     *)
(* name (Api), and with one job of each kind and executions shorter than   *)
(* every interval (Kinds). A behaviour is one of the two, and component    *)
(* says which. The constants of the cfg hold the names and jobs of both,   *)
(* so that the invariants of Scheduler can be read in either.              *)
(***************************************************************************)
EXTENDS Scheduler

CONSTANTS Components, tick, poll, once, spare, late

VARIABLE component

allVars == <<component, vars>>

Given(n, t, v, d) == [name |-> n, type |-> t, value |-> v, disabled |-> d]

\* A cron job, an interval job, a timeout job and a disabled date job; and a
\* timeout job with the name of the interval job.
KindsJobs == {tick, poll, once, late}
ApiJobs == {poll, spare}
AllJobs == KindsJobs \cup ApiJobs
AllDef ==
    [j \in AllJobs |-> CASE j = tick -> Given("tick", "cron", 3, FALSE)
                         [] j = poll -> Given("poll", "interval", 2, FALSE)
                         [] j = once -> Given("once", "timeout", 2, FALSE)
                         [] j = late -> Given("late", "date", 4, TRUE)
                         [] j = spare -> Given("poll", "timeout", 2, FALSE)]
AllNames == {AllDef[j].name : j \in AllJobs}
KindsNames == AllNames
KindsDef == [j \in KindsJobs |-> AllDef[j]]
ApiNames == {"poll"}
ApiDef == [j \in ApiJobs |-> AllDef[j]]

Api == INSTANCE Scheduler WITH
    Name <- ApiNames, Job <- ApiJobs, Def <- ApiDef, Declared <- {poll},
    CronPeriod <- 1, Updates <- {1}, StartDelay <- 0, MaxRun <- 2

Kinds == INSTANCE Scheduler WITH
    Name <- KindsNames, Job <- KindsJobs, Def <- KindsDef,
    Operations <- {"stop"}, MaxTimers <- 2

MCInit ==
    /\ component \in Components
    /\ IF component = "api" THEN Api!Init ELSE Kinds!Init

Of(name, A) == component = name /\ A /\ UNCHANGED component

MCNext == Of("api", Api!Next) \/ Of("kinds", Kinds!Next)

\* The fairness of Scheduler, of both.
MCFairness ==
    /\ WF_allVars(Of("api", Api!Tick)) /\ WF_allVars(Of("api", Api!SomeFire))
    /\ WF_allVars(Of("api", Api!SomeFinish))
    /\ WF_allVars(Of("kinds", Kinds!Tick)) /\ WF_allVars(Of("kinds", Kinds!SomeFire))
    /\ WF_allVars(Of("kinds", Kinds!SomeFinish))

MCSpec == MCInit /\ [][MCNext]_allVars /\ MCFairness

-----------------------------------------------------------------------------
(* Properties. OneChainPerJob and StoppedIsSilent are Scheduler's and hold *)
(* of both.                                                                *)

\* Once the plugin has stopped, every name that is registered falls silent for
\* good, whatever was started and stopped before and even if timers went
\* untracked. (SchedulerRunner.stopAll and schedule; the timer of a job that
\* removeJob took away goes on.)
RunsDry ==
    \A n \in ApiNames :
        component = "api" /\ plugin = "stopped" /\ jobs[n] # NoJob
            ~> [](component = "api" /\ Api!Alive(n) = {})

\* Every kind of job fires at its time, and a one-shot job once (OnTime).
KindsFireOnTime == [][component = "kinds" => Kinds!OnTime]_allVars

\* An enabled recurring job runs again and again until it is stopped: each
\* execution schedules the next one (SchedulerRunner.schedule).
Recurs ==
    \A j \in {tick, poll} :
        component = "kinds" /\ Kinds!NameOf(j) \in enabledJobs ~>
            Kinds!NameOf(j) \notin enabledJobs \/ \E e \in executions : e.job = j /\ e.since = 0
=============================================================================
