--------------------------- MODULE SchedulerProofs ---------------------------
(* Proofs about Scheduler, for every set of jobs and names, two jobs of one *)
(* name included, every operation and every bound.                          *)
EXTENDS Scheduler, FiniteSetTheorems, WellFoundedInduction, TLAPS

-----------------------------------------------------------------------------
(* The inductive invariant.                                                *)

SchedulerTypeOK ==
    /\ plugin \in {"registered", "started", "stopped"}
    /\ jobs \in [Name -> Job \cup {NoJob}]
    /\ \A n \in Name : jobs[n] # NoJob => NameOf(jobs[n]) = n
    /\ runningJobs \in [Name -> Ids \cup {0}]
    /\ enabledJobs \subseteq Name
    /\ timers \subseteq [id : Ids, job : Job, left : Nat]
    /\ executions \subseteq [id : Ids, job : Job, since : Nat]
    /\ value \in [Job -> Nat \ {0}]
    /\ ran \subseteq Job
    /\ age \in [Job -> Nat]
    /\ clock \in 0 .. CronPeriod - 1
    /\ interrupted \subseteq Name

SameName(x, y) == NameOf(x.job) = NameOf(y.job)

\* An id stands for one timer of its name, from setTimeout to the end of the callback.
DistinctIds ==
    /\ \A x, y \in timers : SameName(x, y) /\ x.id = y.id => x = y
    /\ \A x, y \in executions : SameName(x, y) /\ x.id = y.id => x = y
    /\ \A x \in timers, y \in executions : SameName(x, y) => x.id # y.id

\* The runner tracks whatever is alive, unless the name was interrupted.
Tracked ==
    \A x \in timers \cup executions :
        NameOf(x.job) \notin interrupted => runningJobs[NameOf(x.job)] = x.id

TimersAreEnabled == \A t \in timers : NameOf(t.job) \in enabledJobs \cup interrupted

SchedulerInv == SchedulerTypeOK /\ DistinctIds /\ Tracked /\ TimersAreEnabled

-----------------------------------------------------------------------------
(* Natural numbers.                                                        *)

\* A set of natural numbers has a least one.
LEMMA LeastNatural ==
    ASSUME NEW S \in SUBSET Nat, S # {}
    PROVE  \E i \in S : \A j \in S : i <= j
<1>1. PICK i \in S : \A j \in S : <<j, i>> \notin OpToRel(<, Nat)
  BY NatLessThanWellFounded, WFMin, Zenon
<1>2. ASSUME NEW j \in S PROVE i <= j
  <2>1. CASE j < i
    <3>1. <<j, i>> \in OpToRel(<, Nat)
      BY <2>1 DEF OpToRel
    <3> QED BY <1>1, <3>1
  <2> QED BY <2>1
<1> QED BY <1>2

\* Finitely many natural numbers have an upper bound.
Bounded(S) == \E b \in Nat : \A v \in S : v <= b
LEMMA FiniteIsBounded ==
    ASSUME NEW S \in SUBSET Nat, IsFiniteSet(S)
    PROVE  Bounded(S)
<1> DEFINE Image(h, k) == {h[i] : i \in 1 .. k}
           U == {k \in Nat : \E h \in [1 .. k -> Nat] : ~Bounded(Image(h, k))}
<1>1. U = {}
  <2> SUFFICES ASSUME U # {} PROVE FALSE
    OBVIOUS
  <2>1. PICK n \in U : \A m \in U : n <= m
    BY LeastNatural
  <2>2. PICK f \in [1 .. n -> Nat] : ~Bounded(Image(f, n))
    BY <2>1
  <2>3. n > 0
    <3>1. n = 0 => Image(f, n) = {}
      OBVIOUS
    <3> QED BY <2>1, <2>2, <3>1 DEF Bounded
  <2> DEFINE g == [i \in 1 .. n - 1 |-> f[i]]
  <2>4. n - 1 \in Nat /\ n - 1 \notin U /\ g \in [1 .. n - 1 -> Nat] /\ f[n] \in Nat
    <3>1. n \in Nat /\ n - 1 \in Nat /\ ~(n <= n - 1) /\ n \in 1 .. n
      BY <2>1, <2>3
    <3>2. \A i \in 1 .. n - 1 : i \in 1 .. n
      BY <3>1
    <3>3. n - 1 \notin U
      BY <2>1, <3>1
    <3> QED BY <3>1, <3>2, <3>3
  <2>5. Bounded(Image(g, n - 1))
    BY <2>4
  <2>6. PICK b \in Nat : \A v \in Image(g, n - 1) : v <= b
    BY <2>5 DEF Bounded
  <2> DEFINE c == IF f[n] > b THEN f[n] ELSE b
  <2>7. c \in Nat /\ f[n] <= c /\ b <= c
    BY <2>4
  <2> HIDE DEF c
  <2>8. ASSUME NEW i \in 1 .. n PROVE f[i] <= c
    <3>1. CASE i = n
      BY <2>7, <3>1
    <3>2. CASE i # n
      <4>1. i \in 1 .. n - 1 /\ f[i] \in Nat
        BY <2>1, <3>2
      <4>2. g[i] = f[i] /\ g[i] \in Image(g, n - 1)
        BY <4>1
      <4>3. f[i] <= b
        BY <2>6, <4>2
      <4> QED BY <2>7, <4>1, <4>3
    <3> QED BY <3>1, <3>2
  <2> QED BY <2>2, <2>7, <2>8 DEF Bounded
<1>2. PICK n \in Nat : ExistsSurjection(1 .. n, S)
  BY FS_NatSurjection
<1>3. PICK f \in [1 .. n -> S] : \A v \in S : \E i \in 1 .. n : f[i] = v
  BY <1>2 DEF ExistsSurjection, Surjection
<1>4. f \in [1 .. n -> Nat] /\ n \notin U
  BY <1>1
<1>5. Bounded(Image(f, n)) /\ S = Image(f, n)
  BY <1>3, <1>4
<1> QED BY <1>5

\* A finite set of natural numbers has a greatest one.
LEMMA GreatestNatural ==
    ASSUME NEW S \in SUBSET Nat, S # {}, IsFiniteSet(S)
    PROVE  \E m \in S : \A v \in S : v <= m
<1>1. PICK b \in Nat : \A v \in S : v <= b
  BY FiniteIsBounded DEF Bounded
<1> DEFINE D == {d \in Nat : b - d \in S}
<1>2. D # {}
  <2>1. PICK v \in S : TRUE
    OBVIOUS
  <2>2. b - v \in Nat /\ b - (b - v) = v
    BY <1>1
  <2> QED BY <2>1, <2>2
<1>3. PICK d \in D : \A e \in D : d <= e
  BY <1>2, LeastNatural
<1>4. ASSUME NEW v \in S PROVE v <= b - d
  <2>1. b - v \in Nat /\ b - (b - v) = v
    BY <1>1
  <2>2. b - v \in D
    BY <2>1
  <2> QED BY <1>3, <2>1, <2>2
<1> QED BY <1>3, <1>4

\* Ages stop growing at a natural number that no value exceeds.
LEMMA MaxAgeBounds ==
    ASSUME NEW j \in Job
    PROVE  MaxAge \in Nat \ {0} /\ \A v \in Values : v <= MaxAge
<1>1. Values \subseteq Nat \ {0} /\ Def[j].value \in Values
  BY SchedulerAssumptions DEF Values
<1>2. IsFiniteSet(Values)
  <2> DEFINE ValueOf == [k \in Job |-> Def[k].value]
             Vs == {Def[k].value : k \in Job}
  <2>1. ValueOf \in Surjection(Job, Vs)
    BY DEF Surjection
  <2>2. IsFiniteSet(Vs)
    BY <2>1, SchedulerAssumptions, FS_Surjection
  <2> QED BY <2>2, SchedulerAssumptions, FS_Union DEF Values
<1>3. \E m \in Values : \A v \in Values : v <= m
  BY <1>1, <1>2, GreatestNatural
<1> QED BY <1>1, <1>3 DEF MaxAge

-----------------------------------------------------------------------------
(* The parts of the runner.                                                *)

\* The next id of a timer is one that no timer of the name has.
LEMMA FreeIdIsFree ==
    ASSUME NEW busy, Ids \ busy # {}
    PROVE  FreeId(busy) \in Ids \ busy
<1>1. Ids \ busy \subseteq Nat
  BY SchedulerAssumptions DEF Ids
<1>2. \E i \in Ids \ busy : \A k \in Ids \ busy : i <= k
  BY <1>1, LeastNatural
<1> QED BY <1>2 DEF FreeId

\* A job that is scheduled gets a timer with a natural number of units left.
LEMMA DelayType ==
    ASSUME SchedulerTypeOK, NEW j \in Job
    PROVE  /\ NextIn(j) \in Int
           /\ Schedulable(j) => TimerLeft(Delay(j)) \in Nat
<1>1. value[j] \in Nat /\ age[j] \in Nat /\ clock \in Nat /\ CronPeriod \in Nat /\ MaxDelay \in Nat
  BY SchedulerAssumptions DEF SchedulerTypeOK
<1>2. NextIn(j) \in Int
  BY <1>1 DEF NextIn
<1> QED BY <1>1, <1>2 DEF Schedulable, TimerLeft, Delay

\* start and startAll give a name that has no entry one timer, its own.
LEMMA StartKeepsInv ==
    ASSUME SchedulerInv, NEW js \in SUBSET Job,
           \A j, k \in js : NameOf(j) = NameOf(k) => j = k,
           Start(js), UNCHANGED executions
    PROVE  /\ enabledJobs' \subseteq Name
           /\ timers' \subseteq [id : Ids, job : Job, left : Nat]
           /\ runningJobs' \in [Name -> Ids \cup {0}]
           /\ DistinctIds' /\ Tracked' /\ TimersAreEnabled'
<1> DEFINE starting == {j \in js : ~IsRunning(NameOf(j))}
           planned == {j \in starting : Schedulable(j)}
           id(n) == FreeId(Busy(n))
           timer(j) == [id |-> id(NameOf(j)), job |-> j, left |-> TimerLeft(Delay(j))]
<1> USE DEF SchedulerInv, SchedulerTypeOK
<1>1. /\ \A j \in planned : Ids \ Busy(NameOf(j)) # {}
      /\ enabledJobs' = enabledJobs \cup {NameOf(j) : j \in starting}
      /\ timers' = timers \cup {timer(j) : j \in planned}
      /\ runningJobs' = [n \in Name |-> IF \E j \in planned : NameOf(j) = n
                                         THEN id(n) ELSE runningJobs[n]]
      /\ interrupted' = interrupted
  BY DEF Start
<1>2. ASSUME NEW j \in Job PROVE NameOf(j) \in Name
  BY SchedulerAssumptions DEF NameOf
<1>3. ASSUME NEW j \in planned
      PROVE  /\ id(NameOf(j)) \in Ids \ Busy(NameOf(j))
             /\ timer(j) \in [id : Ids, job : Job, left : Nat]
             /\ runningJobs'[NameOf(j)] = timer(j).id
  BY <1>1, <1>2, FreeIdIsFree, DelayType
<1>4. enabledJobs' \subseteq Name
  BY <1>1, <1>2
<1>5. timers' \subseteq [id : Ids, job : Job, left : Nat]
  <2>1. \A j \in planned : timer(j) \in [id : Ids, job : Job, left : Nat]
    BY <1>3
  <2> HIDE DEF timer, planned
  <2> QED BY <1>1, <2>1
<1>6. runningJobs' \in [Name -> Ids \cup {0}]
  <2>1. ASSUME NEW n \in Name, \E j \in planned : NameOf(j) = n PROVE id(n) \in Ids
    BY <1>3, <2>1
  <2> QED BY <1>1, <2>1
<1>7. ASSUME NEW j \in planned, NEW x \in timers \cup executions, NameOf(x.job) = NameOf(j)
      PROVE  x.id # timer(j).id
  <2>1. x.id \in Busy(NameOf(j))
    BY <1>7 DEF Busy, IdsIn
  <2>2. timer(j).id = id(NameOf(j)) /\ id(NameOf(j)) \notin Busy(NameOf(j))
    BY <1>3
  <2> QED BY <2>1, <2>2
<1>8. DistinctIds'
  <2>1. ASSUME NEW x \in timers', NEW y \in timers', SameName(x, y), x.id = y.id PROVE x = y
    BY <1>1, <1>7, <2>1 DEF DistinctIds, SameName
  <2>2. ASSUME NEW x \in timers', NEW y \in executions, SameName(x, y) PROVE x.id # y.id
    BY <1>1, <1>7, <2>2 DEF DistinctIds, SameName
  <2> QED BY <2>1, <2>2 DEF DistinctIds, SameName
<1>9. Tracked'
  <2> SUFFICES ASSUME NEW x \in timers' \cup executions, NameOf(x.job) \notin interrupted
               PROVE  runningJobs'[NameOf(x.job)] = x.id
    BY <1>1 DEF Tracked
  <2>1. CASE x \in timers \cup executions
    <3>1. runningJobs[NameOf(x.job)] = x.id /\ x.id \in Ids /\ NameOf(x.job) \in Name
      BY <1>2, <2>1 DEF Tracked
    <3>2. x.id # 0
      BY <3>1, SchedulerAssumptions DEF Ids
    <3>3. ~\E j \in planned : NameOf(j) = NameOf(x.job)
      BY <3>1, <3>2 DEF IsRunning
    <3> QED BY <1>1, <3>1, <3>3
  <2>2. CASE x \in {timer(j) : j \in planned}
    BY <1>3, <2>2
  <2> QED BY <1>1, <2>1, <2>2
<1>10. TimersAreEnabled'
  BY <1>1 DEF TimersAreEnabled
<1> QED BY <1>4, <1>5, <1>6, <1>8, <1>9, <1>10

\* stop and stopAll clear the timer of every name that is not interrupted.
LEMMA StopKeepsInv ==
    ASSUME SchedulerInv, NEW ns \in SUBSET Name, Stop(ns), UNCHANGED executions
    PROVE  /\ enabledJobs' \subseteq Name /\ interrupted' \subseteq Name
           /\ timers' \subseteq timers
           /\ runningJobs' \in [Name -> Ids \cup {0}]
           /\ DistinctIds' /\ Tracked' /\ TimersAreEnabled'
<1> USE DEF SchedulerInv, SchedulerTypeOK
<1>1. /\ enabledJobs' = enabledJobs \ ns
      /\ timers' = TimersLeft(ns) /\ timers' \subseteq timers
      /\ runningJobs' = [n \in Name |-> IF n \in ns THEN 0 ELSE runningJobs[n]]
      /\ interrupted' = interrupted \cup (ns \cap NamesOf(executions))
  BY DEF Stop, TimersLeft
<1>2. ASSUME NEW x \in timers' \cup executions, NameOf(x.job) \notin interrupted'
      PROVE  NameOf(x.job) \in Name \ ns
  <2>1. NameOf(x.job) \in Name
    BY <1>1, SchedulerAssumptions DEF NameOf
  <2>2. CASE x \in executions
    BY <1>1, <1>2, <2>1, <2>2 DEF NamesOf
  <2>3. CASE x \in timers'
    BY <1>1, <1>2, <2>1, <2>3 DEF Tracked, TimersLeft
  <2> QED BY <2>2, <2>3
<1>3. DistinctIds'
  BY <1>1 DEF DistinctIds
<1>4. Tracked'
  BY <1>1, <1>2 DEF Tracked
<1>5. TimersAreEnabled'
  BY <1>1, <1>2 DEF TimersAreEnabled
<1> QED BY <1>1, <1>3, <1>4, <1>5

\* Every timer and every execution is of a job with a name.
LEMMA NamesAreNames ==
    ASSUME NEW j \in Job
    PROVE  NameOf(j) \in Name
BY SchedulerAssumptions DEF NameOf

\* A timer that fires hands its id to the execution of its callback.
LEMMA FireKeepsInv ==
    ASSUME SchedulerInv, NEW t \in timers, Fire(t)
    PROVE  SchedulerInv'
<1> USE DEF SchedulerInv, SchedulerTypeOK
<1> DEFINE e == [id |-> t.id, job |-> t.job, since |-> 0]
<1>1. /\ timers' = timers \ {t} /\ executions' = executions \cup {e}
      /\ ran' = ran \cup {t.job} /\ age' = [age EXCEPT ![t.job] = AgeAfterRun(t.job)]
      /\ UNCHANGED <<plugin, jobs, runningJobs, enabledJobs, value, clock, interrupted>>
  BY DEF Fire
<1>2. t.id \in Ids /\ t.job \in Job /\ e \in [id : Ids, job : Job, since : Nat]
      /\ e.id = t.id /\ e.job = t.job
  OBVIOUS
<1> HIDE DEF e
<1>3. age' \in [Job -> Nat]
  BY <1>1, <1>2 DEF AgeAfterRun
<1>4. DistinctIds'
  <2>1. ASSUME NEW x \in executions, SameName(x, t) PROVE x.id # t.id
    BY <2>1 DEF DistinctIds, SameName
  <2>2. ASSUME NEW x \in timers', SameName(x, t) PROVE x.id # t.id
    BY <1>1, <2>2 DEF DistinctIds
  <2>3. ASSUME NEW x \in executions', NEW y \in executions', SameName(x, y), x.id = y.id
        PROVE  x = y
    BY <1>1, <1>2, <2>1, <2>3 DEF DistinctIds, SameName
  <2>4. ASSUME NEW x \in timers', NEW y \in executions', SameName(x, y) PROVE x.id # y.id
    BY <1>1, <1>2, <2>2, <2>4 DEF DistinctIds, SameName
  <2>5. \A x, y \in timers' : SameName(x, y) /\ x.id = y.id => x = y
    BY <1>1 DEF DistinctIds
  <2> QED BY <2>3, <2>4, <2>5 DEF DistinctIds, SameName
<1>5. Tracked'
  BY <1>1, <1>2 DEF Tracked
<1>6. TimersAreEnabled'
  BY <1>1 DEF TimersAreEnabled
<1> QED BY <1>1, <1>2, <1>3, <1>4, <1>5, <1>6

\* The end of an execution: unless the name was interrupted, it was the only one.
LEMMA FinishKeepsInv ==
    ASSUME SchedulerInv, NEW e \in executions, Finish(e)
    PROVE  SchedulerInv'
<1> USE DEF SchedulerInv, SchedulerTypeOK
<1> DEFINE n == NameOf(e.job)
           rest == timers \cup (executions \ {e})
           id == FreeId(IdsIn(rest, n))
           t == [id |-> id, job |-> e.job, left |-> TimerLeft(Delay(e.job))]
<1>1. /\ executions' = executions \ {e}
      /\ interrupted' = interrupted \ ({n} \ NamesOf(timers' \cup executions'))
      /\ UNCHANGED <<plugin, jobs, enabledJobs, triggerVars>>
  BY DEF Finish
<1>2. e.job \in Job /\ e.id \in Ids /\ n \in Name
  BY NamesAreNames
<1>3. id \in Ids \ IdsIn(rest, n)
  <2>1. e.id \notin IdsIn(rest, n)
    BY DEF IdsIn, DistinctIds, SameName
  <2> QED BY <1>2, <2>1, FreeIdIsFree
<1>4. ASSUME NEW x \in rest, NameOf(x.job) = n
      PROVE  n \in interrupted /\ x.id # id
  <2>1. x.id # e.id
    BY <1>4 DEF DistinctIds, SameName
  <2>2. n \in interrupted
    BY <1>4, <2>1 DEF Tracked
  <2>3. x.id \in IdsIn(rest, n)
    BY <1>4 DEF IdsIn
  <2> QED BY <1>3, <2>2, <2>3
<1>5. ASSUME NEW m \in Name, m \notin interrupted', m \in interrupted
      PROVE  m = n /\ \A x \in timers' \cup executions' : NameOf(x.job) # m
  BY <1>1, <1>5 DEF NamesOf
<1>6. CASE Reschedule(e)
  <2>1. /\ runningJobs' = [runningJobs EXCEPT ![n] = id]
        /\ timers' = timers \cup {t}
    BY <1>6 DEF Finish
  <2>2. t \in [id : Ids, job : Job, left : Nat] /\ t.id = id /\ t.job = e.job
    BY <1>2, <1>3, <1>6, DelayType DEF Reschedule
  <2>3. n \in enabledJobs
    BY <1>6 DEF Reschedule
  <2> HIDE DEF t
  <2>4. runningJobs' \in [Name -> Ids \cup {0}] /\ timers' \subseteq [id : Ids, job : Job, left : Nat]
    BY <1>3, <2>1, <2>2
  <2>5. DistinctIds'
    <3>1. ASSUME NEW x \in timers', NEW y \in timers', SameName(x, y), x.id = y.id PROVE x = y
      BY <1>4, <2>1, <2>2, <3>1 DEF DistinctIds, SameName
    <3>2. ASSUME NEW x \in timers', NEW y \in executions', SameName(x, y) PROVE x.id # y.id
      BY <1>1, <1>4, <2>1, <2>2, <3>2 DEF DistinctIds, SameName
    <3>3. \A x, y \in executions' : SameName(x, y) /\ x.id = y.id => x = y
      BY <1>1 DEF DistinctIds
    <3> QED BY <3>1, <3>2, <3>3 DEF DistinctIds, SameName
  <2>6. Tracked'
    <3> SUFFICES ASSUME NEW x \in timers' \cup executions', NameOf(x.job) \notin interrupted'
                 PROVE  runningJobs'[NameOf(x.job)] = x.id
      BY DEF Tracked
    <3>1. NameOf(x.job) \in Name /\ NameOf(x.job) \notin interrupted
      BY <1>1, <1>5, <2>4, NamesAreNames
    <3>2. CASE x = t
      BY <1>2, <2>1, <2>2, <3>2
    <3>3. CASE x \in rest
      BY <1>4, <2>1, <3>1, <3>3 DEF Tracked
    <3> QED BY <1>1, <2>1, <3>2, <3>3
  <2>7. TimersAreEnabled'
    <3> SUFFICES ASSUME NEW x \in timers', NameOf(x.job) \notin interrupted'
                 PROVE  NameOf(x.job) \in enabledJobs
      BY <1>1 DEF TimersAreEnabled
    <3>1. NameOf(x.job) \in Name /\ NameOf(x.job) \notin interrupted
      BY <1>5, <2>4, NamesAreNames
    <3> QED BY <2>1, <2>2, <2>3, <3>1 DEF TimersAreEnabled
  <2> QED BY <1>1, <2>4, <2>5, <2>6, <2>7 DEF triggerVars
<1>7. CASE ~Reschedule(e)
  <2>1. runningJobs' = [runningJobs EXCEPT ![n] = 0] /\ timers' = timers
    BY <1>7 DEF Finish, EntryAfterRun
  <2>2. DistinctIds'
    BY <1>1, <2>1 DEF DistinctIds
  <2>3. Tracked'
    <3> SUFFICES ASSUME NEW x \in rest, NameOf(x.job) \notin interrupted'
                 PROVE  runningJobs'[NameOf(x.job)] = x.id
      BY <1>1, <2>1 DEF Tracked
    <3>1. NameOf(x.job) \in Name /\ NameOf(x.job) \notin interrupted
      BY <1>1, <1>5, <2>1, NamesAreNames
    <3> QED BY <1>4, <2>1, <3>1 DEF Tracked
  <2>4. TimersAreEnabled'
    <3> SUFFICES ASSUME NEW x \in timers, NameOf(x.job) \notin interrupted'
                 PROVE  NameOf(x.job) \in enabledJobs
      BY <1>1, <2>1 DEF TimersAreEnabled
    <3>1. NameOf(x.job) \in Name /\ NameOf(x.job) \notin interrupted
      BY <1>5, <2>1, NamesAreNames
    <3> QED BY <3>1 DEF TimersAreEnabled
  <2> QED BY <1>1, <2>1, <2>2, <2>3, <2>4 DEF triggerVars
<1> QED BY <1>6, <1>7

\* Time passes for all timers and executions alike.
LEMMA TickKeepsInv ==
    ASSUME SchedulerInv, Tick
    PROVE  SchedulerInv'
<1> USE DEF SchedulerInv, SchedulerTypeOK
<1>1. /\ \A t \in timers : t.left > 0
      /\ timers' = {[t EXCEPT !.left = @ - 1] : t \in timers}
      /\ executions' = {[e EXCEPT !.since = @ + 1] : e \in executions}
      /\ age' = [j \in Job |-> IF age[j] < MaxAge THEN age[j] + 1 ELSE MaxAge]
      /\ clock' = (clock + 1) % CronPeriod
      /\ UNCHANGED <<plugin, jobs, runningJobs, enabledJobs, value, ran, interrupted>>
  BY DEF Tick
<1>2. \A x \in timers' : \E t \in timers :
        /\ x = [id |-> t.id, job |-> t.job, left |-> t.left - 1]
        /\ x.id = t.id /\ x.job = t.job
        /\ x \in [id : Ids, job : Job, left : Nat]
  BY <1>1
<1>3. \A x \in executions' : \E e \in executions :
        /\ x = [id |-> e.id, job |-> e.job, since |-> e.since + 1]
        /\ x.id = e.id /\ x.job = e.job
        /\ x \in [id : Ids, job : Job, since : Nat]
  BY <1>1
<1>4. age' \in [Job -> Nat] /\ clock' \in 0 .. CronPeriod - 1
  <2>1. ASSUME NEW j \in Job PROVE age'[j] \in Nat
    BY <1>1, MaxAgeBounds
  <2>2. clock \in Nat /\ CronPeriod \in Nat \ {0}
    BY SchedulerAssumptions
  <2> QED BY <1>1, <2>1, <2>2
<1>5. DistinctIds'
  <2>1. ASSUME NEW x \in timers', NEW y \in timers', SameName(x, y), x.id = y.id PROVE x = y
    BY <1>2, <2>1 DEF DistinctIds, SameName
  <2>2. ASSUME NEW x \in executions', NEW y \in executions', SameName(x, y), x.id = y.id
        PROVE  x = y
    BY <1>3, <2>2 DEF DistinctIds, SameName
  <2>3. ASSUME NEW x \in timers', NEW y \in executions', SameName(x, y) PROVE x.id # y.id
    BY <1>2, <1>3, <2>3 DEF DistinctIds, SameName
  <2> QED BY <2>1, <2>2, <2>3 DEF DistinctIds, SameName
<1>6. Tracked' /\ TimersAreEnabled'
  BY <1>1, <1>2, <1>3 DEF Tracked, TimersAreEnabled
<1> QED BY <1>1, <1>2, <1>3, <1>4, <1>5, <1>6

-----------------------------------------------------------------------------
(* The invariant and what follows from it.                                 *)

LEMMA InitInv == Init => SchedulerInv
<1> SUFFICES ASSUME Init PROVE SchedulerInv
  OBVIOUS
<1> USE DEF Init
<1>1. jobs \in [Name -> Job \cup {NoJob}] /\ \A n \in Name : jobs[n] # NoJob => NameOf(jobs[n]) = n
  BY SchedulerAssumptions
<1>2. value \in [Job -> Nat \ {0}] /\ clock \in 0 .. CronPeriod - 1
  BY SchedulerAssumptions
<1>3. runningJobs \in [Name -> Ids \cup {0}] /\ age \in [Job -> Nat]
  OBVIOUS
<1> QED BY <1>1, <1>2, <1>3
        DEF SchedulerInv, SchedulerTypeOK, DistinctIds, Tracked, TimersAreEnabled

LEMMA NextKeepsInv ==
    ASSUME SchedulerInv, [Next]_vars
    PROVE  SchedulerInv'
<1> USE DEF SchedulerInv, SchedulerTypeOK
<1>1. CASE PluginStart
  <2> DEFINE js == {j \in RegisteredJobs : ~Def[j].disabled}
  <2>1. Start(js) /\ plugin' = "started" /\ UNCHANGED <<jobs, executions, value, ran, age, clock>>
    BY <1>1 DEF PluginStart, triggerVars
  <2>2. js \subseteq Job /\ \A j, k \in js : NameOf(j) = NameOf(k) => j = k
    BY DEF RegisteredJobs
  <2>3. UNCHANGED interrupted
    BY <2>1 DEF Start
  <2> QED BY <2>1, <2>2, <2>3, StartKeepsInv
<1>2. CASE PluginStop
  <2> DEFINE ns == {NameOf(j) : j \in RegisteredJobs}
  <2>1. Stop(ns) /\ plugin' = "stopped" /\ UNCHANGED <<jobs, executions, value, ran, age, clock>>
    BY <1>2 DEF PluginStop, triggerVars
  <2>2. ns \subseteq Name
    BY NamesAreNames DEF RegisteredJobs
  <2> QED BY <2>1, <2>2, StopKeepsInv
<1>3. ASSUME NEW j \in Job, StartJob(j) PROVE SchedulerInv'
  <2>1. NameOf(j) \in Name
    BY NamesAreNames
  <2>2. /\ jobs' = IF jobs[NameOf(j)] = NoJob THEN [jobs EXCEPT ![NameOf(j)] = j] ELSE jobs
        /\ Start({jobs'[NameOf(j)]})
        /\ UNCHANGED <<plugin, executions, value, ran, age, clock>>
    BY <1>3 DEF StartJob, triggerVars
  <2>3. /\ jobs' \in [Name -> Job \cup {NoJob}] /\ jobs'[NameOf(j)] \in Job
        /\ \A n \in Name : jobs'[n] # NoJob => NameOf(jobs'[n]) = n
    BY <2>1, <2>2, SchedulerAssumptions
  <2>4. UNCHANGED interrupted
    BY <2>2 DEF Start
  <2> QED BY <2>2, <2>3, <2>4, StartKeepsInv
<1>4. ASSUME NEW j \in Job, NEW v \in Updates, UpdateTrigger(j, v) PROVE SchedulerInv'
  <2>1. /\ value' = [value EXCEPT ![j] = v]
        /\ age' = [age EXCEPT ![j] = IF Recurring(j) /\ j \in ran THEN @ ELSE 0]
        /\ UNCHANGED <<plugin, jobs, runningJobs, enabledJobs, timers, executions, ran, clock,
                       interrupted>>
    BY <1>4 DEF UpdateTrigger, runnerVars
  <2>2. value' \in [Job -> Nat \ {0}] /\ age' \in [Job -> Nat]
    BY <2>1, SchedulerAssumptions
  <2> QED BY <2>1, <2>2 DEF DistinctIds, Tracked, TimersAreEnabled
<1>5. ASSUME NEW n \in Name, StopJob(n) PROVE SchedulerInv'
  <2>1. Stop({n}) /\ UNCHANGED <<plugin, jobs, executions, value, ran, age, clock>>
    BY <1>5 DEF StopJob, triggerVars
  <2> QED BY <2>1, StopKeepsInv
<1>6. ASSUME NEW n \in Name, RemoveJob(n) PROVE SchedulerInv'
  BY <1>6 DEF RemoveJob, runnerVars, triggerVars, DistinctIds, Tracked, TimersAreEnabled
<1>7. CASE UNCHANGED vars
  BY <1>7 DEF vars, DistinctIds, Tracked, TimersAreEnabled
<1> QED BY <1>1, <1>2, <1>3, <1>4, <1>5, <1>6, <1>7, FireKeepsInv, FinishKeepsInv, TickKeepsInv
        DEF Next, UserCall, SomeFire, SomeFinish

\* The runner's entries stand for the timers and the executions they are named
\* for, whatever is started, stopped, removed and updated. (SchedulerRunner.)
THEOREM RunnerCorrect == Spec => []SchedulerInv
<1>1. SchedulerInv /\ [Next]_vars => SchedulerInv'
  BY NextKeepsInv
<1> QED BY InitInv, <1>1, PTL DEF Spec

\* One timer or execution for a name that was not interrupted.
LEMMA OneIsAlive ==
    ASSUME SchedulerInv, NEW n \in Name \ interrupted,
           NEW x \in Alive(n), NEW y \in Alive(n)
    PROVE  x = y
BY DEF SchedulerInv, DistinctIds, Tracked, Alive, SameName

\* A job has one timer or one execution, never two, unless it was stopped while
\* it executed. (SchedulerRunner.start, stop and the callback of schedule.)
THEOREM OneChainCorrect == Spec => []OneChainPerJob
<1>1. SchedulerInv => OneChainPerJob
  <2> SUFFICES ASSUME SchedulerInv, NEW n \in Name \ interrupted
               PROVE  Cardinality(Alive(n)) <= 1
    BY DEF OneChainPerJob
  <2>1. CASE Alive(n) = {}
    BY <2>1, FS_EmptySet
  <2>2. CASE Alive(n) # {}
    <3>1. PICK x : x \in Alive(n)
      BY <2>2
    <3>2. Alive(n) = {x}
      BY <3>1, OneIsAlive
    <3> QED BY <3>2, FS_Singleton
  <2> QED BY <2>1, <2>2
<1> QED BY RunnerCorrect, <1>1, PTL

\* With the same exception, nothing will run a job that is not enabled.
\* (SchedulerRunner.stop and stopAll.)
THEOREM SilentCorrect == Spec => []StoppedIsSilent
<1>1. SchedulerInv => StoppedIsSilent
  BY DEF SchedulerInv, TimersAreEnabled, StoppedIsSilent, IdsIn
<1> QED BY RunnerCorrect, <1>1, PTL

-----------------------------------------------------------------------------
(* Nothing fires early.                                                    *)

\* What OnTime needs of the constants: triggers are not replaced while a timer
\* is pending, and every delay fits in the 31 bits of setTimeout.
Punctual == "update" \notin Operations /\ \A j \in Job : Def[j].value <= MaxDelay

\* A timer never has less left than its trigger asks for, and a one-shot job
\* that has run has its time behind it.
NotEarly ==
    /\ \A j \in Job : value[j] = Def[j].value /\ age[j] <= MaxAge
    /\ \A j \in ran : Recurring(j) \/ NextIn(j) <= 0
    /\ \A t \in timers :
        (Recurring(t.job) /\ NameOf(t.job) \in interrupted) \/ NextIn(t.job) <= t.left
    /\ \A t \in timers :
        Recurring(t.job) \/ NameOf(t.job) \in interrupted \/ t.job \notin ran

\* A job that is scheduled gets a timer of the length its trigger asks for.
LEMMA DelayIsKept ==
    ASSUME SchedulerTypeOK, Punctual, NotEarly, NEW j \in Job, Schedulable(j)
    PROVE  TimerLeft(Delay(j)) = NextIn(j)
<1>1. value[j] = Def[j].value /\ value[j] \in Nat /\ value[j] <= MaxDelay /\ MaxDelay \in Nat
      /\ age[j] \in Nat /\ clock \in Nat /\ CronPeriod \in Nat
      /\ (Def[j].type = "cron" => value[j] = CronPeriod)
  BY SchedulerAssumptions DEF SchedulerTypeOK, NotEarly, Punctual
<1>2. NextIn(j) <= MaxDelay
  BY <1>1 DEF NextIn
<1> QED BY <1>1, <1>2, DelayType DEF TimerLeft, Delay

\* A unit of time brings every trigger one unit closer to its time.
LEMMA TimePasses ==
    ASSUME SchedulerTypeOK, NotEarly, Tick, NEW j \in Job
    PROVE  /\ value' = value /\ age'[j] <= MaxAge
           /\ NextIn(j)' <= IF NextIn(j) > 0 THEN NextIn(j) - 1 ELSE 0
<1>1. /\ age' = [k \in Job |-> IF age[k] < MaxAge THEN age[k] + 1 ELSE MaxAge]
      /\ clock' = (clock + 1) % CronPeriod
      /\ value' = value
  BY DEF Tick
<1>2. /\ value[j] \in Nat \ {0} /\ value[j] <= MaxAge /\ MaxAge \in Nat \ {0}
      /\ age[j] \in Nat /\ age[j] <= MaxAge
      /\ (Def[j].type = "cron" => value[j] = CronPeriod)
  BY SchedulerAssumptions, MaxAgeBounds DEF SchedulerTypeOK, NotEarly, Values
<1>3. age'[j] = IF age[j] < MaxAge THEN age[j] + 1 ELSE MaxAge
  BY <1>1
<1>4. /\ clock \in Nat /\ clock < CronPeriod /\ CronPeriod \in Nat \ {0}
      /\ clock' = IF clock + 1 = CronPeriod THEN 0 ELSE clock + 1
  <2>1. clock \in Nat /\ clock < CronPeriod /\ CronPeriod \in Nat \ {0}
    BY SchedulerAssumptions DEF SchedulerTypeOK
  <2>2. CASE clock + 1 = CronPeriod
    BY <1>1, <2>1, <2>2
  <2>3. CASE clock + 1 < CronPeriod
    BY <1>1, <2>1, <2>3
  <2> QED BY <2>1, <2>2, <2>3
<1>5. CASE Def[j].type = "cron"
  <2>1. NextIn(j) = IF age[j] <= clock THEN CronPeriod - clock ELSE 0
    BY <1>5 DEF NextIn
  <2>2. NextIn(j)' = IF age'[j] <= clock' THEN CronPeriod - clock' ELSE 0
    BY <1>5 DEF NextIn
  <2>3. value' = value /\ age'[j] \in Nat \ {0} /\ age'[j] <= MaxAge
    BY <1>1, <1>2, <1>3
  <2>4. CronPeriod <= MaxAge
    BY <1>2, <1>5
  <2>5. CASE clock + 1 = CronPeriod
    <3>1. clock' = 0
      BY <1>4, <2>5
    <3>2. NextIn(j)' = 0
      BY <2>2, <2>3, <3>1
    <3>3. NextIn(j) \in Int
      BY <1>4, <2>1
    <3> QED BY <2>3, <3>2, <3>3
  <2>6. CASE clock + 1 < CronPeriod
    <3>1. clock' = clock + 1
      BY <1>4, <2>6
    <3>2. CASE age[j] <= clock
      <4>1. age'[j] <= clock + 1
        BY <1>2, <1>3, <1>4, <3>2
      <4>2. NextIn(j) = CronPeriod - clock
        BY <2>1, <3>2
      <4>3. NextIn(j)' = CronPeriod - (clock + 1)
        BY <2>2, <3>1, <4>1
      <4> QED BY <1>4, <2>3, <2>6, <4>2, <4>3
    <3>3. CASE age[j] > clock
      <4>1. age'[j] > clock + 1
        BY <1>2, <1>3, <1>4, <2>4, <2>6, <3>3
      <4>2. NextIn(j) = 0
        BY <1>2, <1>4, <2>1, <3>3
      <4>3. NextIn(j)' = 0
        BY <1>4, <2>2, <2>3, <3>1, <4>1
      <4> QED BY <2>3, <4>2, <4>3
    <3> QED BY <1>2, <1>4, <3>2, <3>3
  <2> QED BY <1>4, <2>5, <2>6
<1>6. CASE Def[j].type # "cron"
  <2>1. NextIn(j) = value[j] - age[j] /\ NextIn(j)' = value[j] - age'[j]
    BY <1>1, <1>6 DEF NextIn
  <2> QED BY <1>1, <1>2, <1>3, <2>1
<1> QED BY <1>5, <1>6

\* Where time stands still and no name becomes free of its interruption with a
\* timer left, it is enough that new timers are not early.
LEMMA NewTimersAreNotEarly ==
    ASSUME SchedulerTypeOK, NotEarly, UNCHANGED triggerVars,
           \A t \in timers' :
                \/ t \in timers /\ (NameOf(t.job) \in interrupted => NameOf(t.job) \in interrupted')
                \/ /\ t.job \in Job /\ Schedulable(t.job) /\ NextIn(t.job) = t.left
    PROVE  NotEarly'
<1>1. value' = value /\ age' = age /\ ran' = ran /\ clock' = clock
  BY DEF triggerVars
<1>2. ASSUME NEW j \in Job PROVE NextIn(j)' = NextIn(j) /\ NextIn(j) \in Int
  BY <1>1, DelayType DEF NextIn
<1>3. \A t \in timers : t.job \in Job /\ t.left \in Nat
  BY DEF SchedulerTypeOK
<1>4. ran \subseteq Job
  BY DEF SchedulerTypeOK
<1>5. \A j \in ran : Recurring(j) \/ NextIn(j)' <= 0
  BY <1>2, <1>4 DEF NotEarly
<1>6. ASSUME NEW t \in timers'
      PROVE  /\ (Recurring(t.job) /\ NameOf(t.job) \in interrupted') \/ NextIn(t.job)' <= t.left
             /\ Recurring(t.job) \/ NameOf(t.job) \in interrupted' \/ t.job \notin ran
  <2>1. CASE t \in timers /\ (NameOf(t.job) \in interrupted => NameOf(t.job) \in interrupted')
    BY <1>2, <1>3, <2>1 DEF NotEarly
  <2>2. CASE t.job \in Job /\ Schedulable(t.job) /\ NextIn(t.job) = t.left
    BY <1>2, <1>5, <2>2 DEF Schedulable
  <2> QED BY <1>6, <2>1, <2>2
<1> QED BY <1>1, <1>5, <1>6 DEF NotEarly

\* The timers that start sets are as long as their triggers ask for.
LEMMA StartIsNotEarly ==
    ASSUME SchedulerTypeOK, Punctual, NotEarly, NEW js \in SUBSET Job,
           Start(js), UNCHANGED triggerVars
    PROVE  NotEarly'
<1> DEFINE planned == {j \in js : ~IsRunning(NameOf(j)) /\ Schedulable(j)}
           timer(j) == [id |-> FreeId(Busy(NameOf(j))), job |-> j, left |-> TimerLeft(Delay(j))]
<1>1. timers' = timers \cup {timer(j) : j \in planned} /\ interrupted' = interrupted
  BY DEF Start
<1>2. ASSUME NEW j \in planned
      PROVE  timer(j).job \in Job /\ Schedulable(timer(j).job) /\ NextIn(timer(j).job) = timer(j).left
  BY DelayIsKept
<1> HIDE DEF timer, planned
<1>3. \A t \in timers' :
        \/ t \in timers /\ (NameOf(t.job) \in interrupted => NameOf(t.job) \in interrupted')
        \/ t.job \in Job /\ Schedulable(t.job) /\ NextIn(t.job) = t.left
  BY <1>1, <1>2
<1> QED BY <1>3, NewTimersAreNotEarly

\* So are those that the end of an execution sets.
LEMMA FinishIsNotEarly ==
    ASSUME SchedulerTypeOK, Punctual, NotEarly, NEW e \in executions, Finish(e)
    PROVE  NotEarly'
<1> DEFINE id == FreeId(IdsIn(timers \cup (executions \ {e}), NameOf(e.job)))
           t == [id |-> id, job |-> e.job, left |-> TimerLeft(Delay(e.job))]
<1>1. /\ interrupted' = interrupted \ ({NameOf(e.job)} \ NamesOf(timers' \cup executions'))
      /\ UNCHANGED triggerVars
      /\ IF Reschedule(e) THEN timers' = timers \cup {t} ELSE timers' = timers
  BY DEF Finish
<1>2. Reschedule(e) => t.job \in Job /\ Schedulable(t.job) /\ NextIn(t.job) = t.left
  BY DelayIsKept DEF SchedulerTypeOK, Reschedule
<1> HIDE DEF t
<1>3. \A x \in timers' :
        \/ x \in timers /\ (NameOf(x.job) \in interrupted => NameOf(x.job) \in interrupted')
        \/ x.job \in Job /\ Schedulable(x.job) /\ NextIn(x.job) = x.left
  BY <1>1, <1>2 DEF NamesOf
<1> QED BY <1>1, <1>3, NewTimersAreNotEarly

\* A job that fires counts anew from this moment, and has no other timer.
LEMMA FireIsNotEarly ==
    ASSUME SchedulerInv, NotEarly, NEW t \in timers, Fire(t)
    PROVE  NotEarly'
<1>1. /\ t.left = 0 /\ timers' = timers \ {t}
      /\ ran' = ran \cup {t.job} /\ age' = [age EXCEPT ![t.job] = AgeAfterRun(t.job)]
      /\ UNCHANGED <<value, clock, interrupted>>
  BY DEF Fire
<1>2. t.job \in Job /\ ran \subseteq Job /\ age \in [Job -> Nat]
      /\ \A u \in timers : u.job \in Job /\ u.left \in Nat
  BY DEF SchedulerInv, SchedulerTypeOK
<1>3. ASSUME NEW j \in Job, ~Recurring(j) \/ j # t.job PROVE NextIn(j)' = NextIn(j)
  BY <1>1, <1>2, <1>3 DEF NextIn, AgeAfterRun
<1>4. ASSUME NEW j \in Job PROVE value'[j] = Def[j].value /\ age'[j] <= MaxAge
  <2>1. age[j] \in Nat /\ age[j] <= MaxAge /\ MaxAge \in Nat
    BY <1>2, MaxAgeBounds DEF NotEarly
  <2> QED BY <1>1, <1>2, <2>1 DEF NotEarly, AgeAfterRun
<1>5. ASSUME NEW u \in timers', u.job = t.job PROVE NameOf(u.job) \in interrupted
  BY <1>1, <1>2, <1>5, NamesAreNames, OneIsAlive DEF Alive
<1>6. ~Recurring(t.job) => NextIn(t.job)' <= 0
  BY <1>1, <1>2, <1>3 DEF NotEarly
<1>7. \A j \in ran' : Recurring(j) \/ NextIn(j)' <= 0
  BY <1>1, <1>2, <1>3, <1>6 DEF NotEarly
<1>8. ASSUME NEW u \in timers'
      PROVE  /\ (Recurring(u.job) /\ NameOf(u.job) \in interrupted') \/ NextIn(u.job)' <= u.left
             /\ Recurring(u.job) \/ NameOf(u.job) \in interrupted' \/ u.job \notin ran'
  <2>1. CASE u.job = t.job
    BY <1>1, <1>2, <1>3, <1>5, <2>1 DEF NotEarly
  <2>2. CASE u.job # t.job
    BY <1>1, <1>2, <1>3, <2>2 DEF NotEarly
  <2> QED BY <2>1, <2>2
<1> QED BY <1>4, <1>7, <1>8 DEF NotEarly

LEMMA TickIsNotEarly ==
    ASSUME SchedulerTypeOK, NotEarly, Tick
    PROVE  NotEarly'
<1>1. /\ \A t \in timers : t.left > 0
      /\ timers' = {[t EXCEPT !.left = @ - 1] : t \in timers}
      /\ UNCHANGED <<ran, interrupted>>
  BY DEF Tick
<1>2. /\ ran \subseteq Job
      /\ \A t \in timers : t.job \in Job /\ t.left \in Nat
  BY DEF SchedulerTypeOK
<1>3. \A x \in timers' : \E t \in timers : x.job = t.job /\ x.left = t.left - 1
  BY <1>1 DEF SchedulerTypeOK
<1>4. ASSUME NEW j \in Job
      PROVE  NextIn(j) \in Int /\ NextIn(j)' \in Int
             /\ NextIn(j)' <= IF NextIn(j) > 0 THEN NextIn(j) - 1 ELSE 0
  <2>1. clock' \in Nat /\ age'[j] \in Nat /\ value'[j] \in Nat
    <3>1. value' = value /\ clock' = (clock + 1) % CronPeriod
          /\ age'[j] = IF age[j] < MaxAge THEN age[j] + 1 ELSE MaxAge
      BY DEF Tick
    <3>2. clock \in Nat /\ CronPeriod \in Nat \ {0} /\ age[j] \in Nat /\ MaxAge \in Nat
      BY SchedulerAssumptions, MaxAgeBounds DEF SchedulerTypeOK
    <3> QED BY <3>1, <3>2 DEF SchedulerTypeOK
  <2>2. NextIn(j)' \in Int
    BY <2>1, SchedulerAssumptions DEF NextIn
  <2> QED BY <2>2, DelayType, TimePasses
<1>5. \A j \in ran' : Recurring(j) \/ NextIn(j)' <= 0
  BY <1>1, <1>2, <1>4 DEF NotEarly
<1>6. ASSUME NEW x \in timers'
      PROVE  /\ (Recurring(x.job) /\ NameOf(x.job) \in interrupted') \/ NextIn(x.job)' <= x.left
             /\ Recurring(x.job) \/ NameOf(x.job) \in interrupted' \/ x.job \notin ran'
  <2>1. PICK t \in timers : x.job = t.job /\ x.left = t.left - 1
    BY <1>3
  <2>2. (Recurring(t.job) /\ NameOf(t.job) \in interrupted) \/ NextIn(t.job) <= t.left
    BY DEF NotEarly
  <2>3. NextIn(t.job) <= t.left => NextIn(t.job)' <= t.left - 1
    BY <1>1, <1>2, <1>4
  <2> QED BY <1>1, <2>1, <2>2, <2>3 DEF NotEarly
<1>7. \A j \in Job : value'[j] = Def[j].value /\ age'[j] <= MaxAge
  BY TimePasses DEF NotEarly
<1> QED BY <1>5, <1>6, <1>7 DEF NotEarly

LEMMA NextIsNotEarly ==
    ASSUME SchedulerInv, Punctual, NotEarly, [Next]_vars
    PROVE  NotEarly'
<1> USE DEF SchedulerInv
<1>1. CASE PluginStart
  <2>1. {j \in RegisteredJobs : ~Def[j].disabled} \subseteq Job
    BY DEF RegisteredJobs, SchedulerTypeOK
  <2> QED BY <1>1, <2>1, StartIsNotEarly DEF PluginStart
<1>2. ASSUME NEW ns \in SUBSET Name, Stop(ns), UNCHANGED triggerVars PROVE NotEarly'
  BY <1>2, NewTimersAreNotEarly DEF Stop, TimersLeft
<1>3. CASE PluginStop
  <2>1. {NameOf(j) : j \in RegisteredJobs} \subseteq Name
    BY NamesAreNames DEF RegisteredJobs, SchedulerTypeOK
  <2> QED BY <1>2, <1>3, <2>1 DEF PluginStop
<1>4. ASSUME NEW j \in Job, StartJob(j) PROVE NotEarly'
  <2>1. jobs'[NameOf(j)] \in Job
    BY <1>4, NamesAreNames, SchedulerAssumptions DEF StartJob, SchedulerTypeOK
  <2> QED BY <1>4, <2>1, StartIsNotEarly DEF StartJob
<1>5. ASSUME NEW j \in Job, NEW v \in Updates, UpdateTrigger(j, v) PROVE NotEarly'
  BY <1>5 DEF UpdateTrigger, Punctual
<1>6. ASSUME NEW n \in Name, StopJob(n) PROVE NotEarly'
  BY <1>2, <1>6 DEF StopJob
<1>7. ASSUME NEW n \in Name, RemoveJob(n) PROVE NotEarly'
  BY <1>7, NewTimersAreNotEarly DEF RemoveJob, runnerVars
<1>8. CASE UNCHANGED vars
  BY <1>8, NewTimersAreNotEarly DEF vars, triggerVars
<1> QED BY <1>1, <1>3, <1>4, <1>5, <1>6, <1>7, <1>8, FireIsNotEarly, FinishIsNotEarly, TickIsNotEarly
        DEF Next, UserCall, SomeFire, SomeFinish

\* No job begins before the time its trigger gives, and a one-shot job begins
\* once, with the exception of OneChainPerJob. (JobTrigger.getNextExecutionTime,
\* JobDefinition.execute, SchedulerRunner.schedule.)
THEOREM OnTimeCorrect ==
    ASSUME Punctual
    PROVE  Spec => [][OnTime]_vars
<1>1. Init => NotEarly
  <2> SUFFICES ASSUME Init PROVE NotEarly
    OBVIOUS
  <2>1. \A j \in Job : age[j] = 0 /\ MaxAge \in Nat
    BY MaxAgeBounds DEF Init
  <2> QED BY <2>1 DEF Init, NotEarly
<1>2. SchedulerInv /\ NotEarly /\ [Next]_vars => NotEarly'
  BY NextIsNotEarly
<1>3. SchedulerInv /\ NotEarly /\ [Next]_vars => [OnTime]_vars
  <2> SUFFICES ASSUME SchedulerInv, NotEarly, Next, NEW j \in Job, NameOf(j) \notin interrupted,
                      NEW e \in executions' \ executions, e.job = j, e.since = 0
               PROVE  NextIn(j) <= 0 /\ (~Recurring(j) => j \notin ran)
    BY DEF OnTime, Begins
  <2>1. \A x \in executions' : x.since = 0 => x \in executions \/ SomeFire
    <3>1. CASE Tick
      BY <3>1 DEF Tick, SchedulerInv, SchedulerTypeOK
    <3>2. CASE SomeFinish
      BY <3>2 DEF SomeFinish, Finish
    <3> QED BY <3>1, <3>2 DEF Next, UserCall, PluginStart, PluginStop, StartJob, StopJob,
                               RemoveJob, UpdateTrigger
  <2>2. PICK t \in timers : Fire(t)
    BY <2>1 DEF SomeFire
  <2>3. t.left = 0 /\ j = t.job
    BY <2>2 DEF Fire
  <2> QED BY <2>3 DEF NotEarly
<1> QED BY <1>1, <1>2, <1>3, RunnerCorrect, PTL DEF Spec
=============================================================================
