--------------------------- MODULE SchedulerProofs ---------------------------
(***************************************************************************)
(* What holds of scheduled tasks for any table, any number of runs and any *)
(* other work in the queue.                                                *)
(***************************************************************************)
EXTENDS Scheduler, ExecutionQueueProofs

TableInv ==
  /\ rows \in [Sched -> Content \cup {None}]
  /\ active \subseteq {s \in Sched : rows[s] # None}
  /\ created \in 0 .. MaxSched
  /\ jobs \in [Sched -> 0 .. 2]
  /\ crons \subseteq Cron
  /\ unread \subseteq Sched
  /\ edits \in 0 .. MaxEdit

CronInv ==
  /\ \A k \in crons : jobs[k.sched] = k.slot
  /\ \A s \in Sched \ unread :
       {k.content : k \in {c \in crons : c.sched = s}} =
         IF Startable(rows, active, s) THEN {rows[s]} ELSE {}

RunTypeOK ==
  /\ nfire \in 0 .. MaxFire
  /\ run \in [Fire -> {"idle", "first", "pause", "second", "telling", "over"}]
  /\ told \in [Fire -> {None, "result", "failure"}]
  /\ job \in [1 .. MaxTask -> 0 .. MaxFire]
  /\ expired \subseteq 1 .. MaxTask
  /\ working \subseteq 1 .. MaxTask

(* A run that waits has a latest task; before it asks again it has one.    *)
Latest(i) == \A j \in i + 1 .. seq : job[j] # job[i]

AskedInv ==
  /\ \A j \in 1 .. MaxTask : j > seq => job[j] = 0
  /\ \A i \in 1 .. MaxTask : job[i] <= nfire
  /\ \A f \in Fire : f > nfire => run[f] = "idle"
  /\ \A f \in Fire : Waiting(f) => \E i \in 1 .. seq : job[i] = f /\ Latest(i)
  /\ \A f \in Fire : run[f] = "first" =>
       \A i, j \in 1 .. seq : job[i] = f /\ job[j] = f => i = j

(* A task that is wanted and in time is the one its run waits for.         *)
AwaitInv ==
  \A t \in Wanted : job[t.id] # 0 /\ t.id \notin expired =>
    Waiting(job[t.id]) /\ Latest(t.id)

(* A run has one task in the queue or alive, and none when it pauses.      *)
ApartInv ==
  /\ \A f \in Fire : run[f] = "pause" => \A t \in Pool : job[t.id] # f
  /\ \A s, t \in Pool : job[s.id] # 0 /\ job[s.id] = job[t.id] => s = t

SchedInv ==
  /\ IInv /\ PoolInv
  /\ TableInv /\ CronInv
  /\ RunTypeOK /\ AskedInv /\ AwaitInv /\ ApartInv

----------------------------------------------------------------------------
(* The table and the Cron objects *)

(* startJob for some schedules: the others keep what they have.            *)
LEMMA StartJobsInv ==
  ASSUME TableInv, CronInv, NEW S \in SUBSET Sched, StartJobs(S, rows', active'),
         rows' \in [Sched -> Content \cup {None}],
         active' \subseteq {s \in Sched : rows'[s] # None},
         \A s \in Sched \ S : rows'[s] = rows[s] /\ (s \in active' <=> s \in active)
  PROVE  /\ jobs' \in [Sched -> 0 .. 2] /\ crons' \subseteq Cron /\ unread' \subseteq Sched
         /\ CronInv'
PROOF
<1> DEFINE kept == StopJobs(S)
           begun == {s \in S : Startable(rows', active', s)}
<1>1. kept = {k \in crons : k.sched \notin S}
  BY DEF StopJobs, CronInv, TableInv
<1>2. \A s \in S : FreeSlot(s, kept) = 1
  BY <1>1 DEF FreeSlot
<1>3. /\ jobs' = [s \in Sched |-> IF s \in begun THEN FreeSlot(s, kept)
                                  ELSE IF s \in S THEN 0 ELSE jobs[s]]
      /\ crons' = kept \cup {[sched |-> s, slot |-> FreeSlot(s, kept), content |-> rows'[s]] :
                             s \in begun}
      /\ unread' = unread \ S
  BY DEF StartJobs
<1>4. begun \subseteq S /\ \A s \in begun : rows'[s] \in Content
  BY DEF Startable
<1> HIDE DEF kept
<1>5. /\ jobs' = [s \in Sched |-> IF s \in begun THEN 1 ELSE IF s \in S THEN 0 ELSE jobs[s]]
      /\ crons' = kept \cup {[sched |-> s, slot |-> 1, content |-> rows'[s]] : s \in begun}
  BY <1>2, <1>3, <1>4
<1> HIDE DEF begun
<1>6. jobs' \in [Sched -> 0 .. 2] /\ unread' \subseteq Sched
  BY <1>3, <1>5 DEF TableInv
<1>7. \A s \in begun : [sched |-> s, slot |-> 1, content |-> rows'[s]] \in Cron
  BY <1>4 DEF Cron
<1>8. crons' \subseteq Cron
  BY <1>1, <1>5, <1>7 DEF TableInv
<1>9. ASSUME NEW k \in crons'
      PROVE  jobs'[k.sched] = k.slot
  <2>1. CASE k \in kept
    <3>1. k \in crons /\ k.sched \notin S /\ k.sched \in Sched
      BY <1>1, <2>1 DEF TableInv, Cron
    <3> QED
      BY <1>4, <1>5, <3>1 DEF CronInv
  <2>2. CASE \E s \in begun : k = [sched |-> s, slot |-> 1, content |-> rows'[s]]
    BY <1>4, <1>5, <2>2
  <2> QED
    BY <1>5, <1>9, <2>1, <2>2
<1>10. ASSUME NEW s \in Sched \ unread'
       PROVE  {k.content : k \in {c \in crons' : c.sched = s}} =
                IF Startable(rows', active', s) THEN {rows'[s]} ELSE {}
  <2>1. CASE s \in S
    <3>1. {c \in crons' : c.sched = s} =
            IF s \in begun THEN {[sched |-> s, slot |-> 1, content |-> rows'[s]]} ELSE {}
      BY <1>1, <1>5, <2>1
    <3>2. s \in begun <=> Startable(rows', active', s)
      BY <2>1 DEF begun
    <3> DEFINE x == [sched |-> s, slot |-> 1, content |-> rows'[s]]
    <3>3. x.content = rows'[s]
      OBVIOUS
    <3> HIDE DEF x
    <3>4. CASE s \in begun
      <4>1. {c \in crons' : c.sched = s} = {x}
        BY <3>1, <3>4 DEF x
      <4>2. {k.content : k \in {c \in crons' : c.sched = s}} = {rows'[s]}
        BY <3>3, <4>1
      <4> QED
        BY <3>2, <3>4, <4>2
    <3>5. CASE s \notin begun
      <4>1. {k.content : k \in {c \in crons' : c.sched = s}} = {}
        BY <3>1, <3>5
      <4> QED
        BY <3>2, <3>5, <4>1
    <3> QED
      BY <3>4, <3>5
  <2>2. CASE s \notin S
    <3>1. {c \in crons' : c.sched = s} = {c \in crons : c.sched = s}
      BY <1>1, <1>4, <1>5, <2>2
    <3>2. rows'[s] = rows[s] /\ (Startable(rows', active', s) <=> Startable(rows, active, s))
      BY <2>2 DEF Startable
    <3>3. s \in Sched \ unread
      BY <1>3, <2>2
    <3> QED
      BY <3>1, <3>2, <3>3 DEF CronInv
  <2> QED
    BY <2>1, <2>2
<1>11. CronInv'
  BY <1>9, <1>10 DEF CronInv
<1> QED
  BY <1>6, <1>8, <1>11

(* The edits of this process: what is edited is started anew. *)
LEMMA EditInv ==
  ASSUME TableInv, CronInv,
         \/ \E c \in Content : AddSchedule(c)
         \/ \E s \in Sched, c \in Content : UpdateSchedule(s, c)
         \/ \E s \in Sched : RemoveSchedule(s) \/ Toggle(s)
         \/ Reload
  PROVE  TableInv' /\ CronInv'
PROOF
<1>0. edits' \in 0 .. MaxEdit
  <2>1. Edit
    BY DEF AddSchedule, UpdateSchedule, RemoveSchedule, Reload, Toggle
  <2> QED
    BY <2>1, SchedulerAssumption DEF Edit, TableInv
<1>n. \A c \in Content : c # None
  BY SchedulerAssumption
<1>1. ASSUME NEW c \in Content, AddSchedule(c)
      PROVE  TableInv' /\ CronInv'
  <2>1. created + 1 \in Sched /\ created' \in 0 .. MaxSched
    BY <1>1, SchedulerAssumption DEF AddSchedule, TableInv, Sched
  <2>2. rows' = [rows EXCEPT ![created + 1] = c] /\ active' = active \cup {created + 1}
        /\ StartJobs({created + 1}, rows', active')
    BY <1>1 DEF AddSchedule, Insert, Table
  <2>3. /\ rows' \in [Sched -> Content \cup {None}]
        /\ active' \subseteq {t \in Sched : rows'[t] # None}
        /\ \A t \in Sched \ {created + 1} :
             rows'[t] = rows[t] /\ (t \in active' <=> t \in active)
    BY <1>n, <2>1, <2>2 DEF TableInv
  <2> QED
    BY <1>0, <2>1, <2>2, <2>3, StartJobsInv DEF TableInv
<1>2. ASSUME NEW s \in Sched, NEW c \in Content, UpdateSchedule(s, c)
      PROVE  TableInv' /\ CronInv'
  <2>1. rows' = [rows EXCEPT ![s] = c] /\ active' = active /\ created' = created
        /\ StartJobs({s}, rows', active')
    BY <1>2 DEF UpdateSchedule, Table
  <2>2. /\ rows' \in [Sched -> Content \cup {None}]
        /\ active' \subseteq {t \in Sched : rows'[t] # None}
        /\ \A t \in Sched \ {s} : rows'[t] = rows[t] /\ (t \in active' <=> t \in active)
    BY <1>n, <2>1 DEF TableInv
  <2> QED
    BY <1>0, <2>1, <2>2, StartJobsInv DEF TableInv
<1>3. ASSUME NEW s \in Sched, RemoveSchedule(s)
      PROVE  TableInv' /\ CronInv'
  <2>1. rows' = [rows EXCEPT ![s] = None] /\ active' = active \ {s} /\ created' = created
        /\ StartJobs({s}, rows', active')
    BY <1>3 DEF RemoveSchedule, Table
  <2>2. /\ rows' \in [Sched -> Content \cup {None}]
        /\ active' \subseteq {t \in Sched : rows'[t] # None}
        /\ \A t \in Sched \ {s} : rows'[t] = rows[t] /\ (t \in active' <=> t \in active)
    BY <2>1 DEF TableInv
  <2> QED
    BY <1>0, <2>1, <2>2, StartJobsInv DEF TableInv
<1>4. ASSUME NEW s \in Sched, Toggle(s)
      PROVE  TableInv' /\ CronInv'
  <2>1. /\ rows' = rows /\ created' = created /\ StartJobs(Sched, rows', active')
        /\ active' \subseteq active \cup {s} /\ rows[s] # None
    BY <1>4 DEF Toggle, Table
  <2>2. /\ rows' \in [Sched -> Content \cup {None}]
        /\ active' \subseteq {t \in Sched : rows'[t] # None}
    BY <2>1 DEF TableInv
  <2> QED
    BY <1>0, <2>1, <2>2, StartJobsInv DEF TableInv
<1>5. CASE Reload
  <2>1. /\ rows' = rows /\ active' = active /\ created' = created
        /\ StartJobs(Sched, rows', active')
    BY <1>5 DEF Reload
  <2> QED
    BY <1>0, <2>1, StartJobsInv DEF TableInv
<1> QED
  BY <1>1, <1>2, <1>3, <1>4, <1>5

(* The edits of scheduler-cli: what is edited is not read yet. *)
LEMMA CliInv ==
  ASSUME TableInv, CronInv,
         \/ \E c \in Content : CliAdds(c)
         \/ \E s \in Sched, c \in Content : CliUpdates(s, c)
         \/ \E s \in Sched : CliRemoves(s)
  PROVE  TableInv' /\ CronInv'
PROOF
<1>0. edits' \in 0 .. MaxEdit
  <2>1. Edit
    BY DEF CliAdds, CliUpdates, CliRemoves
  <2> QED
    BY <2>1, SchedulerAssumption DEF Edit, TableInv
<1>n. \A c \in Content : c # None
  BY SchedulerAssumption
<1>1. ASSUME NEW r \in Sched, unread' = unread \cup {r}, UNCHANGED <<jobs, crons>>,
             rows' \in [Sched -> Content \cup {None}],
             active' \subseteq {t \in Sched : rows'[t] # None}, created' \in 0 .. MaxSched,
             \A t \in Sched \ {r} : rows'[t] = rows[t] /\ (t \in active' <=> t \in active)
      PROVE  TableInv' /\ CronInv'
  BY <1>0, <1>1 DEF TableInv, CronInv, Startable
<1>2. ASSUME NEW c \in Content, CliAdds(c)
      PROVE  TableInv' /\ CronInv'
  <2>1. created + 1 \in Sched /\ created' \in 0 .. MaxSched
    BY <1>2, SchedulerAssumption DEF CliAdds, TableInv, Sched
  <2>2. rows' = [rows EXCEPT ![created + 1] = c] /\ active' = active \cup {created + 1}
        /\ unread' = unread \cup {created + 1} /\ UNCHANGED <<jobs, crons>>
    BY <1>2 DEF CliAdds, Insert, Table
  <2> QED
    BY <1>1, <1>n, <2>1, <2>2 DEF TableInv
<1>3. ASSUME NEW s \in Sched, NEW c \in Content, CliUpdates(s, c)
      PROVE  TableInv' /\ CronInv'
  BY <1>1, <1>3, <1>n DEF CliUpdates, Table, TableInv
<1>4. ASSUME NEW s \in Sched, CliRemoves(s)
      PROVE  TableInv' /\ CronInv'
  BY <1>1, <1>4 DEF CliRemoves, Table, TableInv
<1> QED
  BY <1>2, <1>3, <1>4

----------------------------------------------------------------------------
(* The runs *)

(* The latest task of a run is the one that TaskOf chooses. *)
LEMMA TaskOfLatest ==
  ASSUME seq \in Nat, NEW f, NEW i \in 1 .. seq, job[i] = f, Latest(i)
  PROVE  TaskOf(f) = i
PROOF
<1> DEFINE P(j) == job[j] = f /\ \A k \in j + 1 .. seq : job[k] # f
<1>1. P(i)
  BY DEF Latest
<1>2. ASSUME NEW j \in 1 .. seq, P(j)
      PROVE  j = i
  <2>1. ~ (j < i)
    <3>1. j < i => i \in j + 1 .. seq
      OBVIOUS
    <3> QED
      BY <1>1, <1>2, <3>1
  <2>2. ~ (i < j)
    <3>1. i < j => j \in i + 1 .. seq
      OBVIOUS
    <3> QED
      BY <1>1, <1>2, <3>1
  <2> QED
    BY <2>1, <2>2
<1>3. TaskOf(f) = CHOOSE j \in 1 .. seq : P(j)
  BY DEF TaskOf
<1> HIDE DEF P
<1> QED
  BY <1>1, <1>2, <1>3

RunsInv == RunTypeOK /\ AskedInv /\ AwaitInv /\ ApartInv

(* The queue goes on by itself, or is told to drop what it has. *)
LEMMA ShrinkKeepsRuns ==
  ASSUME IInv, RunsInv, Shrinks, working' \subseteq 1 .. MaxTask,
         UNCHANGED <<runVars, job, expired>>
  PROVE  RunsInv'
PROOF
<1>1. RunTypeOK' /\ AskedInv'
  BY DEF RunsInv, RunTypeOK, AskedInv, Shrinks, runVars, Waiting, Latest
<1>2. AwaitInv'
  BY DEF RunsInv, AwaitInv, Shrinks, runVars, Waiting, Latest
<1>3. ApartInv'
  BY DEF RunsInv, ApartInv, Shrinks, runVars
<1> QED
  BY <1>1, <1>2, <1>3 DEF RunsInv

(* A run asks, for the first time or for the second: no task of its own is *)
(* left, so that the new one is its only one.                              *)
LEMMA AskKeepsRuns ==
  ASSUME IInv, PoolInv, RunsInv, NEW f \in Fire, NEW r \in {"first", "second"},
         Ask(f), run' = [run EXCEPT ![f] = r],
         nfire' \in 0 .. MaxFire, nfire <= nfire', f <= nfire', told' = told,
         ~ Waiting(f), \A t \in Pool : job[t.id] # f,
         r = "first" => \A i \in 1 .. MaxTask : job[i] # f
  PROVE  IInv' /\ PoolInv' /\ RunsInv'
PROOF
<1> USE DEF RunsInv
<1>1. /\ job' = [job EXCEPT ![seq + 1] = f] /\ Enqueue(Owner, 2) /\ expired' = expired
      /\ working' = working \cup {t.id : t \in {b \in live' \ live : StillWanted(b)}}
  BY DEF Ask, StartBodies
<1>2. Owner \in User /\ 2 \in Weight
  BY SchedulerAssumption DEF Weight
<1>3. IInv' /\ PoolInv' /\ seq' = seq + 1 /\ seq \in Nat /\ seq' \in 1 .. MaxTask
  BY <1>1, <1>2, EnqueueGrows
<1>4. PICK t \in Task : /\ t.id = seq + 1
                        /\ Pool' = Pool \cup {t} /\ Wanted' = Wanted \cup {t}
                        /\ live' \subseteq live \cup {t}
  BY <1>1, <1>2, EnqueueGrows
<1>5. f # 0 /\ f \in 0 .. MaxFire /\ f \in Nat /\ MaxFire \in Nat
  BY SchedulerAssumption DEF Fire
<1>6. \A i \in 1 .. MaxTask : job'[i] = IF i = seq + 1 THEN f ELSE job[i]
  BY <1>1 DEF RunTypeOK
<1>7. \A g \in Fire : run'[g] = IF g = f THEN r ELSE run[g]
  BY DEF RunTypeOK
<1>8. \A g \in Fire : run'[g] \in {"first", "second"} <=> g = f \/ Waiting(g)
  BY <1>7 DEF Waiting
<1>9. 1 .. seq \subseteq 1 .. MaxTask /\ \A i \in 1 .. seq' : i = seq + 1 \/ i \in 1 .. seq
  BY <1>3, MaxTaskAssumption
<1>10. RunTypeOK'
  <2>1. working' \subseteq 1 .. MaxTask
    <3>1. \A b \in live' : b.id \in 1 .. MaxTask
      BY <1>3, TaskFields DEF IInv, TypeOK
    <3> QED
      BY <1>1, <3>1 DEF RunTypeOK
  <2> QED
    BY <1>1, <1>5, <2>1 DEF RunTypeOK
(* Who is not the new task is the latest of its run still. *)
<1>11. ASSUME NEW i \in 1 .. seq, job[i] # f, Latest(i)
       PROVE  Latest(i)' /\ job'[i] = job[i]
  <2>1. job'[i] = job[i]
    BY <1>3, <1>6, <1>9
  <2>2. ASSUME NEW j \in i + 1 .. seq'
        PROVE  job'[j] # job[i]
    <3>1. j \in 1 .. MaxTask /\ (j = seq + 1 \/ j \in i + 1 .. seq)
      BY <1>3, MaxTaskAssumption
    <3> QED
      BY <1>6, <1>11, <3>1 DEF Latest
  <2> QED
    BY <2>1, <2>2 DEF Latest
<1>12. t.id \in 1 .. seq' /\ job'[t.id] = f /\ Latest(t.id)'
  BY <1>3, <1>4, <1>6 DEF Latest
<1>13. AskedInv'
  <2>1. \A j \in 1 .. MaxTask : j > seq' => job'[j] = 0
    BY <1>3, <1>6 DEF AskedInv
  <2>2. \A i \in 1 .. MaxTask : job'[i] <= nfire'
    BY <1>5, <1>6 DEF AskedInv, RunTypeOK
  <2>3. \A g \in Fire : g > nfire' => run'[g] = "idle"
    BY <1>5, <1>7 DEF AskedInv, RunTypeOK, Fire
  <2>4. ASSUME NEW g \in Fire, run'[g] \in {"first", "second"}
        PROVE  \E i \in 1 .. seq' : job'[i] = g /\ Latest(i)'
    <3>1. CASE g = f
      BY <1>12, <3>1
    <3>2. CASE g # f
      <4>1. PICK i \in 1 .. seq : job[i] = g /\ Latest(i)
        BY <1>8, <2>4, <3>2 DEF AskedInv
      <4>2. i \in 1 .. seq' /\ job'[i] = g /\ Latest(i)'
        BY <1>3, <1>11, <3>2, <4>1
      <4> QED
        BY <4>2
    <3> QED
      BY <3>1, <3>2
  <2>5. ASSUME NEW g \in Fire, run'[g] = "first", NEW i \in 1 .. seq', NEW j \in 1 .. seq',
               job'[i] = g, job'[j] = g
        PROVE  i = j
    <3>1. i \in 1 .. MaxTask /\ j \in 1 .. MaxTask
      BY <1>3, MaxTaskAssumption
    <3>2. CASE g = f
      BY <1>6, <1>7, <2>5, <3>1, <3>2
    <3>3. CASE g # f
      <4>1. i \in 1 .. seq /\ j \in 1 .. seq /\ job[i] = g /\ job[j] = g /\ run[g] = "first"
        BY <1>6, <1>7, <1>9, <2>5, <3>1, <3>3
      <4> QED
        BY <4>1 DEF AskedInv
    <3> QED
      BY <3>2, <3>3
  <2> QED
    BY <2>1, <2>2, <2>3, <2>4, <2>5 DEF AskedInv, Waiting
<1>14. \A s \in Pool : s.id \in 1 .. seq /\ job'[s.id] = job[s.id]
  BY <1>3, <1>6, <1>9 DEF PoolInv
<1>15. Wanted \subseteq Pool
  BY DEF Wanted, Pool
<1>16. AwaitInv'
  <2> SUFFICES ASSUME NEW s \in Wanted', job'[s.id] # 0, s.id \notin expired'
               PROVE  run'[job'[s.id]] \in {"first", "second"} /\ Latest(s.id)'
    BY DEF AwaitInv, Waiting
  <2>1. CASE s = t
    BY <1>4, <1>8, <1>12, <2>1
  <2>2. CASE s \in Wanted
    <3>1. s.id \in 1 .. seq /\ job'[s.id] = job[s.id] /\ job[s.id] # f
      BY <1>14, <1>15, <2>2
    <3>2. Waiting(job[s.id]) /\ Latest(s.id)
      BY <1>1, <2>2, <3>1 DEF AwaitInv
    <3>3. job[s.id] \in Fire
      BY <1>9, <3>1, <1>5 DEF RunTypeOK, Fire
    <3> QED
      BY <1>8, <1>11, <3>1, <3>2, <3>3
  <2> QED
    BY <1>4, <2>1, <2>2
<1>17. ApartInv'
  <2>1. ASSUME NEW g \in Fire, run'[g] = "pause", NEW s \in Pool'
        PROVE  job'[s.id] # g
    <3>1. g # f /\ run[g] = "pause"
      BY <1>7, <2>1
    <3> QED
      BY <1>4, <1>12, <1>14, <3>1 DEF ApartInv
  <2>2. ASSUME NEW a \in Pool', NEW b \in Pool', job'[a.id] # 0, job'[a.id] = job'[b.id]
        PROVE  a = b
    BY <1>4, <1>12, <1>14, <2>2 DEF ApartInv
  <2> QED
    BY <2>1, <2>2 DEF ApartInv
<1> QED
  BY <1>3, <1>10, <1>13, <1>16, <1>17

(* Other work comes: no run has anything to do with it. *)
LEMMA OtherTaskKeepsRuns ==
  ASSUME IInv, PoolInv, RunsInv, NEW w \in Weight, OtherTask(w)
  PROVE  IInv' /\ PoolInv' /\ RunsInv'
PROOF
<1> USE DEF RunsInv
<1>1. /\ Enqueue(Owner, w) /\ Owner \in User /\ UNCHANGED <<runVars, job, expired>>
      /\ working' = working \cup {t.id : t \in {b \in live' \ live : StillWanted(b)}}
  BY SchedulerAssumption DEF OtherTask, StartBodies
<1>2. IInv' /\ PoolInv' /\ seq' = seq + 1 /\ seq \in Nat /\ seq' \in 1 .. MaxTask
  BY <1>1, EnqueueGrows
<1>3. PICK t \in Task : /\ t.id = seq + 1
                        /\ Pool' = Pool \cup {t} /\ Wanted' = Wanted \cup {t}
                        /\ live' \subseteq live \cup {t}
  BY <1>1, EnqueueGrows
<1>4. job'[t.id] = 0
  BY <1>1, <1>2, <1>3 DEF AskedInv
<1>5. RunTypeOK'
  <2>1. \A b \in live' : b.id \in 1 .. MaxTask
    BY <1>2, TaskFields DEF IInv, TypeOK
  <2>2. working' \subseteq 1 .. MaxTask
    BY <1>1, <2>1 DEF RunTypeOK
  <2> QED
    BY <1>1, <2>2 DEF RunTypeOK, runVars
<1>6. ASSUME NEW i \in 1 .. seq, job[i] # 0, Latest(i)
      PROVE  Latest(i)'
  <2> SUFFICES ASSUME NEW j \in i + 1 .. seq' PROVE job'[j] # job'[i]
    BY DEF Latest
  <2>1. CASE j = seq + 1
    BY <1>1, <1>3, <1>4, <1>6, <2>1
  <2>2. CASE j # seq + 1
    <3>1. j \in i + 1 .. seq
      BY <1>2, <2>2
    <3> QED
      BY <1>1, <1>6, <3>1 DEF Latest
  <2> QED
    BY <2>1, <2>2
<1>7. AskedInv'
  <2>1. \A j \in 1 .. MaxTask : j > seq' => job'[j] = 0
    BY <1>1, <1>2 DEF AskedInv
  <2>2. ASSUME NEW g \in Fire, run'[g] \in {"first", "second"}
        PROVE  \E i \in 1 .. seq' : job'[i] = g /\ Latest(i)'
    <3>1. PICK i \in 1 .. seq : job[i] = g /\ Latest(i)
      BY <1>1, <2>2 DEF AskedInv, runVars, Waiting
    <3>2. i \in 1 .. seq' /\ Latest(i)'
      BY <1>2, <1>6, <3>1, SchedulerAssumption DEF Fire
    <3> QED
      BY <1>1, <3>1, <3>2
  <2>3. ASSUME NEW g \in Fire, run'[g] = "first", NEW i \in 1 .. seq', NEW j \in 1 .. seq',
               job'[i] = g, job'[j] = g
        PROVE  i = j
    <3>1. g # 0
      BY SchedulerAssumption DEF Fire
    <3>2. i \in 1 .. seq /\ j \in 1 .. seq
      BY <1>2, <1>3, <1>4, <2>3, <3>1
    <3> QED
      BY <1>1, <2>3, <3>2 DEF AskedInv, runVars
  <2> QED
    BY <1>1, <2>1, <2>2, <2>3 DEF AskedInv, Waiting, runVars
<1>8. AwaitInv'
  <2> SUFFICES ASSUME NEW s \in Wanted', job'[s.id] # 0, s.id \notin expired'
               PROVE  run'[job'[s.id]] \in {"first", "second"} /\ Latest(s.id)'
    BY DEF AwaitInv, Waiting
  <2>1. s \in Wanted
    BY <1>3, <1>4
  <2>2. s.id \in 1 .. seq
    BY <2>1 DEF Wanted, Pool, PoolInv
  <2>3. Waiting(job[s.id]) /\ Latest(s.id)
    BY <1>1, <2>1 DEF AwaitInv
  <2> QED
    BY <1>1, <1>6, <2>2, <2>3 DEF Waiting, runVars
<1>9. ApartInv'
  <2>1. \A g \in Fire : g # 0
    BY SchedulerAssumption DEF Fire
  <2> QED
    BY <1>1, <1>3, <1>4, <2>1 DEF ApartInv, runVars
<1> QED
  BY <1>2, <1>5, <1>7, <1>8, <1>9

(* A run hears of its task, or its time is over: it does not wait any      *)
(* more, and what it waited for is over or told to stop.                   *)
LEMMA HearKeepsRuns ==
  ASSUME IInv, PoolInv, RunsInv, NEW f \in Fire, Answer(f) \/ TimeOut(f)
  PROVE  RunsInv'
PROOF
<1> USE DEF RunsInv
<1>1. /\ UNCHANGED <<vars, nfire, job, working>>
      /\ Waiting(f)
  BY DEF Answer, TimeOut, taskVars
<1>2. seq \in Nat /\ seq' = seq
  BY <1>1 DEF IInv, TypeOK, vars
<1>3. PICK i \in 1 .. seq : job[i] = f /\ Latest(i)
  BY <1>1 DEF AskedInv
<1>4. TaskOf(f) = i
  BY <1>2, <1>3, TaskOfLatest
<1>5. \E r \in {"pause", "telling"} : run' = [run EXCEPT ![f] = r]
  BY DEF Answer, TimeOut, GivesUp, Tell
<1>6. PICK r \in {"pause", "telling"} : run' = [run EXCEPT ![f] = r]
  BY <1>5
<1>7. \A g \in Fire : run'[g] = IF g = f THEN r ELSE run[g]
  BY <1>6 DEF RunTypeOK
<1>8. r = "pause" => run[f] = "first" /\ promise[i] = "resolved"
  BY <1>4, <1>7 DEF Answer, TimeOut, GivesUp, Tell, RunTypeOK
<1>9. expired \subseteq expired' /\ expired' \subseteq expired \cup {i}
  BY <1>4 DEF Answer, TimeOut, AbortedBy, taskVars
<1>10. promise[i] \in {"resolved", "rejected"} \/ i \in expired'
  BY <1>4 DEF Answer, TimeOut, AbortedBy
<1>11. Pool' = Pool /\ Wanted' = Wanted
  BY <1>1, PoolUnchanged
<1>12. 1 .. seq \subseteq 1 .. MaxTask
  BY MaxTaskAssumption DEF IInv, TypeOK
<1>13. RunTypeOK'
  <2>1. told' \in [Fire -> {None, "result", "failure"}]
    BY DEF Answer, TimeOut, GivesUp, Tell, RunTypeOK
  <2>2. run' \in [Fire -> {"idle", "first", "pause", "second", "telling", "over"}]
    BY <1>6 DEF RunTypeOK
  <2> QED
    BY <1>1, <1>9, <1>12, <2>1, <2>2 DEF RunTypeOK
<1>14. \A j \in 1 .. seq : Latest(j)' = Latest(j)
  BY <1>1, <1>2 DEF Latest
<1>15. AskedInv'
  <2>1. \A g \in Fire : run'[g] \in {"first", "second"} => g # f /\ Waiting(g)
    BY <1>6, <1>7 DEF Waiting
  <2>2. \A g \in Fire : g > nfire => run'[g] = "idle"
    BY <1>1, <1>7 DEF AskedInv, Waiting
  <2> QED
    BY <1>1, <1>2, <1>6, <1>7, <1>14, <2>1, <2>2 DEF AskedInv, Waiting
<1>16. AwaitInv'
  <2> SUFFICES ASSUME NEW s \in Wanted', job'[s.id] # 0, s.id \notin expired'
               PROVE  run'[job'[s.id]] \in {"first", "second"} /\ Latest(s.id)'
    BY DEF AwaitInv, Waiting
  <2>1. s \in Wanted /\ s.id \in 1 .. seq
    BY <1>11 DEF Wanted, Pool, PoolInv
  <2>2. Waiting(job[s.id]) /\ Latest(s.id) /\ job[s.id] # 0
    BY <1>1, <1>9, <2>1 DEF AwaitInv
  <2>3. job[s.id] # f
    <3> SUFFICES ASSUME job[s.id] = f PROVE FALSE
      OBVIOUS
    <3>1. s.id = i
      BY <1>2, <1>4, <2>1, <2>2, TaskOfLatest
    <3> QED
      BY <1>10, <2>1, <3>1 DEF PoolInv
  <2>4. job[s.id] \in Fire
    BY <1>12, <2>1, <2>2, SchedulerAssumption DEF RunTypeOK, Fire
  <2> QED
    BY <1>1, <1>7, <1>14, <2>1, <2>2, <2>3, <2>4 DEF Waiting
<1>17. ApartInv'
  <2>1. ASSUME NEW g \in Fire, run'[g] = "pause", NEW t \in Pool
        PROVE  job[t.id] # g
    <3>1. CASE g # f
      BY <1>7, <2>1, <3>1 DEF ApartInv
    <3>2. CASE g = f
      <4>1. run[f] = "first" /\ promise[i] = "resolved"
        BY <1>7, <1>8, <2>1, <3>2
      <4>2. t.id \in 1 .. seq /\ t.id # i
        BY <4>1 DEF PoolInv
      <4> QED
        BY <1>3, <3>2, <4>1, <4>2 DEF AskedInv
    <3> QED
      BY <3>1, <3>2
  <2> QED
    BY <1>1, <1>11, <2>1 DEF ApartInv
<1> QED
  BY <1>13, <1>15, <1>16, <1>17

LEMMA TriggerKeepsRuns ==
  ASSUME IInv, PoolInv, RunsInv, NEW k \in crons, Trigger(k)
  PROVE  IInv' /\ PoolInv' /\ RunsInv'
PROOF
<1>1. /\ nfire < MaxFire /\ nfire' = nfire + 1 /\ run' = [run EXCEPT ![nfire + 1] = "first"]
      /\ Ask(nfire + 1) /\ told' = told
  BY DEF Trigger
<1>2. nfire \in Nat /\ MaxFire \in Nat /\ nfire + 1 \in Fire /\ nfire' \in 0 .. MaxFire
  BY <1>1, SchedulerAssumption DEF RunsInv, RunTypeOK, Fire
<1>3. PICK f \in Fire : f = nfire + 1
  BY <1>2
<1>4. \A i \in 1 .. MaxTask : job[i] # f
  BY <1>2, <1>3 DEF RunsInv, RunTypeOK, AskedInv
<1>5. ~ Waiting(f)
  BY <1>2, <1>3 DEF RunsInv, AskedInv, Waiting
<1>6. \A t \in Pool : job[t.id] # f
  BY <1>4, TaskFields DEF PoolInv
<1>7. nfire <= nfire' /\ f <= nfire' /\ run' = [run EXCEPT ![f] = "first"] /\ Ask(f)
  BY <1>1, <1>2, <1>3
<1> QED
  BY <1>1, <1>2, <1>4, <1>5, <1>6, <1>7, AskKeepsRuns

LEMMA RetryKeepsRuns ==
  ASSUME IInv, PoolInv, RunsInv, NEW f \in Fire, Retry(f)
  PROVE  IInv' /\ PoolInv' /\ RunsInv'
PROOF
<1>1. /\ run[f] = "pause" /\ run' = [run EXCEPT ![f] = "second"] /\ Ask(f)
      /\ nfire' = nfire /\ told' = told
  BY DEF Retry
<1>2. nfire \in Nat /\ nfire' \in 0 .. MaxFire /\ nfire <= nfire' /\ f \in Nat
  BY <1>1, SchedulerAssumption DEF RunsInv, RunTypeOK, Fire
<1>3. f <= nfire'
  BY <1>1, <1>2 DEF RunsInv, AskedInv
<1>4. ~ Waiting(f) /\ \A t \in Pool : job[t.id] # f
  BY <1>1 DEF RunsInv, ApartInv, Waiting
<1>5. "second" = "first" => \A i \in 1 .. MaxTask : job[i] # f
  OBVIOUS
<1> QED
  BY <1>1, <1>2, <1>3, <1>4, <1>5, AskKeepsRuns

LEMMA SentKeepsRuns ==
  ASSUME IInv, PoolInv, RunsInv, NEW f \in Fire, Sent(f)
  PROVE  RunsInv'
PROOF
<1>1. /\ run[f] = "telling" /\ run' = [run EXCEPT ![f] = "over"]
      /\ UNCHANGED <<vars, nfire, told, taskVars>>
  BY DEF Sent
<1>2. Pool' = Pool /\ Wanted' = Wanted
  BY <1>1, PoolUnchanged
<1>3. \A g \in Fire : run'[g] = IF g = f THEN "over" ELSE run[g]
  BY <1>1 DEF RunsInv, RunTypeOK
<1>4. \A g \in Fire : /\ Waiting(g) <=> run'[g] \in {"first", "second"}
                      /\ run'[g] = "pause" <=> run[g] = "pause"
                      /\ run'[g] = "first" <=> run[g] = "first"
  BY <1>1, <1>3 DEF Waiting
<1>5. seq' = seq /\ job' = job /\ expired' = expired
  BY <1>1 DEF vars, taskVars
<1>6. RunTypeOK'
  BY <1>1 DEF RunsInv, RunTypeOK, taskVars
<1>7. AskedInv'
  <2>1. \A g \in Fire : g > nfire => run'[g] = "idle"
    BY <1>1, <1>3 DEF RunsInv, AskedInv
  <2> QED
    BY <1>1, <1>4, <1>5, <2>1 DEF RunsInv, AskedInv, Waiting, Latest
<1>8. AwaitInv'
  <2>1. ASSUME NEW s \in Wanted, job[s.id] # 0
        PROVE  job[s.id] \in Fire
    <3>1. s.id \in 1 .. MaxTask
      BY TaskFields DEF Wanted, Pool, PoolInv
    <3> QED
      BY <2>1, <3>1, SchedulerAssumption DEF RunsInv, RunTypeOK, Fire
  <2> QED
    BY <1>2, <1>4, <1>5, <2>1 DEF RunsInv, AwaitInv, Waiting, Latest
<1>9. ApartInv'
  BY <1>2, <1>4, <1>5 DEF RunsInv, ApartInv
<1> QED
  BY <1>6, <1>7, <1>8, <1>9 DEF RunsInv

(* After a restart the queue is empty, and every Cron object is new. *)
LEMMA RestartInv ==
  ASSUME SchedInv, Restart
  PROVE  SchedInv'
PROOF
<1>1. /\ states' = {} /\ live' = {} /\ aborted' = {}
      /\ pending' = [u \in User |-> <<>>] /\ current' = [u \in User |-> NoTask]
      /\ race' = [u \in User |-> "none"]
      /\ run' = [f \in Fire |-> IF run[f] = "idle" THEN "idle" ELSE "over"]
      /\ UNCHANGED <<seq, promise, rows, active, created, nfire, told, taskVars>>
      /\ unread' = {}
  BY DEF Restart
<1>2. IInv' /\ Pool' = {} /\ Wanted' = {} /\ PoolInv'
  BY <1>1, EmptyQueueInv DEF SchedInv
<1>5. RunsInv'
  <2>1. \A f \in Fire : run'[f] \in {"idle", "over"} /\ (run'[f] = "idle" <=> run[f] = "idle")
    BY <1>1
  <2>2. RunTypeOK'
    BY <1>1 DEF SchedInv, RunTypeOK, taskVars
  <2>3. AskedInv'
    BY <1>1, <2>1 DEF SchedInv, AskedInv, Waiting, taskVars
  <2> QED
    BY <1>2, <2>1, <2>2, <2>3 DEF RunsInv, AwaitInv, ApartInv
<1>6. edits' \in 0 .. MaxEdit
  BY SchedulerAssumption DEF Restart, Edit, SchedInv, TableInv
<1> DEFINE begun == {s \in Sched : Startable(rows, active, s)}
<1>7. /\ jobs' = [s \in Sched |-> IF s \in begun THEN 1 ELSE 0]
      /\ crons' = {[sched |-> s, slot |-> 1, content |-> rows[s]] : s \in begun}
  BY DEF Restart
<1>8. \A s \in begun : s \in Sched /\ rows[s] \in Content
  BY DEF Startable, SchedInv, TableInv
<1>9. \A s \in Sched : Startable(rows', active', s) <=> s \in begun
  BY <1>1 DEF Startable
<1> HIDE DEF begun
<1>10. TableInv'
  <2>1. crons' \subseteq Cron
    BY <1>7, <1>8 DEF Cron
  <2>2. jobs' \in [Sched -> 0 .. 2]
    BY <1>7
  <2> QED
    BY <1>1, <1>6, <2>1, <2>2 DEF SchedInv, TableInv
<1>11. CronInv'
  <2>1. \A k \in crons' : jobs'[k.sched] = k.slot
    BY <1>7, <1>8
  <2>2. ASSUME NEW s \in Sched
        PROVE  {k.content : k \in {c \in crons' : c.sched = s}} =
                 IF Startable(rows', active', s) THEN {rows'[s]} ELSE {}
    <3> DEFINE x == [sched |-> s, slot |-> 1, content |-> rows[s]]
    <3>1. x.content = rows'[s]
      BY <1>1
    <3>2. {c \in crons' : c.sched = s} = IF s \in begun THEN {x} ELSE {}
      BY <1>7
    <3> HIDE DEF x
    <3>3. CASE s \in begun
      <4>1. {k.content : k \in {c \in crons' : c.sched = s}} = {rows'[s]}
        BY <3>1, <3>2, <3>3
      <4> QED
        BY <1>9, <3>3, <4>1
    <3>4. CASE s \notin begun
      <4>1. {k.content : k \in {c \in crons' : c.sched = s}} = {}
        BY <3>2, <3>4
      <4> QED
        BY <1>9, <3>4, <4>1
    <3> QED
      BY <3>3, <3>4
  <2> QED
    BY <2>1, <2>2 DEF CronInv
<1> QED
  BY <1>2, <1>5, <1>10, <1>11 DEF SchedInv, RunsInv

----------------------------------------------------------------------------
(* The inductive invariant *)

LEMMA SchedInitInv == SInit => SchedInv
PROOF
<1> SUFFICES ASSUME SInit PROVE SchedInv
  OBVIOUS
<1>1. IInv
  BY InitInv DEF SInit
<1>2. Pool = {} /\ Wanted = {}
  BY DEF SInit, Init, Pool, Wanted, waitingTasks
<1>3. PoolInv
  BY <1>2 DEF PoolInv, SInit, Init
<1>4. TableInv /\ CronInv
  BY SchedulerAssumption DEF SInit, TableInv, CronInv, Startable
<1>5. RunTypeOK
  BY SchedulerAssumption DEF SInit, RunTypeOK
<1>6. AskedInv /\ AwaitInv /\ ApartInv
  BY <1>2 DEF SInit, Init, AskedInv, AwaitInv, ApartInv, Waiting
<1> QED
  BY <1>1, <1>3, <1>4, <1>5, <1>6 DEF SchedInv

(* What the table needs to know of the other steps. *)
LEMMA TableStays ==
  ASSUME TableInv, CronInv, UNCHANGED <<rows, active, created, jobs, crons, unread>>,
         edits' \in 0 .. MaxEdit
  PROVE  TableInv' /\ CronInv'
BY DEF TableInv, CronInv, Startable

LEMMA SchedNextInv == SchedInv /\ [SNext]_svars => SchedInv'
PROOF
<1> SUFFICES ASSUME SchedInv, [SNext]_svars PROVE SchedInv'
  OBVIOUS
<1> USE DEF SchedInv
<1>r. RunsInv
  BY DEF RunsInv
<1>i. RunsInv' => RunTypeOK' /\ AskedInv' /\ AwaitInv' /\ ApartInv'
  BY DEF RunsInv
<1>t. ASSUME UNCHANGED tableVars PROVE TableInv' /\ CronInv'
  BY <1>t, TableStays DEF tableVars, TableInv
<1>u. ASSUME UNCHANGED <<vars, runVars, taskVars>>
      PROVE  IInv' /\ PoolInv' /\ RunsInv'
  <2>1. IInv' /\ PoolInv' /\ Pool' = Pool /\ Wanted' = Wanted /\ waitingTasks' = waitingTasks
    BY <1>u, PoolUnchanged
  <2>2. Shrinks
    BY <1>u, <2>1 DEF Shrinks, vars
  <2> QED
    BY <1>r, <1>u, <2>1, <2>2, ShrinkKeepsRuns DEF taskVars, RunTypeOK
<1>1. ASSUME \/ \E c \in Content : AddSchedule(c)
             \/ \E s \in Sched, c \in Content : UpdateSchedule(s, c)
             \/ \E s \in Sched : RemoveSchedule(s) \/ Toggle(s)
             \/ Reload
      PROVE  SchedInv'
  <2>1. UNCHANGED <<vars, runVars, taskVars>>
    BY <1>1 DEF AddSchedule, UpdateSchedule, RemoveSchedule, Reload, Toggle
  <2> QED
    BY <1>1, <1>i, <1>u, <2>1, EditInv
<1>2. ASSUME \/ \E c \in Content : CliAdds(c)
             \/ \E s \in Sched, c \in Content : CliUpdates(s, c)
             \/ \E s \in Sched : CliRemoves(s)
      PROVE  SchedInv'
  <2>1. UNCHANGED <<vars, runVars, taskVars>>
    BY <1>2 DEF CliAdds, CliUpdates, CliRemoves
  <2> QED
    BY <1>2, <1>i, <1>u, <2>1, CliInv
<1>3. CASE Abort
  <2>1. Shrinks
    BY <1>3, SchedulerAssumption, CancelShrinks DEF Abort
  <2>2. TableInv' /\ CronInv'
    BY <1>3, SchedulerAssumption, TableStays DEF Abort, Edit, TableInv
  <2> QED
    BY <1>3, <1>i, <1>r, <2>1, <2>2, ShrinkKeepsRuns DEF Abort, taskVars, RunTypeOK, Shrinks
<1>4. CASE Restart
  BY <1>4, RestartInv
<1>5. ASSUME NEW k \in crons, Trigger(k) PROVE SchedInv'
  BY <1>5, <1>i, <1>r, <1>t, TriggerKeepsRuns DEF Trigger
<1>6. ASSUME NEW f \in Fire, Answer(f) \/ TimeOut(f) PROVE SchedInv'
  <2>1. UNCHANGED vars /\ UNCHANGED tableVars
    BY <1>6 DEF Answer, TimeOut
  <2> QED
    BY <1>6, <1>i, <1>r, <1>t, <2>1, PoolUnchanged, HearKeepsRuns
<1>7. ASSUME NEW f \in Fire, Retry(f) PROVE SchedInv'
  BY <1>7, <1>i, <1>r, <1>t, RetryKeepsRuns DEF Retry
<1>8. ASSUME NEW f \in Fire, Sent(f) PROVE SchedInv'
  <2>1. UNCHANGED vars /\ UNCHANGED tableVars
    BY <1>8 DEF Sent
  <2> QED
    BY <1>8, <1>i, <1>r, <1>t, <2>1, PoolUnchanged, SentKeepsRuns
<1>9. ASSUME NEW w \in {0, 2}, OtherTask(w) PROVE SchedInv'
  <2>1. w \in Weight
    BY DEF Weight
  <2> QED
    BY <1>9, <1>i, <1>r, <1>t, <2>1, OtherTaskKeepsRuns DEF OtherTask
<1>10. ASSUME NEW t \in live, BodyEnds(t) PROVE SchedInv'
  <2>1. Shrinks
    BY <1>10, RunEndsShrinks DEF BodyEnds
  <2> QED
    BY <1>10, <1>i, <1>r, <1>t, <2>1, ShrinkKeepsRuns DEF BodyEnds, taskVars, RunTypeOK, Shrinks
<1>11. CASE Drain
  <2>1. Shrinks /\ UNCHANGED <<tableVars, runVars, job, expired>>
    BY <1>11, SchedulerAssumption, DrainShrinks DEF Drain
  <2>2. working' \subseteq 1 .. MaxTask
    <3>1. \A b \in live' : b.id \in 1 .. MaxTask
      BY <2>1, TaskFields DEF Shrinks, IInv, TypeOK
    <3> QED
      BY <1>11, <3>1 DEF Drain, StartBodies, RunTypeOK
  <2> QED
    BY <1>i, <1>r, <1>t, <2>1, <2>2, ShrinkKeepsRuns DEF Shrinks
<1>12. CASE UNCHANGED svars
  BY <1>12, <1>i, <1>t, <1>u DEF svars
<1> QED
  BY <1>1, <1>2, <1>3, <1>4, <1>5, <1>6, <1>7, <1>8, <1>9, <1>10, <1>11, <1>12
  DEF SNext, RunSteps

(* The inductive invariant of scheduled tasks. *)
THEOREM SchedInvariance == SSpec => []SchedInv
PROOF
<1>1. SInit => SchedInv
  BY SchedInitInv
<1>2. SchedInv /\ [SNext]_svars => SchedInv'
  BY SchedNextInv
<1> QED
  BY <1>1, <1>2, PTL DEF SSpec

----------------------------------------------------------------------------
(* The theorems *)

(* CronsFollowTable for every table and every sequence of edits: every     *)
(* Cron object that ticks is known to the Map, so that it can be stopped,  *)
(* and it is there exactly for the active, valid rows that nobody outside  *)
(* has edited since they were read, with what they say.                    *)
THEOREM CronsAreThoseOfTheTable == SSpec => []CronsFollowTable
PROOF
<1>1. SchedInv => CronsFollowTable
  BY DEF SchedInv, TableInv, CronInv, RunTypeOK, CronsFollowTable, SchedTypeOK
<1> QED
  BY <1>1, SchedInvariance, PTL

(* WorkIsWaitedFor for any number of runs and any other work: the agent    *)
(* works for a schedule only while the run waits for that answer, or after *)
(* the time limit or /abort has told it to stop.                           *)
THEOREM NoWorkForNobody == SSpec => []WorkIsWaitedFor
PROOF
<1>1. SchedInv => WorkIsWaitedFor
  <2> SUFFICES ASSUME SchedInv, NEW t \in live, job[t.id] # 0,
                      t.id \notin expired, t.id \notin aborted
               PROVE  Waiting(job[t.id]) /\ TaskOf(job[t.id]) = t.id
    BY DEF WorkIsWaitedFor
  <2>1. t \in Wanted /\ t.id \in 1 .. seq /\ seq \in Nat
    BY DEF Wanted, Pool, SchedInv, PoolInv, IInv, TypeOK
  <2>2. Waiting(job[t.id]) /\ Latest(t.id)
    BY <2>1 DEF SchedInv, AwaitInv
  <2> QED
    BY <2>1, <2>2, TaskOfLatest
<1> QED
  BY <1>1, SchedInvariance, PTL

(* AttemptsDoNotOverlap: the second attempt of a run is never alive beside *)
(* the first, whatever the first does when it is told to stop.             *)
THEOREM OneAttemptAtATime == SSpec => []AttemptsDoNotOverlap
PROOF
<1>1. SchedInv => AttemptsDoNotOverlap
  BY DEF SchedInv, ApartInv, AttemptsDoNotOverlap, Pool
<1> QED
  BY <1>1, SchedInvariance, PTL
=============================================================================
