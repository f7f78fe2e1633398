----------------------------- MODULE Scheduler -----------------------------
(***************************************************************************)
(* Scheduled tasks (src/core/scheduler.ts) on top of the ExecutionQueue:   *)
(* the table of schedules, which other processes edit, the Cron objects    *)
(* that stand for its active rows, and the runs that these start.          *)
(*                                                                         *)
(* A run asks the agent through the queue, under a time limit that counts  *)
(* from the moment of queueing, and once more when the answer is poor.     *)
(* An action is what happens between two awaits; the body of a task is     *)
(* called in the step of the queue that starts it.                         *)
(***************************************************************************)
EXTENDS ExecutionQueue, FiniteSets

CONSTANTS
  Owner,     (* ALLOWED_USER_ID: whose schedules and whose queue these are *)
  MaxSched,  (* bound: rows the table ever has; AUTOINCREMENT reuses no id *)
  Content,   (* name, cron expression and prompt of a schedule *)
  BadCron,   (* the contents whose cron expression croner refuses *)
  MaxFire,   (* bound: runs *)
  MaxOther,  (* bound: tasks of the queue that belong to no run *)
  MaxEdit    (* bound: edits, reloads and restarts, taken together *)

Sched == 1 .. MaxSched
Fire  == 1 .. MaxFire
None  == "none"

ASSUME SchedulerAssumption ==
  /\ Owner \in User
  /\ {MaxSched, MaxFire, MaxOther, MaxEdit} \subseteq Nat
  /\ MaxTask >= 2 * MaxFire + MaxOther
  /\ BadCron \subseteq Content /\ None \notin Content

VARIABLES
  rows,     (* the contents of each row of the table, None without one *)
  active,   (* the rows with is_active = 1 *)
  created,  (* how many rows there have ever been *)
  jobs,     (* this.jobs: the Cron object of each schedule, 0 for none *)
  crons,    (* the Cron objects that have not been stopped *)
  unread,   (* schedules edited by another process since they were loaded *)
  edits,
  nfire,    (* runs so far *)
  run,      (* how far each run is *)
  told,     (* what the owner is told of it *)
  job,      (* the run each task of the queue belongs to, 0 for other work *)
  expired,  (* the tasks whose time limit has passed: timeoutSignal.aborted *)
  working   (* the tasks for which the agent has been called *)

tableVars == <<rows, active, created, jobs, crons, unread, edits>>
runVars   == <<nfire, run, told>>
taskVars  == <<job, expired, working>>
svars     == <<vars, tableVars, runVars, taskVars>>

Cron == [sched : Sched, slot : 1 .. 2, content : Content]

SInit ==
  /\ Init
  /\ rows = [s \in Sched |-> None]
  /\ active = {}
  /\ created = 0
  /\ jobs = [s \in Sched |-> 0]
  /\ crons = {}
  /\ unread = {}
  /\ edits = 0
  /\ nfire = 0
  /\ run = [f \in Fire |-> "idle"]
  /\ told = [f \in Fire |-> None]
  /\ job = [i \in 1 .. MaxTask |-> 0]
  /\ expired = {}
  /\ working = {}

----------------------------------------------------------------------------
(* The table and the Cron objects *)

Edit == edits < MaxEdit /\ edits' = edits + 1

(* Variant: the Cron object is dropped from the Map and goes on ticking. *)
Unregister(S) == crons

(* this.jobs.get(id)?.stop() for the schedules of S *)
StopJobs(S) == {k \in crons : k.sched \notin S \/ k.slot # jobs[k.sched]}

(* A place for one more Cron object of s beside those of cs. *)
FreeSlot(s, cs) == IF \E k \in cs : k.sched = s /\ k.slot = 1 THEN 2 ELSE 1

(* A row the scheduler makes a job of; a cron expression that croner does  *)
(* not take is only logged.                                                *)
Startable(r, on, s) == s \in on /\ r[s] \notin BadCron

(* startJob for the rows of S that are active, given the table r and on:   *)
(* what is there of them is stopped, then each gets a new Cron object.     *)
StartJobs(S, r, on) ==
  LET kept == StopJobs(S)
      begun == {s \in S : Startable(r, on, s)}
  IN  /\ jobs' = [s \in Sched |-> IF s \in begun THEN FreeSlot(s, kept)
                                  ELSE IF s \in S THEN 0 ELSE jobs[s]]
      /\ crons' = kept \cup {[sched |-> s, slot |-> FreeSlot(s, kept), content |-> r[s]] :
                             s \in begun}
      /\ unread' = unread \ S

Table(r, on) == rows' = r /\ active' = on

(* A new row; SQLite sets is_active. *)
Insert(c) == Table([rows EXCEPT ![created + 1] = c], active \cup {created + 1})

(* addSchedule, for /schedule and the web console: the input is validated. *)
AddSchedule(c) ==
  /\ Edit
  /\ created < MaxSched /\ c \notin BadCron
  /\ created' = created + 1
  /\ Insert(c)
  /\ StartJobs({created + 1}, rows', active')
  /\ UNCHANGED <<vars, runVars, taskVars>>

(* updateSchedule: refused when the row is gone; an inactive one is saved  *)
(* and not started.                                                        *)
UpdateSchedule(s, c) ==
  /\ Edit
  /\ rows[s] # None /\ c \notin BadCron
  /\ Table([rows EXCEPT ![s] = c], active)
  /\ StartJobs({s}, rows', active)
  /\ UNCHANGED <<vars, created, runVars, taskVars>>

(* removeSchedule: the job is stopped, then the row deleted. *)
RemoveSchedule(s) ==
  /\ Edit
  /\ rows[s] # None \/ jobs[s] # 0
  /\ Table([rows EXCEPT ![s] = None], active \ {s})
  /\ StartJobs({s}, rows', active')
  /\ UNCHANGED <<vars, created, runVars, taskVars>>

(* reload(), on SIGUSR1 or from the console.  There is no await in it.     *)
Reload ==
  /\ Edit
  /\ StartJobs(Sched, rows, active)
  /\ UNCHANGED <<vars, rows, active, created, runVars, taskVars>>

(* /api/schedules/toggle: the row is switched, and everything reloaded. *)
Toggle(s) ==
  /\ Edit
  /\ rows[s] # None
  /\ Table(rows, IF s \in active THEN active \ {s} ELSE active \cup {s})
  /\ StartJobs(Sched, rows, active')
  /\ UNCHANGED <<vars, created, runVars, taskVars>>

(* scheduler-cli, a process of its own, edits the table.  It does not look *)
(* at the cron expression, and its request to reload may get nowhere.      *)
CliAdds(c) ==
  /\ Edit
  /\ created < MaxSched
  /\ created' = created + 1
  /\ Insert(c)
  /\ unread' = unread \cup {created + 1}
  /\ UNCHANGED <<vars, jobs, crons, runVars, taskVars>>

CliUpdates(s, c) ==
  /\ Edit
  /\ rows[s] \notin {None, c}
  /\ Table([rows EXCEPT ![s] = c], active)
  /\ unread' = unread \cup {s}
  /\ UNCHANGED <<vars, created, jobs, crons, runVars, taskVars>>

CliRemoves(s) ==
  /\ Edit
  /\ rows[s] # None
  /\ Table([rows EXCEPT ![s] = None], active \ {s})
  /\ unread' = unread \cup {s}
  /\ UNCHANGED <<vars, created, jobs, crons, runVars, taskVars>>

----------------------------------------------------------------------------
(* The runs *)

(* runScheduledChat: nobody waits any more, so the agent is not called. *)
StillWanted(t) == t.id \notin expired

(* The bodies of the tasks that the step starts. *)
StartBodies == working' = working \cup {t.id : t \in {b \in live' \ live : StillWanted(b)}}

(* withScheduleTimeout(enqueue(owner, _, 'low', runScheduledChat)) *)
Ask(f) ==
  /\ job' = [job EXCEPT ![seq + 1] = f]
  /\ Enqueue(Owner, 2)
  /\ StartBodies
  /\ UNCHANGED expired

(* A Cron object triggers.  Nothing keeps it from doing so while an earlier*)
(* run of the same schedule is under way.                                  *)
Trigger(k) ==
  /\ k \in crons
  /\ nfire < MaxFire
  /\ nfire' = nfire + 1
  /\ run' = [run EXCEPT ![nfire + 1] = "first"]
  /\ Ask(nfire + 1)
  /\ UNCHANGED <<tableVars, told>>

(* The task that run f waits for: the latest it has queued. *)
TaskOf(f) == CHOOSE i \in 1 .. seq : job[i] = f /\ \A j \in i + 1 .. seq : job[j] # f

Waiting(f) == run[f] \in {"first", "second"}

(* What the catch of executeTask does, or its last part: the message is    *)
(* persisted and sent.                                                     *)
Tell(f, what) ==
  /\ run' = [run EXCEPT ![f] = "telling"]
  /\ told' = [told EXCEPT ![f] = what]

(* Variant: the time limit counts from the start of the task.              *)
CountsFromStart(f) == \E t \in live : t.id = TaskOf(f)

(* setTimeout is called before fn, that is before the task is queued. *)
TimerRuns(f) == promise[TaskOf(f)] = "open"

(* Variant: a time-out is one more reason to ask again. *)
AskAgain(f) == run' = [run EXCEPT ![f] = IF @ = "first" THEN "pause" ELSE "telling"]
               /\ told' = [told EXCEPT ![f] = IF run[f] = "first" THEN @ ELSE "failure"]

(* The rejection of the time limit goes to the catch like any other. *)
GivesUp(f) == Tell(f, "failure")

(* Variant: only the promise above is rejected, the work goes on. *)
OnlyReject(f) == expired

(* ac.abort() *)
AbortedBy(f) == expired \cup {TaskOf(f)}

(* The time limit passes: abort, and reject. *)
TimeOut(f) ==
  /\ Waiting(f)
  /\ TimerRuns(f)
  /\ expired' = AbortedBy(f)
  /\ GivesUp(f)
  /\ UNCHANGED <<vars, tableVars, nfire, job, working>>

(* The queue's answer.  A good one is told; a poor one is asked for again  *)
(* after a pause, the first time, and is a failure the second.             *)
Answer(f) ==
  /\ Waiting(f)
  /\ \/ promise[TaskOf(f)] = "resolved" /\ Tell(f, "result")
     \/ promise[TaskOf(f)] = "resolved" /\ run[f] = "first"
        /\ run' = [run EXCEPT ![f] = "pause"] /\ UNCHANGED told
     \/ promise[TaskOf(f)] = "resolved" /\ run[f] = "second" /\ Tell(f, "failure")
     \/ promise[TaskOf(f)] = "rejected" /\ Tell(f, "failure")
  /\ UNCHANGED <<vars, tableVars, nfire, taskVars>>

(* Two and a half seconds later. *)
Retry(f) ==
  /\ run[f] = "pause"
  /\ run' = [run EXCEPT ![f] = "second"]
  /\ Ask(f)
  /\ UNCHANGED <<tableVars, nfire, told>>

(* sendMessage returns.  It never throws here: what Telegram does not take *)
(* is recorded and lost.                                                   *)
Sent(f) ==
  /\ run[f] = "telling"
  /\ run' = [run EXCEPT ![f] = "over"]
  /\ UNCHANGED <<vars, tableVars, nfire, told, taskVars>>

----------------------------------------------------------------------------
(* The queue and its other users *)

(* A chat message, a reflection or the daily summary: not under the time   *)
(* limit of schedules.                                                     *)
OtherTask(w) ==
  /\ Cardinality({i \in 1 .. seq : job[i] = 0}) < MaxOther
  /\ Enqueue(Owner, w)
  /\ StartBodies
  /\ UNCHANGED <<tableVars, runVars, job, expired>>

(* A body ends.  One that did not call the agent throws at once.           *)
BodyEnds(t) ==
  /\ \E result \in {"resolved", "rejected"} :
       /\ t.id \notin working => result = "rejected"
       /\ RunEnds(t, result)
  /\ UNCHANGED <<tableVars, runVars, taskVars>>

Drain ==
  /\ DrainResumes(Owner)
  /\ StartBodies
  /\ UNCHANGED <<tableVars, runVars, job, expired>>

Abort ==
  /\ Edit
  /\ Cancel(Owner)
  /\ UNCHANGED <<rows, active, created, jobs, crons, unread, runVars, taskVars>>

(* The process goes down, with shutdown() or without, and comes up: init() *)
(* makes jobs of the active rows.  Runs under way are lost without a word. *)
Restart ==
  /\ Edit
  /\ states' = {} /\ live' = {} /\ aborted' = {}
  /\ pending' = [u \in User |-> <<>>]
  /\ current' = [u \in User |-> NoTask]
  /\ race' = [u \in User |-> "none"]
  /\ run' = [f \in Fire |-> IF run[f] = "idle" THEN "idle" ELSE "over"]
  /\ LET begun == {s \in Sched : Startable(rows, active, s)}
     IN  /\ jobs' = [s \in Sched |-> IF s \in begun THEN 1 ELSE 0]
         /\ crons' = {[sched |-> s, slot |-> 1, content |-> rows[s]] : s \in begun}
  /\ unread' = {}
  /\ UNCHANGED <<seq, promise, rows, active, created, nfire, told, taskVars>>

RunSteps(f) == Answer(f) \/ Retry(f) \/ Sent(f)

SNext ==
  \/ \E c \in Content : AddSchedule(c) \/ CliAdds(c)
  \/ \E s \in Sched, c \in Content : UpdateSchedule(s, c) \/ CliUpdates(s, c)
  \/ \E s \in Sched : RemoveSchedule(s) \/ Toggle(s) \/ CliRemoves(s)
  \/ Reload \/ Abort \/ Restart
  \/ \E k \in crons : Trigger(k)
  \/ \E f \in Fire : RunSteps(f) \/ TimeOut(f)
  \/ \E w \in {0, 2} : OtherTask(w)
  \/ \E t \in live : BodyEnds(t)
  \/ Drain

(* Handlers go on when they can, and timers run out.  Nothing is assumed   *)
(* of a body: the agent may never answer, an aborted one may not stop.     *)
SFairness ==
  /\ WF_svars(Drain)
  /\ \A f \in Fire : WF_svars(RunSteps(f)) /\ WF_svars(TimeOut(f))

SSpec == SInit /\ [][SNext]_svars /\ SFairness

----------------------------------------------------------------------------
(* Properties *)

SchedTypeOK ==
  /\ rows \in [Sched -> Content \cup {None}]
  /\ active \subseteq {s \in Sched : rows[s] # None}
  /\ created \in 0 .. MaxSched
  /\ jobs \in [Sched -> 0 .. 2]
  /\ crons \subseteq Cron
  /\ unread \subseteq Sched
  /\ edits \in 0 .. MaxEdit
  /\ nfire \in 0 .. MaxFire
  /\ run \in [Fire -> {"idle", "first", "pause", "second", "telling", "over"}]
  /\ told \in [Fire -> {None, "result", "failure"}]
  /\ job \in [1 .. MaxTask -> 0 .. MaxFire]
  /\ expired \subseteq 1 .. MaxTask
  /\ working \subseteq 1 .. MaxTask

(* Whatever sequence of edits, toggles, reloads and restarts: every Cron   *)
(* object that ticks can still be stopped (the Map knows it), and unless   *)
(* another process has edited the schedule meanwhile, it has exactly one   *)
(* when its row is active and valid, with what the row says, and none      *)
(* otherwise.                                                              *)
CronsFollowTable ==
  /\ SchedTypeOK
  /\ \A k \in crons : jobs[k.sched] = k.slot
  /\ \A s \in Sched \ unread :
       {k.content : k \in {c \in crons : c.sched = s}} =
         IF Startable(rows, active, s) THEN {rows[s]} ELSE {}

(* The agent works for a schedule only while the run waits for that very   *)
(* answer, or after it has been told to stop: by the time limit, which may *)
(* pass while the task is still in the queue, or by /abort.                *)
WorkIsWaitedFor ==
  \A t \in live :
    job[t.id] # 0 /\ t.id \in working =>
      \/ Waiting(job[t.id]) /\ TaskOf(job[t.id]) = t.id
      \/ t.id \in expired \cup aborted

(* The second attempt of a run never works beside the first, not even      *)
(* beside a first one that does not stop: both would draw on one quota.    *)
AttemptsDoNotOverlap ==
  \A s, t \in live : job[s.id] # 0 /\ job[s.id] = job[t.id] => s = t

(* Every run that a schedule starts comes to its end, by an answer, an     *)
(* error or its time limit, even when the queue is held by work that never *)
(* ends.                                                                   *)
RunEndsTold ==
  \A f \in Fire : run[f] = "first" ~> run[f] = "over"
=============================================================================
