---------------------------- MODULE ChatSession ----------------------------
(***************************************************************************)
(* A chat message on its way through the pipeline, and the opencode session*)
(* it is bound to (src/core/message-pipeline*.ts, chat-session-store.ts),  *)
(* on top of the ExecutionQueue that runs its turn.                        *)
(*                                                                         *)
(* An action is what happens between two awaits.  The body of a turn is    *)
(* called synchronously when the queue starts it, so its first part (clear *)
(* the binding for /new, read the binding, call the agent) belongs to the  *)
(* step that starts it, whichever step of the queue that is.               *)
(*                                                                         *)
(* A session is named after the message whose turn opened it: a turn opens *)
(* at most one session that anyone hears of.                               *)
(***************************************************************************)
EXTENDS ExecutionQueue, FiniteSets

CONSTANTS
  MaxMsg,       (* bound: chat messages, numbered in order of arrival *)
  LongMsg,      (* the messages that are long enough to be summarised first *)
  MaxDisturb    (* bound: aborts, restarts, failed writes of the state file, *)
                (* lost sessions and calls cut short, taken together         *)

Msg       == 1 .. MaxMsg
NoSession == 0

ASSUME ChatAssumption ==
  /\ User # {}
  /\ {MaxMsg, MaxDisturb} \subseteq Nat
  /\ LongMsg \subseteq Msg
  /\ MaxTask >= MaxMsg + Cardinality(LongMsg)

VARIABLES
  nmsg,      (* messages received so far *)
  sender,    (* the user of each message *)
  stage,     (* where the handler of each message is *)
  force,     (* context.forceNewSession *)
  job,       (* what each task of the queue runs *)
  body,      (* how far the body of each turn is *)
  hung,      (* the tasks whose call to the agent will never return *)
  sent,      (* the session of the turn's latest run, NoSession for a new one *)
  prompt,    (* "continuing": assembled without the recent conversation *)
  newAsked,  (* pendingNewSessionUsers *)
  binding,   (* ChatSessionStore.bindings *)
  disk,      (* what chat-session-state.json holds *)
  store,     (* the sessions opencode has *)
  disturbed, (* how many disturbances there have been *)
  (* history, read by the properties only *)
  wentStale, (* a failed write has once left an older map in the file *)
  leftBy,    (* the sessions a message with /new was to leave *)
  restored   (* users whose binding an aborted turn or an old file brought back *)

queueVars == vars
msgVars   == <<nmsg, sender, force, job, leftBy, hung>>
turnVars  == <<stage, body, sent, prompt>>
storeVars == <<binding, disk, wentStale, restored, disturbed>>
cvars == <<queueVars, msgVars, turnVars, storeVars, store, newAsked>>

Unbound == [u \in User |-> NoSession]
File(b) == [readable |-> TRUE, bound |-> b]
Corrupt == [readable |-> FALSE, bound |-> Unbound]
NoJob   == [kind |-> "none", msg |-> 0]

CInit ==
  /\ Init
  /\ nmsg = 0
  /\ sender = [m \in Msg |-> CHOOSE u \in User : TRUE]
  /\ stage = [m \in Msg |-> "none"]
  /\ force = [m \in Msg |-> FALSE]
  /\ job = [i \in 1 .. MaxTask |-> NoJob]
  /\ body = [m \in Msg |-> "idle"]
  /\ hung = {}
  /\ sent = [m \in Msg |-> NoSession]
  /\ prompt = [m \in Msg |-> "none"]
  /\ newAsked = {}
  /\ binding = Unbound
  /\ disk = File(Unbound)
  /\ store = {}
  /\ disturbed = 0
  /\ wentStale = FALSE
  /\ leftBy = [m \in Msg |-> {}]
  /\ restored = {}

----------------------------------------------------------------------------
Disturb == disturbed < MaxDisturb /\ disturbed' = disturbed + 1

(* ChatSessionStore *)

(* persist(): the whole map goes to the file.  A failed write is recorded  *)
(* and the map in memory stays; the file keeps what it held, or is left    *)
(* truncated.                                                              *)
Persist(b) ==
  /\ binding' = b
  /\ \/ disk' = File(b) /\ UNCHANGED <<wentStale, disturbed>>
     \/ Disturb /\ wentStale' = TRUE /\ UNCHANGED disk
     \/ Disturb /\ disk' = Corrupt /\ UNCHANGED wentStale

KeepBindings == UNCHANGED <<binding, disk, wentStale, disturbed>>

(* set and clear write only when the map changes. *)
SetBinding(u, s) ==
  \/ binding[u] = s /\ KeepBindings
  \/ binding[u] # s /\ Persist([binding EXCEPT ![u] = s])

ClearBinding(u) == SetBinding(u, NoSession)

----------------------------------------------------------------------------
(* The body of a turn *)

(* The binding a turn goes by: none for /new. *)
BoundSession(m) == IF force[m] THEN NoSession ELSE binding[sender[m]]

(* Variant: the prompt is used as it was assembled before queueing. *)
PromptAsAssembled(m) == prompt[m]

(* promptForAgent, or rebuildForNewSession() when the turn opens a session *)
(* with a prompt that was assembled to continue one.                       *)
PromptToSend(m) == IF BoundSession(m) = NoSession THEN "standalone" ELSE prompt[m]

(* Variant: /new leaves the old binding to be overwritten by a success. *)
NoClear(m) == KeepBindings

(* sessionStore.clear(userId) before anything is sent, for /new. *)
ClearForNew(m) ==
  \/ force[m] /\ ClearBinding(sender[m])
  \/ ~ force[m] /\ KeepBindings

(* The step starts the task of a turn: its body runs up to the agent call. *)
(* st is what the step makes of stage.                                     *)
TurnStarted(m) == \E t \in live' \ live : job'[t.id] = [kind |-> "turn", msg |-> m]

StartBodies ==
  \/ /\ \A m \in Msg : ~ TurnStarted(m)
     /\ UNCHANGED <<body, sent, prompt, storeVars, leftBy>>
  \/ \E m \in Msg :
       /\ TurnStarted(m)
       /\ ClearForNew(m)
       /\ restored' = IF force[m] THEN restored \ {sender[m]} ELSE restored
       /\ body' = [body EXCEPT ![m] = "first"]
       /\ sent' = [sent EXCEPT ![m] = BoundSession(m)]
       /\ prompt' = [prompt EXCEPT ![m] = PromptToSend(m)]
       /\ leftBy' = [leftBy EXCEPT ![m] =
                       IF force[m] THEN @ \cup ({binding[sender[m]]} \ {NoSession}) ELSE {}]

TaskOf(m) == CHOOSE t \in live : job[t.id] = [kind |-> "turn", msg |-> m]
InRun(m)  == body[m] \in {"first", "second"}

(* The agent's call comes back. *)
Returns(t) == t.id \notin hung

(* The body returns or throws; what it knew of its session goes with it. *)
BodyOver(m) ==
  /\ body' = [body EXCEPT ![m] = "over"]
  /\ sent' = [sent EXCEPT ![m] = NoSession]
  /\ prompt' = [prompt EXCEPT ![m] = "none"]

(* The session an answer names: the one it was given, or the one opencode  *)
(* has opened for it.                                                      *)
SessionOfAnswer(m) == IF sent[m] = NoSession THEN m ELSE sent[m]

(* The agent answers with a session id.  Nothing here looks at the signal: *)
(* an aborted turn binds as well.                                          *)
TurnSucceeds(m) ==
  /\ InRun(m) /\ Returns(TaskOf(m))
  /\ sent[m] \in store \cup {NoSession}
  /\ LET s == SessionOfAnswer(m)
         late == TaskOf(m).id \in aborted
     IN  /\ store' = store \cup {s}
         /\ SetBinding(sender[m], s)
         /\ restored' = IF late THEN restored \cup {sender[m]} ELSE restored
  /\ RunEnds(TaskOf(m), "resolved")
  /\ BodyOver(m)
  /\ UNCHANGED <<msgVars, stage, newAsked>>

(* The agent answers without a session id (time-out, quota, abort notice,  *)
(* error text), or throws: to the pipeline's state it is all the same.     *)
TurnFails(m) ==
  /\ InRun(m) /\ Returns(TaskOf(m))
  /\ RunEnds(TaskOf(m), "rejected")
  /\ BodyOver(m)
  /\ UNCHANGED <<msgVars, stage, storeVars, store, newAsked>>

(* Variant: the second run goes out with the prompt of the first. *)
PromptOfRetry(m) == prompt[m]

(* rebuildForNewSession() again, for the run in a new session. *)
PromptForRetry(m) == "standalone"

(* failure.kind = 'session-missing': opencode has lost the session.  The   *)
(* binding goes and the turn runs again in a new session.                  *)
TurnSessionMissing(m) ==
  /\ body[m] = "first" /\ Returns(TaskOf(m))
  /\ sent[m] # NoSession
  /\ sent[m] \notin store
  /\ ClearBinding(sender[m])
  /\ body' = [body EXCEPT ![m] = "second"]
  /\ sent' = [sent EXCEPT ![m] = NoSession]
  /\ prompt' = [prompt EXCEPT ![m] = PromptForRetry(m)]
  /\ UNCHANGED <<queueVars, msgVars, stage, restored, store, newAsked>>

----------------------------------------------------------------------------
(* The handler of a message *)

(* /new: the next message of u is to open a session. *)
AskNew(u) ==
  /\ nmsg < MaxMsg
  /\ u \notin newAsked
  /\ newAsked' = newAsked \cup {u}
  /\ UNCHANGED <<queueVars, msgVars, turnVars, storeVars, store>>

(* runCommandPreflight: the message is no command, and takes the mark. *)
TakesMark(u) == u \in newAsked

(* A message arrives. *)
Receive(u) ==
  LET m == nmsg + 1
  IN  /\ nmsg < MaxMsg
      /\ nmsg' = m
      /\ sender' = [sender EXCEPT ![m] = u]
      /\ stage' = [stage EXCEPT ![m] = "accepted"]
      /\ force' = [force EXCEPT ![m] = TakesMark(u)]
      /\ leftBy' = [leftBy EXCEPT ![m] = IF TakesMark(u) THEN {binding[u]} \ {NoSession} ELSE {}]
      /\ newAsked' = newAsked \ {u}
      /\ UNCHANGED <<queueVars, job, hung, body, sent, prompt, storeVars, store>>

(* persistUserMessage of a long message waits for a summary, which is a    *)
(* task of the same queue.                                                 *)
Summarise(m) ==
  /\ stage[m] = "accepted" /\ m \in LongMsg
  /\ stage' = [stage EXCEPT ![m] = "summarising"]
  /\ job' = [job EXCEPT ![seq + 1] = [kind |-> "summary", msg |-> m]]
  /\ Enqueue(sender[m], 1)
  /\ StartBodies
  /\ UNCHANGED <<nmsg, sender, force, hung, store, newAsked>>

PromiseOf(kind, m) == promise[CHOOSE i \in 1 .. MaxTask : job[i] = [kind |-> kind, msg |-> m]]

(* Without its summary the message is answered with an apology. *)
SummaryFails(m) ==
  /\ stage[m] = "summarising"
  /\ PromiseOf("summary", m) = "rejected"
  /\ stage' = [stage EXCEPT ![m] = "done"]
  /\ UNCHANGED <<queueVars, msgVars, body, sent, prompt, storeVars, store, newAsked>>

(* preparePromptForAgent: how much of the memory and the instructions goes *)
(* in is left out here; what matters is whether the recent conversation    *)
(* does, and with it that rebuildForNewSession() is kept for later.        *)
AssembledPrompt(m) == IF BoundSession(m) = NoSession THEN "standalone" ELSE "continuing"

(* The message is saved; then the prompt is assembled for the binding there*)
(* is now.                                                                 *)
Assemble(m) ==
  /\ \/ stage[m] = "accepted" /\ m \notin LongMsg
     \/ stage[m] = "summarising" /\ PromiseOf("summary", m) = "resolved"
  /\ stage' = [stage EXCEPT ![m] = "assembled"]
  /\ prompt' = [prompt EXCEPT ![m] = AssembledPrompt(m)]
  /\ UNCHANGED <<queueVars, msgVars, body, sent, storeVars, store, newAsked>>

(* executionQueue.enqueue(userId, 'chat', 'high', turn) *)
EnqueueTurn(m) ==
  /\ stage[m] = "assembled"
  /\ stage' = [stage EXCEPT ![m] = "waiting"]
  /\ job' = [job EXCEPT ![seq + 1] = [kind |-> "turn", msg |-> m]]
  /\ Enqueue(sender[m], 0)
  /\ StartBodies
  /\ UNCHANGED <<nmsg, sender, force, hung, store, newAsked>>


(* The handler goes on with the answer of its turn, and with its rejection.*)
Handled == {"resolved", "rejected"}

(* The handler gets the answer of the turn, or its rejection, and replies. *)
Reply(m) ==
  /\ stage[m] = "waiting"
  /\ PromiseOf("turn", m) \in Handled
  /\ stage' = [stage EXCEPT ![m] = "done"]
  /\ UNCHANGED <<queueVars, msgVars, body, sent, prompt, storeVars, store, newAsked>>

----------------------------------------------------------------------------
(* Steps of the queue *)

Drain(u) ==
  /\ DrainResumes(u)
  /\ UNCHANGED <<nmsg, sender, force, job, hung, stage, store, newAsked>>
  /\ StartBodies

(* /abort *)
Abort(u) ==
  /\ Cancel(u)
  /\ Disturb
  /\ UNCHANGED <<msgVars, turnVars, binding, disk, wentStale, restored, store, newAsked>>

SummaryEnds(t) ==
  /\ t \in live /\ job[t.id].kind = "summary" /\ Returns(t)
  /\ \E result \in {"resolved", "rejected"} : RunEnds(t, result)
  /\ UNCHANGED <<msgVars, turnVars, storeVars, store, newAsked>>

(* callRunner and callRunnerStream: the response is closed after its head, *)
(* without a reset.  Neither "end" nor "error" comes, and the time limit   *)
(* has gone with the socket: the call of t never returns, nor does an      *)
(* abort reach it.                                                         *)
CutShort(t) ==
  /\ Disturb
  /\ t \in live /\ Returns(t)
  /\ hung' = hung \cup {t.id}
  /\ UNCHANGED <<queueVars, nmsg, sender, force, job, leftBy, turnVars, binding, disk,
                 wentStale, restored, store, newAsked>>

----------------------------------------------------------------------------
(* opencode's database *)

(* The sessions of the runs in progress.  The runner is through with a     *)
(* call that was cut short, or has gone.                                   *)
InUse == {SessionOfAnswer(m) : m \in {n \in Msg : InRun(n) /\ Returns(TaskOf(n))}}

(* A session that is not in use is removed: by the retention, by hand, with*)
(* its volume.                                                             *)
Vanish(s) ==
  /\ Disturb
  /\ s \in store \ InUse
  /\ store' = store \ {s}
  /\ UNCHANGED <<queueVars, msgVars, turnVars, binding, disk, wentStale, restored, newAsked>>

----------------------------------------------------------------------------
(* The main process goes down and comes up: the queue, the handlers and    *)
(* the marks of /new are gone, the children with them, and the bindings    *)
(* are read from the file.                                                 *)
Restart ==
  /\ Disturb
  /\ states' = {} /\ live' = {} /\ aborted' = {}
  /\ pending' = [u \in User |-> <<>>]
  /\ current' = [u \in User |-> NoTask]
  /\ race' = [u \in User |-> "none"]
  /\ stage' = [m \in Msg |-> IF stage[m] = "none" THEN "none" ELSE "done"]
  /\ body' = [m \in Msg |-> IF InRun(m) THEN "over" ELSE body[m]]
  /\ newAsked' = {}
  /\ binding' = disk.bound
  /\ restored' = restored \cup {u \in User : disk.bound[u] \notin {binding[u], NoSession}}
  /\ sent' = [m \in Msg |-> NoSession]
  /\ prompt' = [m \in Msg |-> "none"]
  /\ UNCHANGED <<seq, promise, msgVars, disk, wentStale, store>>

HandlerSteps(m) == \/ Summarise(m) \/ SummaryFails(m) \/ Assemble(m) \/ EnqueueTurn(m)
                   \/ Reply(m)

Progress ==
  \/ \E u \in User : Drain(u)
  \/ \E m \in Msg : \/ HandlerSteps(m)
                    \/ TurnSucceeds(m) \/ TurnFails(m) \/ TurnSessionMissing(m)
  \/ \E t \in live : SummaryEnds(t)

CNext ==
  \/ \E u \in User : AskNew(u) \/ Receive(u) \/ Abort(u)
  \/ Progress
  \/ \E t \in live : CutShort(t)
  \/ \E s \in Msg : Vanish(s)
  \/ Restart

(* Handlers and the queue take the steps they can, and a run ends unless   *)
(* its call was cut short: the agents put a time limit on every child      *)
(* process and on every request.  Users, the retention and failures owe    *)
(* nothing.  There are only so many of their steps, so it *)
(* is enough that not all of them are put off for ever.                    *)
CSpec == CInit /\ [][CNext]_cvars /\ WF_cvars(Progress)

----------------------------------------------------------------------------
(* Properties *)

ChatTypeOK ==
  /\ nmsg \in 0 .. MaxMsg
  /\ sender \in [Msg -> User]
  /\ stage \in [Msg -> {"none", "accepted", "summarising", "assembled", "waiting", "done"}]
  /\ force \in [Msg -> BOOLEAN]
  /\ job \in [1 .. MaxTask -> [kind : {"none", "summary", "turn"}, msg : 0 .. MaxMsg]]
  /\ body \in [Msg -> {"idle", "first", "second", "over"}]
  /\ hung \subseteq 1 .. MaxTask
  /\ sent \in [Msg -> 0 .. MaxMsg]
  /\ prompt \in [Msg -> {"none", "continuing", "standalone"}]
  /\ newAsked \subseteq User
  /\ binding \in [User -> 0 .. MaxMsg]
  /\ disk \in [readable : BOOLEAN, bound : [User -> 0 .. MaxMsg]]
  /\ store \subseteq Msg

(* A prompt assembled to continue a session leaves the recent conversation *)
(* out.  It must never open a session, whatever became of the binding      *)
(* between the assembly and the run, or between the first run and the      *)
(* second: the model would have no context at all.                         *)
NoPromptWithoutContext ==
  /\ ChatTypeOK
  /\ \A m \in Msg : InRun(m) /\ sent[m] = NoSession => prompt[m] = "standalone"

Starts(m) == body[m] = "idle" /\ body'[m] = "first"

(* Once the turn of a /new message has begun, no later turn of the user    *)
(* goes back to the session it left, through failures, lost sessions and   *)
(* restarts, except by what `restored` records: a turn that went on after  *)
(* its abort, or a state file that could not be written.                   *)
LeftSessionStaysLeft ==
  [][\A m, f \in Msg :
       /\ Starts(m)
       /\ force[f] /\ body[f] # "idle" /\ sender[f] = sender[m]
       /\ sender[m] \notin restored
       => sent'[m] \notin leftBy[f]]_cvars

(* A call that never returns holds the queue of u, and nobody has aborted  *)
(* it.                                                                     *)
Held(u) == current[u].id \in hung \ aborted

=============================================================================
