----------------------------- MODULE LegacyScope -----------------------------
(***************************************************************************)
(* The migration of the sessions that Memoria has in a legacy scope        *)
(* (services/memoria-legacy-scope.ts): a preview, a check that Memoria has *)
(* been stopped, a backup, one transaction, a record.  The file is         *)
(* Memoria's; a Memoria that the check has missed goes on writing it.      *)
(*                                                                         *)
(* An action is one call on the database or on the network.  The tool may  *)
(* be killed between any two of them and be run again.  One run at a time. *)
(***************************************************************************)
EXTENDS Naturals

CONSTANTS
  Session, User,
  Name      (* what a topic of the index is called *)

VARIABLES
  sessions, (* the rows there are *)
  scope,    (* of each row *)
  evidence, (* what the events of a session say of its owner *)
  indexed,  (* the scope a session's index node was built in: {} or one *)
  topics,   (* the topics of the index, *)
  about,    (* the sessions they come from, *)
  roots,    (* and the scopes that have a root node *)
  up,       (* Memoria is running *)
  tool,     (* how far the run of the tool is *)
  from,     (* the scope it empties *)
  preview,  (* the sessions it saw to migrate *)
  (* history, read by the properties only *)
  moved,    (* the rows that were migrated, as they were *)
  kept,     (* the rows that a backup holds *)
  late      (* sessions written between a backup and its transaction *)

index == <<indexed, topics, about, roots>>
rows  == <<sessions, scope, evidence>>
trace == <<moved, kept, late>>
lvars == <<index, rows, up, tool, from, preview, trace>>

Scope == [kind : {"project", "user", "scheduler"}, of : User]
Topic == [scope : Scope, name : Name]
Owner == [platform : {"telegram", "console", "scheduler"}, user : User]
Owners == {{}} \cup {{o} : o \in Owner}

(* models, users: events of that kind; owner: nobody if the metadata names *)
(* no supported platform and user; readable: the texts can be taken out.   *)
Evidence == [users : 0 .. 2, models : 0 .. 2, owner : Owners, modelOwner : Owners,
             readable : BOOLEAN]

(* classifySession *)
Classified(e) ==
  /\ e.users = 1 /\ e.models <= 1
  /\ e.owner # {}
  /\ e.models = 1 => e.modelOwner = e.owner
  /\ e.readable

TargetScope(e) ==
  LET o == CHOOSE w \in e.owner : TRUE
  IN  [kind |-> IF o.platform = "scheduler" THEN "scheduler" ELSE "user", of |-> o.user]

(* planMigration; the other sessions of the scope are for review by hand. *)
Planned(f) == {s \in sessions : scope[s] = f /\ Classified(evidence[s])}

Init ==
  /\ sessions = {} /\ scope \in [Session -> Scope] /\ evidence \in [Session -> Evidence]
  /\ indexed = [s \in Session |-> {}]
  /\ topics = {} /\ about = {} /\ roots = {}
  /\ up \in BOOLEAN
  /\ tool = "idle" /\ from \in Scope /\ preview = {}
  /\ moved = {} /\ kept = {} /\ late = {}

----------------------------------------------------------------------------
(* Memoria, and the index it builds *)

StartsOrStops ==
  /\ up' = ~ up
  /\ UNCHANGED <<index, rows, tool, from, preview, trace>>

WritesSession(s) ==
  /\ up /\ s \notin sessions
  /\ sessions' = sessions \cup {s}
  /\ \E f \in Scope : scope' = [scope EXCEPT ![s] = f]
  /\ \E e \in Evidence : evidence' = [evidence EXCEPT ![s] = e]
  /\ late' = IF tool = "backed" THEN late \cup {s} ELSE late
  /\ UNCHANGED <<index, up, tool, from, preview, moved, kept>>

WritesEvent(s) ==
  /\ up /\ s \in sessions
  /\ \E e \in Evidence : evidence' = [evidence EXCEPT ![s] = e]
  /\ UNCHANGED <<index, sessions, scope, up, tool, from, preview, trace>>

(* memoria index build takes the sessions that have no source. *)
BuildsIndex(s, n) ==
  /\ s \in sessions /\ indexed[s] = {}
  /\ LET t == [scope |-> scope[s], name |-> n]
     IN  /\ indexed' = [indexed EXCEPT ![s] = {scope[s]}]
         /\ topics' = topics \cup {t}
         /\ about' = about \cup {<<t, s>>}
         /\ roots' = roots \cup {scope[s]}
  /\ UNCHANGED <<rows, up, tool, from, preview, trace>>

----------------------------------------------------------------------------
(* The tool *)

(* A run that is to write.  One that is not ends with the report here, and *)
(* so does any run of a file without the columns or in disorder.           *)
Preview(f) ==
  /\ tool = "idle"
  /\ tool' = "previewed" /\ from' = f /\ preview' = Planned(f)
  /\ UNCHANGED <<index, rows, up, trace>>

(* Nobody answers at the address.  A name that cannot be looked up just    *)
(* now passes for that, whether Memoria runs or not.                       *)
FindsStopped ==
  /\ tool = "previewed"
  /\ tool' = IF preview = {} THEN "idle" ELSE "checked"
  /\ UNCHANGED <<index, rows, up, from, preview, trace>>

(* VACUUM INTO *)
BacksUp ==
  /\ tool = "checked"
  /\ tool' = "backed"
  /\ kept' = kept \cup {<<s, scope[s]>> : s \in sessions}
  /\ UNCHANGED <<index, rows, up, from, preview, moved, late>>

(* The sessions are out of the index; then the topics of the old scope     *)
(* without a source, then its root if it has no topic.                     *)
Unindex(plan) ==
  LET left == {x \in about : x[2] \notin plan}
      stay == {t \in topics : t.scope = from => \E s \in sessions : <<t, s>> \in left}
  IN  /\ indexed' = [s \in Session |-> IF s \in plan THEN {} ELSE indexed[s]]
      /\ about' = left
      /\ topics' = stay
      /\ roots' = {f \in roots : f = from => \E t \in stay : t.scope = from}

(* applyPlan, on the rows there are now, and the commit.  What is left in  *)
(* the old scope must be what is for review.                               *)
Rewrites ==
  LET plan == Planned(from)
  IN  /\ tool = "backed"
      /\ \A s \in plan : TargetScope(evidence[s]) # from
      /\ scope' = [s \in Session |->
                     IF s \in plan THEN TargetScope(evidence[s]) ELSE scope[s]]
      /\ Unindex(plan)
      /\ moved' = moved \cup {<<s, from>> : s \in plan}
      /\ tool' = "written"
      /\ UNCHANGED <<sessions, evidence, up, from, preview, kept, late>>

(* The run ends: with its record, on a refusal, with a failed backup, with *)
(* a transaction rolled back, or killed.                                   *)
Ends ==
  /\ tool # "idle"
  /\ tool' = "idle"
  /\ UNCHANGED <<index, rows, up, from, preview, trace>>

Next ==
  \/ StartsOrStops
  \/ \E s \in Session : WritesSession(s) \/ WritesEvent(s) \/ (\E n \in Name : BuildsIndex(s, n))
  \/ \E f \in Scope : Preview(f)
  \/ FindsStopped \/ BacksUp \/ Rewrites \/ Ends

Spec == Init /\ [][Next]_lvars

----------------------------------------------------------------------------
LegacyTypeOK ==
  /\ sessions \subseteq Session
  /\ scope \in [Session -> Scope]
  /\ evidence \in [Session -> Evidence]
  /\ indexed \in [Session -> SUBSET Scope]
  /\ topics \subseteq Topic /\ about \subseteq Topic \X Session /\ roots \subseteq Scope
  /\ tool \in {"idle", "previewed", "checked", "backed", "written"}
  /\ from \in Scope

(* Memoria's index, the tree of topics in memory_nodes and the sessions    *)
(* they come from, never has a session, or a topic that comes from it, in a*)
(* scope the session is no longer in: the builder passes over what it has  *)
(* once indexed, so that such an entry would stay for good.  And what is   *)
(* left of the old scope's index hangs together.                           *)
IndexAgrees ==
  /\ \A s \in Session : indexed[s] # {} => s \in sessions /\ indexed[s] = {scope[s]}
  /\ \A t \in Topic, s \in Session :
       <<t, s>> \in about => /\ t \in topics /\ t.scope = scope[s]
                             /\ indexed[s] # {}
  /\ \A t \in topics : t.scope \in roots

(* Whatever the tool has rewritten is in a backup as it was, through runs  *)
(* that were killed and runs after them, but for the sessions that Memoria *)
(* wrote between a backup and its transaction.                             *)
RewrittenIsKept ==
  \A s \in Session, f \in Scope : <<s, f>> \in moved => <<s, f>> \in kept \/ s \in late
=============================================================================
