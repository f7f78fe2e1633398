------------------------------ MODULE EventLog ------------------------------
(***************************************************************************)
(* A log that changes its file every day and keeps the old ones for a      *)
(* while: events.jsonl of services/event-bus.ts, which the main process    *)
(* and the runner both write, and the runner's audit log of                *)
(* services/audit-log.ts.  Days are numbers; a line is its number and day. *)
(***************************************************************************)
EXTENDS Integers, FiniteSets

CONSTANT RetentionDays

(* today     the date; lines, those written so far                         *)
(* file      the file of the log, [lines, mtime]; no lines: there is none  *)
(* rotated   the files of earlier days, [name, lines, mtime]               *)
(* known     currentDateStr of each process                                *)
LogStart(processes) ==
  [today |-> 1, lines |-> {}, file |-> [lines |-> {}, mtime |-> 1], rotated |-> {},
   known |-> [p \in processes |-> 1]]

PurgeOldFiles(s) == [s EXCEPT !.rotated = {r \in @ : r.mtime >= s.today - RetentionDays}]

(* rename puts the file in the place of one that has the name already. *)
Renamed(s, name) ==
  IF s.file.lines = {} THEN s
  ELSE [s EXCEPT !.rotated = {r \in @ : r.name # name} \cup
                   {[name |-> name, lines |-> s.file.lines, mtime |-> s.file.mtime]},
                 !.file = [lines |-> {}, mtime |-> s.today]]

CheckAndRotate(s, p) ==
  IF s.today = s.known[p] THEN s
  ELSE PurgeOldFiles([Renamed(s, s.known[p]) EXCEPT !.known[p] = s.today])

AppendLine(before, p) ==
  LET s    == CheckAndRotate(before, p)
      line == [id |-> Cardinality(s.lines) + 1, day |-> s.today]
  IN [s EXCEPT !.lines = @ \cup {line},
               !.file  = [lines |-> @.lines \cup {line}, mtime |-> s.today]]

Restart(s, p) == [s EXCEPT !.known[p] = s.today]
=============================================================================
