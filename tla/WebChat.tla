------------------------------- MODULE WebChat -------------------------------
(***************************************************************************)
(* The chat view of the web console (web/public/app/views/chat.js) and the *)
(* two endpoints it goes by (web/server.ts): pages of the history, loaded  *)
(* upwards from the newest by a time cursor, while messages are sent and   *)
(* their replies streamed, and the view is reloaded.                       *)
(*                                                                         *)
(* An action of the view is what it does between two awaits.  A message is *)
(* the same message when it is typed, when it is stored and when a page    *)
(* brings it back.                                                         *)
(***************************************************************************)
EXTENDS Naturals

CONSTANT Msg

VARIABLES
  rows,      (* the messages that the server has stored *)
  known,     (* and those it ever had *)
  time,      (* the timestamp of each *)
  clock,     (* the server's; it does not go back *)
  reply,     (* the streams that are open: message -> its reply, as pairs *)
  items,     (* chatState.items, as a set *)
  hasMore,   (* chatState.hasMore *)
  loading,   (* chatState.loading, and what the load is: none, first, older *)
  cursor,    (* the timestamp it goes by *)
  page,      (* what the server has answered: {} or one answer *)
  streaming, (* chatState.isStreaming *)
  oldest,    (* chatState.oldestLoadedTimestamp, 0 for null *)
  shown,     (* how often the page on the screen has each message *)
  blind      (* history: once a page older than nothing was asked for *)

server == <<rows, known, time, clock>>
load   == <<loading, cursor, page>>
wvars  == <<server, load, reply, items, hasMore, streaming, oldest, shown, blind>>

None == [m \in Msg |-> 0]

Init ==
  /\ rows \in SUBSET Msg /\ known = rows
  /\ clock \in Nat /\ time \in [Msg -> Nat]
  /\ \A m \in rows : 0 < time[m] /\ time[m] <= clock
  /\ reply = {}
  /\ items = {} /\ hasMore = TRUE /\ streaming = FALSE /\ oldest = 0
  /\ loading = "none" /\ cursor = 0 /\ page = {}
  /\ shown = None /\ blind = FALSE

----------------------------------------------------------------------------
(* The server *)

(* Messages of the turns the view has asked for, and of others. *)
Stores(m) ==
  /\ m \notin known
  /\ rows' = rows \cup {m} /\ known' = known \cup {m}
  /\ \E t \in Nat : /\ t >= clock /\ t > 0
                    /\ time' = [time EXCEPT ![m] = t]
                    /\ clock' = t
  /\ UNCHANGED <<load, reply, items, hasMore, streaming, oldest, shown, blind>>

(* The memory tools delete. *)
Deletes(some) ==
  /\ rows' = rows \ some
  /\ UNCHANGED <<known, time, clock, load, reply, items, hasMore, streaming, oldest, shown,
                 blind>>

(* getMessagesBefore; getMessagesPage without a cursor. *)
Before(c) == {m \in rows : c = 0 \/ time[m] < c}

(* The newest of them, as many as go on a page. *)
IsPage(p, c) ==
  /\ p \subseteq Before(c)
  /\ Before(c) # {} => p # {}
  /\ \A m \in p, n \in Before(c) \ p : time[m] >= time[n]

Answers ==
  /\ loading # "none" /\ page = {}
  /\ \E p \in SUBSET rows :
       /\ IsPage(p, cursor)
       /\ page' = {[items |-> p, hasMore |-> p # Before(cursor)]}
  /\ UNCHANGED <<server, loading, cursor, reply, items, hasMore, streaming, oldest, shown, blind>>

----------------------------------------------------------------------------
(* loadOlderMessages *)

(* Up to its await. *)
BeginLoad(kind) ==
  /\ loading = "none" /\ hasMore /\ ~ streaming
  /\ loading' = kind /\ page' = {}

(* The user scrolls to the top or picks a date, or the page does not fill  *)
(* the screen.                                                             *)
LoadsOlder ==
  /\ BeginLoad("older")
  /\ cursor' = oldest
  /\ blind' = (blind \/ oldest = 0)
  /\ UNCHANGED <<server, reply, items, hasMore, streaming, oldest, shown>>

(* The view is shown without items. *)
LoadsFirst ==
  /\ items = {}
  /\ BeginLoad("first")
  /\ cursor' = oldest
  /\ blind' = blind
  /\ UNCHANGED <<server, reply, items, hasMore, streaming, oldest, shown>>

(* The button: nothing is loaded while something else goes on.             *)
Reload ==
  /\ items' = {} /\ hasMore' = TRUE /\ oldest' = 0
  /\ IF loading = "none" /\ ~ streaming
       THEN loading' = "first" /\ page' = {} /\ cursor' = 0
       ELSE UNCHANGED load
  /\ UNCHANGED <<server, reply, streaming, shown, blind>>

OldestOf(p) == {t \in {time[m] : m \in p} : \A m \in p : t <= time[m]}

Times(set) == [m \in Msg |-> IF m \in set THEN 1 ELSE 0]

(* A first page replaces what there is, an older one is put before it.  An *)
(* empty one says that there is no more; then oldest is read no more.      *)
Loaded ==
  \E p \in page :
    /\ items' = IF loading = "first" THEN p.items ELSE p.items \cup items
    /\ shown' = IF loading = "first" THEN Times(p.items)
                ELSE [m \in Msg |-> shown[m] + Times(p.items)[m]]
    /\ hasMore' = p.hasMore
    /\ oldest' \in IF p.items = {} THEN {oldest} ELSE OldestOf(p.items)
    /\ loading' = "none" /\ page' = {}
    /\ UNCHANGED <<server, cursor, reply, streaming, blind>>

(* The history cannot be had; a first load draws the items all the same. *)
LoadFails ==
  /\ loading # "none"
  /\ loading' = "none" /\ page' = {}
  /\ shown' = IF loading = "first" THEN Times(items) ELSE shown
  /\ UNCHANGED <<server, cursor, reply, items, hasMore, streaming, oldest, blind>>

----------------------------------------------------------------------------
(* sendMessage.  Nothing keeps a second one from being sent meanwhile.     *)

Used == known \cup items \cup {x[1] : x \in reply} \cup {x[2] : x \in reply}

Sends(m, r) ==
  /\ m # r /\ {m, r} \cap Used = {} /\ shown[m] = 0 /\ shown[r] = 0
  /\ reply' = reply \cup {<<m, r>>}
  /\ items' = items \cup {m}
  /\ shown' = [shown EXCEPT ![m] = @ + 1, ![r] = @ + 1]
  /\ streaming' = TRUE
  /\ UNCHANGED <<server, load, hasMore, oldest, blind>>

(* With the reply, or with the text of what broke it off.  An error that   *)
(* the server reports only goes to the status line.                        *)
EndsWith(x) == {items \cup {x[2]}, items}

StreamEnds(x) ==
  /\ x \in reply
  /\ reply' = reply \ {x}
  /\ items' \in EndsWith(x)
  /\ streaming' = FALSE
  /\ UNCHANGED <<server, load, hasMore, oldest, shown, blind>>

Next ==
  \/ \E m \in Msg : Stores(m)
  \/ \E some \in SUBSET Msg : Deletes(some)
  \/ Answers
  \/ LoadsOlder \/ LoadsFirst \/ Reload \/ Loaded \/ LoadFails
  \/ \E m, r \in Msg : Sends(m, r)
  \/ \E x \in Msg \X Msg : StreamEnds(x)

Spec == Init /\ [][Next]_wvars

----------------------------------------------------------------------------
WebTypeOK ==
  /\ rows \subseteq known /\ known \subseteq Msg
  /\ time \in [Msg -> Nat] /\ clock \in Nat
  /\ \A m \in known : 0 < time[m] /\ time[m] <= clock
  /\ reply \subseteq Msg \X Msg
  /\ items \subseteq Msg
  /\ hasMore \in BOOLEAN /\ streaming \in BOOLEAN /\ blind \in BOOLEAN
  /\ loading \in {"none", "first", "older"}
  /\ page \subseteq [items : SUBSET Msg, hasMore : BOOLEAN]
  /\ cursor \in Nat /\ oldest \in Nat
  /\ shown \in [Msg -> Nat]

(* No message is on the screen twice, as long as the view has not asked for*)
(* older messages without knowing what its oldest is.  It does not know    *)
(* after a reload that was clicked during a load or a stream, and after a  *)
(* first load that failed.                                                 *)
NoneTwice == ~ blind => \A m \in Msg : shown[m] <= 1
=============================================================================
