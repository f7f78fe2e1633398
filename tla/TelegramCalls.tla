--------------------------- MODULE TelegramCalls ---------------------------
(***************************************************************************)
(* The calls of the Telegram connector (callTelegram, withTimeout and what *)
(* sendMessage, editMessage and their like do with them), and the chat as  *)
(* Telegram has it.                                                        *)
(*                                                                         *)
(* A call is one attempt after another.  A time limit only makes the       *)
(* caller stop waiting: the request is not taken back, and Telegram may    *)
(* still execute it, in any order with later ones.  A fault is a request   *)
(* that is refused, cut off, or executed late.                             *)
(***************************************************************************)
EXTENDS Faults, Sequences, FiniteSets

CONSTANT ApiRetryCount  (* TELEGRAM_API_RETRY_COUNT, the retries of a call by default *)

ASSUME CallsAssumption == ApiRetryCount \in Nat \ {0}

VARIABLES
  call,     (* the request that is waited for *)
  taken,    (* whether Telegram has executed it *)
  left,     (* the retries it has left *)
  options,  (* its retries, retryOnTimeout, and whether the text is formatted *)
  result,   (* what has become of the call: none, waiting, ok, thrown *)
  wire,     (* the requests Telegram may still execute *)
  chat,     (* the messages: what each shows, and the requests that sent
               it and that wrote it last *)
  gaveUp,   (* the requests, not lost, whose caller stopped waiting *)
  cut       (* those of them whose connection broke *)

callVars == <<call, taken, left, options, result>>
netVars  == <<wire, chat, gaveUp, cut, faults>>
tvars    == <<callVars, netVars>>

(* A message or an edit shows a piece of the answer (numbered from 1), the *)
(* progress, or an error.                                                  *)
Shows(what, piece) == [what |-> what, piece |-> piece]

Request(id, op, text, msg) == [id |-> id, op |-> op, text |-> text, msg |-> msg]

NoRequest == Request(0, "none", Shows("nothing", 0), 0)

Options(retries, retryOnTimeout, formatted) ==
  [retries |-> retries, retryOnTimeout |-> retryOnTimeout, formatted |-> formatted]

TInit ==
  /\ call = NoRequest /\ taken = FALSE /\ left = 0 /\ options = Options(0, TRUE, FALSE)
  /\ result = "none"
  /\ wire = {} /\ chat = <<>>
  /\ gaveUp = {} /\ cut = {} /\ faults = 0

(* The numbers in use when the requests w are under way.  That of the last *)
(* attempt is not used again, so that it can be told from the next one.    *)
Numbers(w) ==
  {call.id} \cup {r.id : r \in w} \cup gaveUp
    \cup UNION {{chat[m].by, chat[m].last} : m \in DOMAIN chat}

(* An attempt: the request goes out, in addition to w, and its answer is   *)
(* waited for.                                                             *)
Attempt(r, retries, w) ==
  /\ call' = [r EXCEPT !.id =
       CHOOSE i \in 1 .. Cardinality(Numbers(w)) + 1 : i \notin Numbers(w)]
  /\ wire' = w \cup {call'}
  /\ taken' = FALSE
  /\ left' = retries
  /\ result' = "waiting"

(* callTelegram: to be used by the caller, who then waits for the result.  *)
Call(op, text, msg, o) ==
  /\ Attempt(Request(0, op, text, msg), o.retries, wire)
  /\ options' = o
  /\ UNCHANGED <<chat, gaveUp, cut, faults>>

(* The caller takes the result and has no other call to make. *)
NoCall ==
  /\ result' = "none" /\ left' = 0 /\ options' = Options(0, TRUE, FALSE)
  /\ UNCHANGED <<call, taken, netVars>>


----------------------------------------------------------------------------
(* Telegram *)

Effect(r) ==
  CASE r.op = "send"   -> Append(chat, [text |-> r.text, by |-> r.id, last |-> r.id])
    [] r.op = "edit" /\ chat[r.msg].text.what # "deleted" ->
         [chat EXCEPT ![r.msg].text = r.text, ![r.msg].last = r.id]
    [] r.op = "delete" -> [chat EXCEPT ![r.msg].text = r.text, ![r.msg].last = r.id]
    [] OTHER           -> chat

(* A request is executed, waited for or not.  One that never is got lost. *)
Takes(r) ==
  /\ r \in wire
  /\ wire' = wire \ {r}
  /\ chat' = Effect(r)
  /\ taken' = (taken \/ r = call)
  /\ UNCHANGED <<call, left, options, result, gaveUp, cut, faults>>

----------------------------------------------------------------------------
(* The end of an attempt *)

Waiting == result = "waiting"

Returns ==
  /\ Waiting /\ taken
  /\ result' = "ok"
  /\ UNCHANGED <<call, taken, left, options, netVars>>

(* One more attempt while there are retries, if this error allows it, on   *)
(* the requests w that are still under way.                                *)
RetryOrThrow(retryable, w) ==
  IF retryable /\ left > 0
  THEN Attempt(call, left - 1, w) /\ UNCHANGED options
  ELSE result' = "thrown" /\ wire' = w /\ UNCHANGED <<call, taken, left, options>>

(* Telegram answers with an error: one that may pass (429, 5xx) or not.    *)
IsRefused ==
  /\ Waiting /\ call \in wire
  /\ Fault
  /\ \E retryable \in BOOLEAN : RetryOrThrow(retryable, wire \ {call})
  /\ UNCHANGED <<chat, gaveUp, cut>>

(* It cannot parse the formatting: the same text is sent as plain text, in *)
(* a call of its own.                                                      *)
ParseRefused ==
  /\ Waiting /\ call \in wire /\ options.formatted
  /\ Fault
  /\ options' = [options EXCEPT !.formatted = FALSE]
  /\ Attempt(call, options.retries, wire \ {call})
  /\ UNCHANGED <<chat, gaveUp, cut>>

(* Only a request that writes something needs to be remembered. *)
Writing == IF call.op \in {"send", "edit"} THEN {call.id} ELSE {}

(* ECONNRESET or "socket hang up", before or after the request was executed *)
ConnectionBreaks ==
  /\ Waiting
  /\ Fault
  /\ gaveUp' = gaveUp \cup Writing
  /\ cut' = cut \cup Writing
  /\ RetryOrThrow(TRUE, wire \ {r \in {call} : r.op = "draft"})
  /\ UNCHANGED chat

(* Variant: a time-out is retried like any other error. *)
AlwaysRetried == TRUE

(* A time-out is retried unless the caller said retryOnTimeout: false.     *)
TimeOutRetried == options.retryOnTimeout

(* Variant: only the first attempt has a time limit. *)
LimitsFirst == Waiting /\ left = options.retries

(* withTimeout *)
LimitRuns == Waiting

(* The time limit of an attempt passes.  The request was executed, is lost *)
(* or is only late (a draft that comes late does nothing lasting).         *)
TimesOut ==
  /\ LimitRuns
  /\ \/ RetryOrThrow(TimeOutRetried, wire \ {call}) /\ UNCHANGED faults
     \/ call \in wire /\ call.op # "draft" /\ Fault /\ RetryOrThrow(TimeOutRetried, wire)
  /\ gaveUp' = gaveUp \cup (IF taken \/ call \in wire' THEN Writing ELSE {})
  /\ UNCHANGED <<chat, cut>>

Settles == Returns \/ TimesOut

TNext ==
  \/ \E r \in wire : Takes(r)
  \/ Settles \/ IsRefused \/ ParseRefused \/ ConnectionBreaks

TypeOfCalls ==
  /\ result \in {"none", "waiting", "ok", "thrown"}
  /\ {taken, options.retryOnTimeout, options.formatted} \subseteq BOOLEAN
  /\ left \in 0 .. options.retries
  /\ Numbers(wire) \subseteq Nat
  /\ \A r, q \in wire : r.id = q.id => r = q
  /\ cut \subseteq gaveUp
  /\ faults \in 0 .. MaxFault
=============================================================================
