----------------------------- MODULE StreamProofs -----------------------------
(*****************************************************************************)
(* Proofs about what arrives piece by piece: the output of the CLI           *)
(* (CliStream) and the messages on the screen of the web console (WebChat).  *)
(*****************************************************************************)
EXTENDS CliStream, WebChat, FiniteSetTheorems, TLAPS

----------------------------------------------------------------------------
(*****************************************************************************)
(* CliStream, for a streamed run of any length.  The heart of it: unless     *)
(* somebody stopped the run or a callback threw, the close handler decides   *)
(* only when the chain of lines is through, and nothing enters the chain     *)
(* after the close.                                                          *)
(*****************************************************************************)

(* The chain never runs ahead of what has been written. *)
ChainInv ==
  /\ out \in Seq(Line)
  /\ begun \in Nat /\ chained \in Nat
  /\ begun =< chained /\ chained =< Len(out)
  /\ at # "none" => begun > 0

(* Where the close handler is, what it has decided and what is answered. *)
EndInv ==
  /\ pc # "open" => ~ leader /\ ~ helper
  /\ pc \in {"open", "wait"} => verdict = "none"
  /\ pc \in {"last", "follow"} => settled /\ result = "none"
  /\ ~ settled => pc \in {"open", "wait"} /\ result = "none"
  /\ settled /\ pc \in {"open", "wait"} => result = "callback-error"
  /\ result \notin {"none", "callback-error"} => pc = "end"

(* Only an abort or the time limit lets go of the wait for the chain. *)
ReleaseInv == released => aborted \/ timedOut

(* Decided means that the chain is through. *)
ThroughInv ==
  /\ verdict # "none" => Stopped \/ ChainIsThrough
  /\ pc \in {"last", "follow", "end"} => \/ Stopped
                                         \/ result = "callback-error"
                                         \/ ChainIsThrough

LInv == /\ ChainInv /\ EndInv /\ ReleaseInv /\ ThroughInv
        /\ MissingDidNothing /\ NothingAfterTheEnd

USE DEF Stopped

(* Nothing has happened yet. *)
LEMMA LInvInit == LInit => LInv
BY DEF LInit, LInv, ChainInv, EndInv, ReleaseInv, ThroughInv, ChainIsThrough,
       MissingDidNothing, NothingAfterTheEnd, Line

(* The steps of the child. *)
LEMMA ChildKeeps ==
  ASSUME LInv, Writes \/ HelperComesOrGoes \/ LeaderExits \/ Escalate
  PROVE  LInv'
<1> USE DEF LInv
<1>1. UNCHANGED <<lineVars, flagVars, endVars, resumed>>
  BY DEF Writes, HelperComesOrGoes, LeaderExits, Escalate
<1>2. out' \in Seq(Line) /\ Len(out') >= Len(out)
  <2>1. CASE Writes
    BY <2>1 DEF Writes, ChainInv
  <2>2. CASE UNCHANGED out
    BY <2>2 DEF ChainInv
  <2> QED
    BY <2>1, <2>2 DEF HelperComesOrGoes, LeaderExits, Escalate
<1>3. ~ leader /\ ~ helper => ~ leader' /\ ~ helper'
  BY DEF Writes, HelperComesOrGoes, LeaderExits, Escalate
<1>4. ChainInv'
  BY <1>1, <1>2 DEF ChainInv, lineVars
<1>5. EndInv'
  BY <1>1, <1>3 DEF EndInv, endVars
<1>6. ReleaseInv' /\ ThroughInv' /\ MissingDidNothing' /\ NothingAfterTheEnd'
  BY <1>1 DEF ReleaseInv, ThroughInv, ChainIsThrough, MissingDidNothing, NothingAfterTheEnd,
              lineVars, flagVars, endVars
<1> QED
  BY <1>4, <1>5, <1>6

(* The steps of the chain. *)
LEMMA ChainKeeps ==
  ASSUME LInv, Data \/ LineBegins \/ CallbackReturns \/ CallbackThrows \/ Heartbeat
  PROVE  LInv'
<1> USE DEF LInv
<1>1. CASE Data
  BY <1>1 DEF Data, ChainInv, EndInv, ReleaseInv, ThroughInv, ChainIsThrough, MissingDidNothing,
              NothingAfterTheEnd, childVars, flagVars, endVars
<1>2. CASE LineBegins
  <2>1. /\ UNCHANGED <<childVars, chained, flagVars, endVars>>
        /\ begun' = begun + 1 /\ begun < chained
        /\ late' => late \/ pc \in {"last", "end"}
    BY <1>2 DEF LineBegins, SendText, Ended
  <2>2. ~ ChainIsThrough
    BY <2>1 DEF ChainInv, ChainIsThrough
  <2> QED
    BY <2>1, <2>2 DEF ChainInv, EndInv, ReleaseInv, ThroughInv, MissingDidNothing,
                      NothingAfterTheEnd, childVars, flagVars, endVars
<1>3. CASE CallbackReturns
  <2>1. /\ UNCHANGED <<childVars, chained, begun, flagVars, endVars>>
        /\ at # "none" /\ begun > 0
        /\ late' => late \/ pc \in {"last", "end"}
    <3>1. at # "none" /\ UNCHANGED <<childVars, chained, begun, flagVars, endVars>>
      BY <1>3 DEF CallbackReturns
    <3>2. UNCHANGED late \/ SendText
      BY <1>3 DEF CallbackReturns
    <3>3. begun > 0
      BY <3>1 DEF ChainInv
    <3>4. SendText => (late' => late \/ pc \in {"last", "end"})
      BY DEF SendText, Ended
    <3>5. UNCHANGED late => (late' => late \/ pc \in {"last", "end"})
      BY Zenon
    <3> QED
      BY <3>1, <3>2, <3>3, <3>4, <3>5
  <2>2. ~ ChainIsThrough
    BY <2>1 DEF ChainIsThrough
  <2> QED
    BY <2>1, <2>2 DEF ChainInv, EndInv, ReleaseInv, ThroughInv, MissingDidNothing,
                      NothingAfterTheEnd, childVars, flagVars, endVars
<1>4. CASE CallbackThrows
  <2>1. /\ UNCHANGED <<childVars, chained, late, timedOut, rateLimited, aborted, released, pc,
                       verdict>>
        /\ at # "none" /\ at' = "none" /\ begun' \in begun .. chained
        /\ settled' /\ (settled => result' = result)
        /\ ~ settled => result' = "callback-error"
    BY <1>4 DEF CallbackThrows
  <2>2. ~ ChainIsThrough
    BY <2>1 DEF ChainIsThrough
  <2> QED
    BY <2>1, <2>2 DEF ChainInv, EndInv, ReleaseInv, ThroughInv, MissingDidNothing,
                      NothingAfterTheEnd, childVars
<1>5. CASE Heartbeat
  BY <1>5 DEF Heartbeat, ChainInv, EndInv, ReleaseInv, ThroughInv, ChainIsThrough,
              MissingDidNothing, NothingAfterTheEnd, childVars, flagVars, endVars
<1> QED
  BY <1>1, <1>2, <1>3, <1>4, <1>5

(* What stops a run. *)
LEMMA StopKeeps ==
  ASSUME LInv, TimeOut \/ Abort \/ RateLimit \/ SpawnFails
  PROVE  LInv'
<1> USE DEF LInv
<1>1. CASE TimeOut \/ Abort \/ RateLimit
  <2>1. /\ UNCHANGED <<leader, helper, out, lineVars, endVars>>
        /\ (timedOut => timedOut') /\ (aborted => aborted') /\ (rateLimited => rateLimited')
        /\ released' => released \/ aborted' \/ timedOut'
    BY <1>1 DEF TimeOut, Abort, RateLimit, StopChild
  <2> QED
    BY <2>1 DEF ChainInv, EndInv, ReleaseInv, ThroughInv, ChainIsThrough, MissingDidNothing,
                NothingAfterTheEnd, lineVars, endVars
<1>2. CASE SpawnFails
  <2>1. /\ UNCHANGED <<helper, out, lineVars, timedOut, rateLimited, aborted, released, verdict>>
        /\ ~ leader' /\ ~ helper /\ settled' /\ result' = "spawn-error" /\ pc' = "end"
        /\ out = <<>> /\ ~ settled
    BY <1>2 DEF SpawnFails
  <2>2. begun = 0 /\ chained = 0 /\ at = "none"
    BY <2>1 DEF ChainInv
  <2>3. ~ late \/ Stopped
    BY <2>1 DEF NothingAfterTheEnd, EndInv
  <2> QED
    BY <2>1, <2>2, <2>3 DEF ChainInv, EndInv, ReleaseInv, ThroughInv, ChainIsThrough,
                            MissingDidNothing, NothingAfterTheEnd, lineVars
<1> QED
  BY <1>1, <1>2

(* Settling: the verdict is for a stopped run, or the chain is through. *)
LEMMA SettleKeeps ==
  ASSUME LInv, Settle, ~ settled, ~ leader, ~ helper,
         Stopped \/ ChainIsThrough,
         UNCHANGED <<childVars, chained, begun, at, late,
                     timedOut, rateLimited, aborted, released>>
  PROVE  LInv'
<1> USE DEF LInv
<1>1. PICK v : /\ Verdict(v, text', upstream')
               /\ verdict' = v
               /\ \/ v \in {"session-missing", "process-error"} /\ result' = v /\ pc' = "end"
                  \/ v = "follow-up" /\ pc' = "follow" /\ UNCHANGED result
                  \/ v \notin {"session-missing", "process-error", "follow-up"}
                     /\ pc' = "last" /\ UNCHANGED result
  BY DEF Settle
<1>2. settled' /\ pc' \in {"last", "follow", "end"} /\ result = "none"
  BY <1>1 DEF Settle, EndInv
<1>3. ChainInv' /\ ReleaseInv'
  BY DEF ChainInv, ReleaseInv, childVars
<1>4. EndInv'
  BY <1>1, <1>2 DEF EndInv, childVars
<1>5. ThroughInv'
  BY DEF ThroughInv, ChainIsThrough
<1>6. NothingAfterTheEnd'
  BY <1>2 DEF NothingAfterTheEnd, EndInv
<1>7. MissingDidNothing'
  <2>1. v = "session-missing" => ~ Stopped /\ begun = 0
    BY <1>1 DEF Verdict, SessionMissing
  <2> QED
    BY <1>1, <2>1 DEF MissingDidNothing, ChainIsThrough
<1> QED
  BY <1>3, <1>4, <1>5, <1>6, <1>7

(* The steps of the close handler. *)
LEMMA EndKeeps ==
  ASSUME LInv, Close \/ WaitEnds \/ FollowUpEnds \/ LastEventTaken
  PROVE  LInv'
<1> USE DEF LInv
<1>1. CASE (Close \/ WaitEnds) /\ ~ settled /\ Settle
  <2>1. ~ leader /\ ~ helper /\ (Stopped \/ ChainIsThrough)
    BY <1>1 DEF Close, GroupGone, DecidesAtOnce, WaitEnds, EndInv, ReleaseInv, Settle
  <2> QED
    BY <1>1, <2>1, SettleKeeps DEF Close, WaitEnds
<1>2. CASE (Close \/ WaitEnds) /\ ~ (~ settled /\ Settle)
  <2>1. /\ UNCHANGED <<childVars, chained, begun, at, late, timedOut, rateLimited, aborted,
                       released, settled, verdict, result>>
        /\ ~ leader /\ ~ helper
        /\ pc \in {"open", "wait"}
        /\ \/ settled /\ pc' = "end"
           \/ ~ settled /\ pc' = "wait"
    BY <1>2 DEF Close, WaitEnds, GroupGone, EndInv
  <2> QED
    BY <2>1 DEF ChainInv, EndInv, ReleaseInv, ThroughInv, MissingDidNothing,
                NothingAfterTheEnd, childVars
<1>3. CASE FollowUpEnds \/ LastEventTaken
  <2>1. /\ UNCHANGED <<childVars, chained, begun, at, text, upstream, late, flagVars, settled,
                       verdict>>
        /\ pc \in {"last", "follow"} /\ pc' \in {"last", "end"}
        /\ (pc' = "last" => result' = result)
    BY <1>3 DEF FollowUpEnds, LastEventTaken, lineVars
  <2>2. late => Stopped
    BY <2>1 DEF NothingAfterTheEnd, EndInv
  <2>3. Stopped \/ ChainIsThrough
    BY <2>1 DEF ThroughInv, EndInv
  <2> QED
    BY <2>1, <2>2, <2>3 DEF ChainInv, EndInv, ReleaseInv, ThroughInv, ChainIsThrough,
                MissingDidNothing, NothingAfterTheEnd, childVars, lineVars, flagVars
<1> QED
  BY <1>1, <1>2, <1>3

(* The invariant is inductive. *)
LEMMA LInvNext == LInv /\ [LNext]_lvars => LInv'
<1> SUFFICES ASSUME LInv, [LNext]_lvars PROVE LInv'
  OBVIOUS
<1>1. CASE UNCHANGED lvars
  BY <1>1 DEF LInv, ChainInv, EndInv, ReleaseInv, ThroughInv, ChainIsThrough, MissingDidNothing,
              NothingAfterTheEnd, lvars, childVars, lineVars, flagVars, endVars
<1> QED
  BY <1>1, ChildKeeps, ChainKeeps, StopKeeps, EndKeeps DEF LNext

LEMMA LInvAlways == LSpec => []LInv
BY LInvInit, LInvNext, PTL DEF LSpec

(* runStreamChat answers no run whose child is alive, but for one whose    *)
(* callback has thrown.                                                    *)
THEOREM ChildIsGone == LSpec => []NoChildLeft
<1>1. LInv => NoChildLeft
  BY DEF LInv, EndInv, NoChildLeft
<1> QED
  BY <1>1, LInvAlways, PTL

(* runStreamChat reports a missing session only for a run that has not     *)
(* come to any line.                                                       *)
THEOREM MissingMeansNothing == LSpec => []MissingDidNothing
<1>1. LInv => MissingDidNothing
  BY DEF LInv
<1> QED
  BY <1>1, LInvAlways, PTL

(* runStreamChat sends no text after the last event, unless the run was    *)
(* stopped or made to fail.                                                *)
THEOREM EndIsTheEnd == LSpec => []NothingAfterTheEnd
<1>1. LInv => NothingAfterTheEnd
  BY DEF LInv
<1> QED
  BY <1>1, LInvAlways, PTL

(* stopChild signals no process group that has closed. *)
THEOREM ClosedIsLeftAlone == LSpec => NoSignalAfterClose
<1>1. [LNext]_lvars => [sent' = "SIGTERM" /\ sent = "none" => pc = "open"]_lvars
  BY DEF LNext, Writes, HelperComesOrGoes, LeaderExits, Escalate, Data, LineBegins,
     CallbackReturns, CallbackThrows, Heartbeat, TimeOut, Abort, RateLimit, SpawnFails, Close,
     WaitEnds, FollowUpEnds, LastEventTaken, StopChild, MayBeReused, Closed, Terminate,
     childVars, lvars
<1> QED
  BY <1>1, PTL DEF LSpec, NoSignalAfterClose
----------------------------------------------------------------------------
(* The result tells all that the child said. *)

TextOf(n)   == {i \in 1 .. n : out[i] = "text"}
ErrorIn(n)  == \E i \in 1 .. n : out[i] = "error"

(* The chain has collected what it has come to; a line whose start event   *)
(* is pending is still to be collected.                                    *)
CollectInv ==
  /\ ~ settled =>
       /\ at = "start" => out[begun] # "error"
       /\ text = Cardinality(TextOf(IF at = "start" THEN begun - 1 ELSE begun))
       /\ upstream <=> ErrorIn(begun)
  /\ pc # "open" /\ result # "spawn-error" => chained + 1 >= Len(out)

(* One more line that is text, or is not. *)
LEMMA CountNext ==
  ASSUME NEW n \in Nat
  PROVE  /\ Cardinality(TextOf(n)) \in Nat
         /\ out[n + 1] = "text" => Cardinality(TextOf(n + 1)) = Cardinality(TextOf(n)) + 1
         /\ out[n + 1] # "text" => TextOf(n + 1) = TextOf(n)
         /\ ErrorIn(n + 1) <=> ErrorIn(n) \/ out[n + 1] = "error"
<1>1. IsFiniteSet(TextOf(n))
  <2>1. IsFiniteSet(1 .. n) /\ TextOf(n) \subseteq 1 .. n
    BY FS_Interval DEF TextOf
  <2> QED
    BY <2>1, FS_Subset
<1>2. Cardinality(TextOf(n)) \in Nat
  BY <1>1, FS_CardinalityType
<1>3. ASSUME out[n + 1] = "text"
      PROVE  Cardinality(TextOf(n + 1)) = Cardinality(TextOf(n)) + 1
  <2>1. TextOf(n + 1) = TextOf(n) \cup {n + 1} /\ n + 1 \notin TextOf(n)
    BY <1>3 DEF TextOf
  <2> QED
    BY <1>1, <2>1, FS_AddElement
<1>4. out[n + 1] # "text" => TextOf(n + 1) = TextOf(n)
  BY DEF TextOf
<1>5. ErrorIn(n + 1) <=> ErrorIn(n) \/ out[n + 1] = "error"
  BY DEF ErrorIn
<1> QED
  BY <1>2, <1>3, <1>4, <1>5

LEMMA CollectInit == LInit => CollectInv
<1>1. TextOf(0) = {} /\ ~ ErrorIn(0)
  BY DEF TextOf, ErrorIn
<1>2. Cardinality({}) = 0
  BY FS_EmptySet
<1> QED
  BY <1>1, <1>2 DEF LInit, CollectInv

(* Settling collects the line in the buffer; then the verdict is the one   *)
(* for all the lines.                                                      *)
LEMMA SettleTells ==
  ASSUME LInv, CollectInv, Settle, ~ settled, chained + 1 >= Len(out),
         Stopped \/ ChainIsThrough,
         UNCHANGED <<childVars, chained, begun, at, late,
                     timedOut, rateLimited, aborted, released>>
  PROVE  CollectInv' /\ ResultTellsAll'
<1>1. CollectInv'
  BY DEF CollectInv, Settle, childVars
<1>2. ASSUME ~ Stopped
      PROVE  /\ verdict' = "answer" => text' = Count("text")
             /\ Count("error") > 0 => verdict' = "upstream-error"
  <2>1. ChainIsThrough /\ begun = chained /\ at = "none" /\ begun \in Nat /\ Len(out) \in Nat
        /\ begun =< Len(out) /\ begun + 1 >= Len(out)
    BY <1>2 DEF ChainIsThrough, LInv, ChainInv
  <2>2. text = Cardinality(TextOf(begun)) /\ (upstream <=> ErrorIn(begun))
    BY <2>1 DEF CollectInv
  <2>3. text' = Cardinality(TextOf(Len(out))) /\ (upstream' <=> ErrorIn(Len(out)))
    <3>0. /\ text' = IF Trailing("text") THEN text + 1 ELSE text
          /\ upstream' <=> upstream \/ Trailing("error")
      BY DEF Settle
    <3>1. CASE begun = Len(out)
      <4>1. ~ Trailing("text") /\ ~ Trailing("error")
        BY <2>1, <3>1 DEF Trailing
      <4>2. text' = Cardinality(TextOf(Len(out)))
        BY <2>2, <3>0, <3>1, <4>1
      <4>3. upstream' <=> ErrorIn(Len(out))
        BY <2>2, <3>0, <3>1, <4>1, Zenon
      <4> QED
        BY <4>2, <4>3
    <3>2. CASE begun + 1 = Len(out)
      <4>1. Trailing("text") <=> out[begun + 1] = "text"
        BY <2>1, <3>2 DEF Trailing
      <4>2. Trailing("error") <=> out[begun + 1] = "error"
        BY <2>1, <3>2 DEF Trailing
      <4> QED
        BY <2>1, <2>2, <3>0, <3>2, <4>1, <4>2, CountNext
    <3> QED
      BY <2>1, <3>1, <3>2
  <2>4. Count("text") = Cardinality(TextOf(Len(out)))
    BY DEF Count, TextOf
  <2>5. Count("error") > 0 => ErrorIn(Len(out))
    <3>1. ~ ErrorIn(Len(out)) => {i \in 1 .. Len(out) : out[i] = "error"} = {}
      BY DEF ErrorIn
    <3> QED
      BY <3>1, FS_EmptySet DEF Count
  <2>6. upstream' => verdict' = "upstream-error"
    BY <1>2 DEF Settle, Verdict
  <2> QED
    BY <2>3, <2>4, <2>5, <2>6
<1>3. Stopped' = Stopped /\ out' = out
  BY DEF childVars
<1> QED
  BY <1>1, <1>2, <1>3 DEF ResultTellsAll, Count

TellInv == LInv /\ CollectInv /\ ResultTellsAll

(* Everything but the settling of a run leaves what it tells alone. *)
LEMMA TellNext == TellInv /\ [LNext]_lvars => TellInv'
<1> SUFFICES ASSUME LInv, CollectInv, ResultTellsAll, [LNext]_lvars
             PROVE  CollectInv' /\ ResultTellsAll'
  BY LInvNext DEF TellInv
<1>0. /\ out \in Seq(Line) /\ begun \in Nat /\ chained \in Nat /\ Len(out) \in Nat
      /\ begun =< chained /\ chained =< Len(out) /\ (at # "none" => begun > 0)
  BY DEF LInv, ChainInv
<1>1. CASE Writes
  <2>1. PICK l \in Line : out' = Append(out, l)
    BY <1>1 DEF Writes
  <2>2. /\ UNCHANGED <<lineVars, flagVars, endVars>> /\ leader /\ pc = "open"
    BY <1>1 DEF Writes, LInv, EndInv
  <2>3. \A i \in 1 .. Len(out) : out'[i] = out[i]
    BY <1>0, <2>1
  <2>4. \A n \in Nat : n =< Len(out) => /\ {i \in 1 .. n : out'[i] = "text"} = TextOf(n)
                                        /\ (\E i \in 1 .. n : out'[i] = "error") <=> ErrorIn(n)
    BY <1>0, <2>3 DEF TextOf, ErrorIn
  <2>5. CollectInv'
    <3> DEFINE n == IF at = "start" THEN begun - 1 ELSE begun
    <3>1. n \in Nat /\ n =< Len(out) /\ begun =< Len(out)
      BY <1>0
    <3>2. at' = at /\ begun' = begun /\ text' = text /\ upstream' = upstream
          /\ settled' = settled /\ pc' = "open" /\ n' = n
      BY <2>2 DEF lineVars, endVars
    <3>3. TextOf(n)' = TextOf(n)
      BY <2>4, <3>1, <3>2 DEF TextOf
    <3>4. ErrorIn(begun)' <=> ErrorIn(begun)
      BY <1>0, <2>4, <3>1, <3>2 DEF ErrorIn
    <3>5. at = "start" => out'[begun] = out[begun]
      BY <1>0, <2>3
    <3>6. CASE settled
      BY <3>2, <3>6 DEF CollectInv
    <3>7. CASE ~ settled
      <4>1. at = "start" => out'[begun] # "error"
        BY <3>5, <3>7 DEF CollectInv
      <4>2. text' = Cardinality(TextOf(n)')
        BY <3>2, <3>3, <3>7 DEF CollectInv
      <4>3. upstream <=> ErrorIn(begun)
        BY <3>7 DEF CollectInv
      <4>4. upstream' <=> ErrorIn(begun)'
        BY <3>2, <3>4, <4>3, Zenon
      <4> QED
        BY <3>2, <4>1, <4>2, <4>4 DEF CollectInv
    <3> QED
      BY <3>6, <3>7
  <2>6. verdict' = "none"
    BY <2>2 DEF LInv, EndInv, endVars
  <2> QED
    BY <2>5, <2>6 DEF ResultTellsAll
<1>2. CASE HelperComesOrGoes \/ LeaderExits \/ Escalate \/ Heartbeat \/ UNCHANGED lvars
  <2>1. UNCHANGED <<out, chained, begun, at, text, upstream, late, flagVars, endVars>>
    BY <1>2 DEF HelperComesOrGoes, LeaderExits, Escalate, Heartbeat, lvars, childVars, lineVars
  <2> QED
    BY <2>1 DEF CollectInv, ResultTellsAll, TextOf, ErrorIn, Count, flagVars, endVars
<1>3. CASE TimeOut \/ Abort \/ RateLimit
  <2>1. /\ UNCHANGED <<out, lineVars, endVars>> /\ (Stopped => Stopped')
    BY <1>3 DEF TimeOut, Abort, RateLimit
  <2> QED
    BY <2>1 DEF CollectInv, ResultTellsAll, TextOf, ErrorIn, Count, lineVars, endVars
<1>4. CASE SpawnFails
  BY <1>4 DEF SpawnFails, LInv, EndInv, CollectInv, ResultTellsAll, lineVars
<1>5. CASE Data
  <2>1. UNCHANGED <<childVars, begun, at, text, upstream, endVars>> /\ pc = "open"
    BY <1>5 DEF Data
  <2> QED
    BY <2>1 DEF LInv, EndInv, CollectInv, ResultTellsAll, TextOf, ErrorIn, childVars, endVars
<1>6. CASE LineBegins
  <2>1. /\ UNCHANGED <<childVars, chained, flagVars, endVars>>
        /\ begun < chained /\ begun' = begun + 1 /\ at = "none"
    BY <1>6 DEF LineBegins
  <2>2. verdict # "none" => Stopped
    BY <1>0, <2>1 DEF LInv, ThroughInv, ChainIsThrough
  <2>3. ResultTellsAll'
    BY <2>1, <2>2 DEF ResultTellsAll, flagVars, endVars
  <2>4. CollectInv'
    <3>1. CASE settled
      BY <2>1, <3>1 DEF CollectInv, childVars, endVars
    <3>2. CASE ~ settled
      <4>1. text = Cardinality(TextOf(begun)) /\ (upstream <=> ErrorIn(begun))
        BY <2>1, <3>2 DEF CollectInv
      <4>2. /\ at' = "start" => out[begun + 1] # "error" /\ text' = text /\ upstream' = upstream
            /\ at' # "start" => /\ text' = IF out[begun + 1] = "text" THEN text + 1 ELSE text
                                /\ upstream' <=> upstream \/ out[begun + 1] = "error"
        BY <1>6 DEF LineBegins, SendText
      <4>3. text' = Cardinality(TextOf(IF at' = "start" THEN begun' - 1 ELSE begun'))
        <5>1. CASE at' = "start"
          BY <1>0, <2>1, <4>1, <4>2, <5>1
        <5>2. CASE at' # "start"
          BY <1>0, <2>1, <4>1, <4>2, <5>2, CountNext
        <5> QED
          BY <5>1, <5>2
      <4>4. upstream' <=> ErrorIn(begun')
        <5>1. ErrorIn(begun + 1) <=> ErrorIn(begun) \/ out[begun + 1] = "error"
          BY <1>0, CountNext
        <5>2. upstream' <=> upstream \/ out[begun + 1] = "error"
          <6>1. CASE at' = "start"
            <7>1. upstream' = upstream /\ out[begun + 1] # "error"
              BY <4>2, <6>1
            <7> QED
              BY <7>1, Zenon
          <6>2. CASE at' # "start"
            BY <4>2, <6>2, Zenon
          <6> QED
            BY <6>1, <6>2
        <5> QED
          BY <2>1, <4>1, <5>1, <5>2, Zenon
      <4>5. out' = out /\ pc' = pc /\ chained' = chained /\ result' = result
        BY <2>1 DEF childVars, endVars
      <4> QED
        BY <2>1, <4>2, <4>3, <4>4, <4>5 DEF CollectInv, TextOf, ErrorIn
    <3> QED
      BY <3>1, <3>2
  <2> QED
    BY <2>3, <2>4
<1>7. CASE CallbackReturns
  <2>1. /\ UNCHANGED <<childVars, chained, begun, upstream, flagVars, endVars>>
        /\ at # "none" /\ at' # "start"
    BY <1>7 DEF CallbackReturns
  <2>2. verdict # "none" => Stopped
    BY <2>1 DEF LInv, EndInv, ThroughInv, ChainIsThrough
  <2>3. ResultTellsAll'
    BY <2>1, <2>2 DEF ResultTellsAll, flagVars, endVars
  <2>4. CollectInv'
    <3>1. CASE settled
      BY <2>1, <3>1 DEF CollectInv, childVars, endVars
    <3>2. CASE ~ settled
      <4>1. text' = Cardinality(TextOf(begun))
        <5>1. CASE at = "start"
          <6>1. text = Cardinality(TextOf(begun - 1)) /\ begun - 1 \in Nat
            BY <1>0, <3>2, <5>1 DEF CollectInv
          <6>2. text' = IF out[begun] = "text" THEN text + 1 ELSE text
            BY <1>7, <5>1 DEF CallbackReturns, SendText
          <6>3. begun - 1 + 1 = begun
            BY <1>0
          <6> QED
            BY <6>1, <6>2, <6>3, CountNext
        <5>2. CASE at # "start"
          BY <1>7, <3>2, <5>2 DEF CallbackReturns, CollectInv
        <5> QED
          BY <5>1, <5>2
      <4> QED
        BY <2>1, <3>2, <4>1 DEF CollectInv, TextOf, ErrorIn, childVars, endVars
    <3> QED
      BY <3>1, <3>2
  <2> QED
    BY <2>3, <2>4
<1>8. CASE CallbackThrows
  <2>1. /\ UNCHANGED <<childVars, chained, text, upstream, timedOut, rateLimited, aborted, pc,
                       verdict>>
        /\ at # "none" /\ settled' /\ (settled => result' = result)
        /\ ~ settled => result' = "callback-error"
    BY <1>8 DEF CallbackThrows
  <2>2. verdict # "none" => Stopped
    BY <2>1 DEF LInv, EndInv, ThroughInv, ChainIsThrough
  <2> QED
    BY <2>1, <2>2 DEF CollectInv, ResultTellsAll, childVars, LInv, EndInv
<1>9. CASE Close \/ WaitEnds
  <2>1. chained + 1 >= Len(out)
    BY <1>9 DEF Close, WaitEnds, CollectInv, LInv, EndInv
  <2>2. CASE ~ settled /\ Settle
    <3>1. Stopped \/ ChainIsThrough
      BY <1>9, <2>2 DEF Close, DecidesAtOnce, WaitEnds, LInv, EndInv, ReleaseInv, Settle
    <3> QED
      BY <1>9, <2>1, <2>2, <3>1, SettleTells DEF Close, WaitEnds
  <2>3. CASE ~ (~ settled /\ Settle)
    <3>1. UNCHANGED <<childVars, chained, begun, at, text, upstream, timedOut, rateLimited,
                      aborted, settled, verdict, result>>
      BY <1>9, <2>3 DEF Close, WaitEnds
    <3> QED
      BY <2>1, <3>1 DEF CollectInv, ResultTellsAll, TextOf, ErrorIn, Count, childVars
  <2> QED
    BY <2>2, <2>3
<1>10. CASE FollowUpEnds \/ LastEventTaken
  <2>1. /\ UNCHANGED <<childVars, chained, begun, at, text, upstream, late, flagVars, settled,
                       verdict>>
        /\ pc \in {"last", "follow"}
    BY <1>10 DEF FollowUpEnds, LastEventTaken, lineVars
  <2> QED
    BY <2>1 DEF LInv, EndInv, CollectInv, ResultTellsAll, TextOf, ErrorIn, Count, childVars,
                lineVars, flagVars
<1> QED
  BY <1>1, <1>2, <1>3, <1>4, <1>5, <1>6, <1>7, <1>8, <1>9, <1>10 DEF LNext

(* runStreamChat gives the whole text, and the upstream's error where      *)
(* there was one, unless somebody stopped the run.                         *)
THEOREM ResultIsWhole == LSpec => []ResultTellsAll
<1>1. LInit => TellInv
  BY LInvInit, CollectInit DEF TellInv, LInit, ResultTellsAll
<1>2. TellInv => ResultTellsAll
  BY DEF TellInv
<1> QED
  BY <1>1, <1>2, TellNext, PTL DEF LSpec

----------------------------------------------------------------------------
(*****************************************************************************)
(* WebChat: what is on the screen is there once, for as long as the view     *)
(* knows how far up it has loaded.                                           *)
(*****************************************************************************)

LEMMA WebTypeStep ==
  ASSUME WebTypeOK, [Next]_wvars
  PROVE  WebTypeOK'
<1>. USE DEF WebTypeOK
<1>1. ASSUME NEW m \in Msg, Stores(m)
      PROVE  WebTypeOK'
  BY <1>1 DEF Stores, load
<1>2. ASSUME NEW some \in SUBSET Msg, Deletes(some)
      PROVE  WebTypeOK'
  BY <1>2 DEF Deletes, load
<1>3. CASE Answers
  BY <1>3 DEF Answers, server
<1>4. CASE LoadsOlder
  BY <1>4 DEF LoadsOlder, BeginLoad, server
<1>5. CASE LoadsFirst
  BY <1>5 DEF LoadsFirst, BeginLoad, server
<1>6. CASE Reload
  BY <1>6 DEF Reload, server, load
<1>7. CASE Loaded
  <2>1. PICK p \in page :
          /\ items' = IF loading = "first" THEN p.items ELSE p.items \cup items
          /\ shown' = IF loading = "first" THEN Times(p.items)
                      ELSE [m \in Msg |-> shown[m] + Times(p.items)[m]]
          /\ hasMore' = p.hasMore
          /\ oldest' \in IF p.items = {} THEN {oldest} ELSE OldestOf(p.items)
          /\ loading' = "none" /\ page' = {}
          /\ UNCHANGED <<server, cursor, reply, streaming, blind>>
    BY <1>7 DEF Loaded
  <2>2. p.items \subseteq Msg /\ p.hasMore \in BOOLEAN
    OBVIOUS
  <2>3. oldest' \in Nat
    BY <2>1, <2>2 DEF OldestOf
  <2>4. shown' \in [Msg -> Nat]
    BY <2>1 DEF Times
  <2>. QED
    BY <2>1, <2>2, <2>3, <2>4 DEF server
<1>8. CASE LoadFails
  BY <1>8 DEF LoadFails, server, Times
<1>9. ASSUME NEW m \in Msg, NEW r \in Msg, Sends(m, r)
      PROVE  WebTypeOK'
  BY <1>9 DEF Sends, server, load
<1>10. ASSUME NEW x \in Msg \X Msg, StreamEnds(x)
       PROVE  WebTypeOK'
  BY <1>10 DEF StreamEnds, EndsWith, server, load
<1>11. CASE UNCHANGED wvars
  BY <1>11 DEF wvars, server, load
<1>. QED
  BY <1>1, <1>2, <1>3, <1>4, <1>5, <1>6, <1>7, <1>8, <1>9, <1>10, <1>11 DEF Next

(* What is on the screen is not older than this timestamp. *)
NothingOlder(t) == \A m \in known : shown[m] > 0 => time[m] >= t

(* The view knows its oldest message, if it knows one; a load that is under*)
(* way brings messages from before what is shown.                          *)
WebInv ==
  /\ items = {} => oldest = 0
  /\ loading = "first" => oldest = 0
  /\ oldest <= clock
  /\ page # {} => loading # "none"
  /\ \A p \in page : p.items \subseteq known
  /\ ~ blind =>
       /\ \A m \in Msg : shown[m] <= 1
       /\ oldest > 0 => NothingOlder(oldest)
       /\ loading = "older" =>
            /\ 0 < cursor /\ cursor <= clock
            /\ NothingOlder(cursor)
            /\ \A p \in page : \A m \in p.items : time[m] < cursor

LEMMA WebStep ==
  ASSUME WebTypeOK, WebInv, [Next]_wvars
  PROVE  WebInv'
<1>. USE DEF WebTypeOK, WebInv, NothingOlder
<1>1. ASSUME NEW m \in Msg, Stores(m)
      PROVE  WebInv'
  <2>1. PICK t \in Nat : /\ t >= clock
                         /\ time' = [time EXCEPT ![m] = t]
                         /\ clock' = t
    BY <1>1 DEF Stores
  <2>2. known' = known \cup {m} /\ m \notin known
    BY <1>1 DEF Stores
  <2>3. \A n \in known : time'[n] = time[n]
    BY <2>1, <2>2
  <2>4. time'[m] = t
    BY <2>1
  <2>. QED
    BY <1>1, <2>1, <2>2, <2>3, <2>4 DEF Stores, load
<1>2. ASSUME NEW some \in SUBSET Msg, Deletes(some)
      PROVE  WebInv'
  BY <1>2 DEF Deletes, load
<1>3. CASE Answers
  <2>1. PICK p \in SUBSET rows :
          /\ IsPage(p, cursor)
          /\ page' = {[items |-> p, hasMore |-> p # Before(cursor)]}
    BY <1>3 DEF Answers
  <2>2. \A q \in page' : q.items = p
    BY <2>1
  <2>3. p \subseteq known /\ \A m \in p : cursor = 0 \/ time[m] < cursor
    BY <2>1 DEF IsPage, Before
  <2>. QED
    BY <1>3, <2>2, <2>3 DEF Answers, server
<1>4. CASE LoadsOlder
  <2>1. ~ blind' => ~ blind /\ oldest # 0
    BY <1>4, Zenon DEF LoadsOlder
  <2>2. /\ UNCHANGED <<rows, known, time, clock, items, oldest, shown>>
        /\ loading' = "older" /\ page' = {} /\ cursor' = oldest
    BY <1>4, Zenon DEF LoadsOlder, BeginLoad, server
  <2>. QED
    BY <2>1, <2>2
<1>5. CASE LoadsFirst
  BY <1>5 DEF LoadsFirst, BeginLoad, server
<1>6. CASE Reload
  BY <1>6 DEF Reload, server, load
<1>7. CASE Loaded
  <2>1. PICK p \in page :
          /\ items' = IF loading = "first" THEN p.items ELSE p.items \cup items
          /\ shown' = IF loading = "first" THEN Times(p.items)
                      ELSE [m \in Msg |-> shown[m] + Times(p.items)[m]]
          /\ oldest' \in IF p.items = {} THEN {oldest} ELSE OldestOf(p.items)
          /\ loading' = "none" /\ page' = {}
          /\ UNCHANGED <<server, cursor, reply, streaming, blind>>
    BY <1>7 DEF Loaded
  <2>2. p.items \subseteq known /\ p.items \subseteq Msg
    OBVIOUS
  <2>3. p.items # {} => /\ \E m \in p.items : oldest' = time[m]
                        /\ \A m \in p.items : oldest' <= time[m]
    BY <2>1 DEF OldestOf
  <2>4. p.items = {} => oldest' = oldest
    BY <2>1
  <2>5. oldest' <= clock'
    BY <2>1, <2>2, <2>3, <2>4 DEF server
  <2>6. items' = {} => oldest' = 0
    BY <2>1, <2>4
  <2>7. CASE loading = "first"
    <3>1. \A m \in Msg : shown'[m] = IF m \in p.items THEN 1 ELSE 0
      BY <2>1, <2>7 DEF Times
    <3>. QED
      BY <2>1, <2>2, <2>3, <2>4, <2>5, <2>6, <3>1, <2>7 DEF server
  <2>8. CASE loading # "first"
    <3>1. \A m \in Msg : shown'[m] = shown[m] + IF m \in p.items THEN 1 ELSE 0
      BY <2>1, <2>8 DEF Times
    <3>2. CASE loading = "older" /\ ~ blind
      <4>1. \A m \in p.items : time[m] < cursor /\ shown[m] = 0
        BY <2>2, <3>2
      <4>2. \A m \in Msg : shown'[m] <= 1
        BY <3>1, <3>2, <4>1
      <4>3. \A m \in known : shown'[m] > 0 => m \in p.items \/ shown[m] > 0
        BY <3>1
      <4>4. p.items # {} => \A m \in known : shown'[m] > 0 => time[m] >= oldest'
        BY <2>2, <2>3, <3>2, <4>1, <4>3
      <4>5. p.items = {} => \A m \in known : shown'[m] > 0 => shown[m] > 0
        BY <4>3
      <4>. QED
        BY <2>1, <2>4, <2>5, <2>6, <3>2, <4>2, <4>4, <4>5 DEF server
    <3>3. CASE blind
      BY <2>1, <2>5, <2>6, <3>3
    <3>4. loading # "none"
      OBVIOUS
    <3>. QED
      BY <2>8, <3>2, <3>3, <3>4
  <2>. QED
    BY <2>7, <2>8
<1>8. CASE LoadFails
  BY <1>8 DEF LoadFails, server, Times
<1>9. ASSUME NEW m \in Msg, NEW r \in Msg, Sends(m, r)
      PROVE  WebInv'
  <2>1. m \notin known /\ r \notin known /\ m # r /\ shown[m] = 0 /\ shown[r] = 0
    BY <1>9 DEF Sends, Used
  <2>2. /\ shown'[m] = 1 /\ shown'[r] = 1
        /\ \A n \in Msg \ {m, r} : shown'[n] = shown[n]
    BY <1>9, <2>1 DEF Sends
  <2>. QED
    BY <1>9, <2>1, <2>2 DEF Sends, server, load
<1>10. ASSUME NEW x \in Msg \X Msg, StreamEnds(x)
       PROVE  WebInv'
  BY <1>10 DEF StreamEnds, EndsWith, server, load
<1>11. CASE UNCHANGED wvars
  BY <1>11 DEF wvars, server, load
<1>. QED
  BY <1>1, <1>2, <1>3, <1>4, <1>5, <1>6, <1>7, <1>8, <1>9, <1>10, <1>11 DEF Next

----------------------------------------------------------------------------
(* loadOlderMessages, sendMessage and the button for reloading: no message *)
(* is drawn twice, through sends and streams during a load, failures, new  *)
(* rows and deleted ones, unless older messages were asked for without a   *)
(* cursor.                                                                 *)
THEOREM NoneTwiceAlways == Spec => []NoneTwice
<1>1. Init => WebTypeOK /\ WebInv
  <2>. SUFFICES ASSUME Init
                PROVE  WebTypeOK /\ WebInv
    OBVIOUS
  <2>1. \A m \in Msg : shown[m] = 0
    BY DEF Init, None
  <2>2. WebTypeOK
    BY DEF Init, WebTypeOK, None
  <2>. QED
    BY <2>1, <2>2 DEF Init, WebInv, NothingOlder, WebTypeOK
<1>2. WebTypeOK /\ WebInv /\ [Next]_wvars => WebTypeOK' /\ WebInv'
  BY WebTypeStep, WebStep
<1>3. WebInv => NoneTwice
  BY DEF WebInv, NoneTwice
<1>. QED
  BY <1>1, <1>2, <1>3, PTL DEF Spec
=============================================================================
