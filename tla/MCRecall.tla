------------------------------ MODULE MCRecall ------------------------------
(* Questions, responses and sequences of recalls for Recall, and the       *)
(* prompt they end in.                                                     *)
EXTENDS Recall

P == INSTANCE PromptContext

(* Constants of Recall, by the words used here. *)
MCNumber       == {"2024"}
MCFunctionWord == {"how"}
MCCjk          == {"x", "u", "v", "w"}
MCLatin        == {"a"}
MCWordList     == <<<<"u", "w", "u">>, <<"u", "v">>, <<"u">>>>

CharTexts == UNION {[1 .. n -> MCCjk \cup MCLatin \cup {Blank}] : n \in 1 .. 5}

(* Taking function words out of a question makes no words that it does not *)
(* have: what stands left and right of one is not joined.  And the longer  *)
(* go first, so that nothing is left of a word that has another in it.     *)
NoNewWords(strip(_)) ==
  /\ \A text \in CharTexts : \A t \in TokenizeQuery(strip(text), 2) :
       \E i \in 1 .. Len(text) - Len(t) + 1 : SubSeq(text, i, i + Len(t) - 1) = t
  /\ \A k \in DOMAIN MCWordList : ToSet(strip(MCWordList[k])) \subseteq {Blank}

(* Variants: words are deleted; short words go first. *)
Deleted(text) ==
  LET out == StripText(text) IN
    [k \in 1 .. Cardinality({i \in DOMAIN text : out[i] = text[i]}) |->
       text[SetToSortSeq({i \in DOMAIN text : out[i] = text[i]}, <)[k]]]
ShortFirst(text) == FoldRight(LAMBDA word, t : Blanked(t, word), WordList, text)

ASSUME WordsAreOfTheQuestion == NoNewWords(StripText)
ASSUME WordCheckNotices == ~NoNewWords(Deleted) /\ ~NoNewWords(ShortFirst)

Queries == (SUBSET {"how", "tag", "push", "2024"}) \ {{}}
Texts   == {{}, {"tag"}, {"tag", "push"}, {"how", "tag", "2024"}}
Hits    == {[id |-> i, words |-> w] : i \in {0, 1}, w \in Texts}
Routes  == {"vector", "vector_timeout"}

Responses ==
  {[ok |-> ok, recallId |-> 7, hits |-> h, confidence |-> c, route |-> r] :
     ok \in BOOLEAN, r \in Routes, c \in {Unknown, 0, 19, 20, 100},
     h \in UNION {[1 .. n -> Hits] : n \in 0 .. 2}}

Semantics(snippets) ==
  P!Sections({}, <<>>, [text |-> "", words |-> <<>>, tags |-> {}],
             [i \in DOMAIN snippets |-> [id |-> i, len |-> 30]], FALSE).semantics

----------------------------------------------------------------------------
(* What is found gets into the prompt only where it is about the question: *)
(* if Memoria says how sure it is, it is sure enough, and the first        *)
(* snippet has two words of the question that are neither numbers nor      *)
(* words that only ask.  The trace, by which the share of useful recalls   *)
(* is measured, says so exactly when the prompt has a line of it, and a    *)
(* fall-back of Memoria's is an issue even when nothing came of it.        *)
OnlyWhatMatches(recall(_, _, _)) ==
  \A q \in Queries, r \in Responses, min \in {0, 20} :
    LET result == recall(q, r, min)
        lines  == IF result.snippets = <<>> THEN <<>> ELSE Semantics(result.snippets)
    IN /\ lines # <<>> /\ r.confidence # Unknown /\ min > 0
          => r.confidence >= min /\ Cardinality((q \cap result.snippets[1]) \ {"how", "2024"}) >= 2
       /\ result.trace.injected <=> lines # <<>>
       /\ r.ok /\ IsDegradedRoute(r.route) => result.issue = "degraded"
       /\ result.trace.dropped => result.hits = <<>> /\ result.recallId = 0

(* Variants: an unknown confidence is none; numbers count as well. *)
UnknownIsZero(q, r, min) ==
  LET result == RecallWithMeta(q, r, min) IN
    IF r.confidence = Unknown THEN [result EXCEPT !.snippets = <<>>] ELSE result
NumbersCount(q, r, min) ==
  LET first == Snippets(r.hits) IN
    IF r.ok /\ first # <<>> /\ r.confidence >= min
       /\ Cardinality(StripFunctionWords(q) \cap first[1]) >= 2
    THEN [RecallWithMeta(q, [r EXCEPT !.confidence = Unknown], min) EXCEPT !.issue =
            IF IsDegradedRoute(r.route) THEN "degraded" ELSE "none"]
    ELSE RecallWithMeta(q, r, min)

ASSUME WhatMatches == OnlyWhatMatches(RecallWithMeta)
ASSUME MatchCheckNotices == ~OnlyWhatMatches(UnknownIsZero) /\ ~OnlyWhatMatches(NumbersCount)

(* A recall in vector mode is never given up before Memoria would fall     *)
(* back to a search for words, whatever an old configuration says.         *)
ASSUME NeverGivenUpTooEarly ==
  \A configured \in {1, 1500, 15000, 20000, 60000} : RecallTimeout("vector", configured) > 15000

----------------------------------------------------------------------------
Some(id) == [ok |-> TRUE, recallId |-> id, confidence |-> 100, route |-> "vector",
             hits |-> <<[id |-> 10 * id, words |-> {"tag", "push"}]>>]
Result(r) == RecallWithMeta({"tag", "push"}, r, 20)
Lost == [Some(3) EXCEPT !.ok = FALSE]
Weak == [Some(4) EXCEPT !.confidence = 5]

(* An outcome is reported for nothing but a recall of this turn whose      *)
(* snippets got into a prompt, and rates no hit higher than the reply      *)
(* repeats it.                                                             *)
ASSUME OnlyOwnOutcome ==
  \A a, b \in {Result(Some(1)), Result(Some(2)), Result(Lost), Result(Weak)} :
    \A reply \in Texts, isError \in BOOLEAN :
      LET report == ReportedOutcome(<<a, b>>, reply, isError) IN
        report # NoReport =>
          /\ ~isError /\ report.recallId = a.recallId /\ a.trace.injected
          /\ \A h \in ToSet(report.outcome.hits) : h.utility <= report.outcome.utility
          /\ report.outcome.utility > 0 => reply \cap {"tag", "push"} # {}

(* Not so: that it is about the prompt that was sent.  A turn that comes   *)
(* to open a new session builds its prompt anew, with a recall of its own  *)
(* for which nothing is ever reported; what is reported is about the first.*)
ASSUME OutcomeOfTheOtherPrompt ==
  LET sent == Result(Some(2))
      report == ReportedOutcome(<<Result(Some(1)), sent>>, {"tag"}, FALSE)
  IN report.recallId # sent.recallId /\ sent.trace.injected

(* Nor that the prompt had the hits it rates: of five, three at most are   *)
(* in it.                                                                  *)
ASSUME OutcomeOfUnseenHits ==
  LET five   == [Some(1) EXCEPT !.hits = [i \in 1 .. 5 |-> [id |-> i, words |-> {"tag", "push"}]]]
      result == Result(five)
  IN Len(ReportedOutcome(<<result>>, {"tag"}, FALSE).outcome.hits) > Len(Semantics(result.snippets))

----------------------------------------------------------------------------
(* Rows of one or two recalls of three versions at three times. *)
Recalls == {Result(r).trace : r \in {Some(1), Lost, Weak, [Some(1) EXCEPT !.hits = <<>>],
                                     [Some(1) EXCEPT !.route = "vector_timeout"]}}
Rows == {FoldLeft(LAMBDA rows, e : AppendRecallEvent(rows, e[1], e[2], e[3]), <<>>, es) :
           es \in UNION {[1 .. n -> {"v1", "v2", "v3"} \X {0, 20, 40} \X Recalls] : n \in 1 .. 2}}

(* In the report of every version what was injected had a hit, what had a  *)
(* hit succeeded; a purge leaves the counts of the last thirty days, and   *)
(* the version that is compared with is the one that ran last before.      *)
ReportIsConsistent(summaries(_)) ==
  \A rows \in Rows :
    LET kept == PurgeOldRecallEvents(rows, 45)
        s    == summaries(kept)
    IN /\ \A k \in DOMAIN s :
            /\ s[k].injected <= s[k].withHits /\ s[k].withHits <= s[k].succeeded
            /\ s[k].degraded <= s[k].succeeded /\ s[k].succeeded <= s[k].total
            /\ s[k].lastAt >= 15
       /\ FoldLeft(LAMBDA n, v : n + v.total, 0, s) = Len(kept)
       /\ LET before == {r \in ToSet(kept) : r.version # "v1"} IN
            before # {} => \E r \in before : /\ r.version = ByVersion(s, "v1").previous
                                             /\ \A x \in before : x.ts <= r.ts

(* Variant: a recall that failed has its hits and route counted. *)
AllCount(rows) ==
  LET s == Summaries(rows) IN
    [k \in DOMAIN s |-> [s[k] EXCEPT !.withHits =
       Count(SelectSeq(rows, LAMBDA r : r.version = s[k].version), LAMBDA r : r.hitCount > 0 \/ ~r.ok)]]

ASSUME Report == ReportIsConsistent(Summaries)
ASSUME ReportCheckNotices == ~ReportIsConsistent(AllCount)
=============================================================================
