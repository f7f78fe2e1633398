---------------------------- MODULE MCMemoryStore ----------------------------
(***************************************************************************)
(* MemoryStore for TLC: a message of one user; what the scheduler stores   *)
(* belongs to no turn.  The tables on which the reading for a prompt is    *)
(* evaluated.                                                              *)
(***************************************************************************)
EXTENDS MemoryStore, PromptContext

CONSTANT t1

MCTurn == {t1}

----------------------------------------------------------------------------
(* Rules and decisions old and new, with and without the words of an       *)
(* anchor, matching by tag, by word, or not at all.                        *)
SummaryOf(id, impact, tags, sum, hint, age) ==
  [id |-> id, role |-> "model", impact |-> impact, tags |-> tags, sum |-> sum,
   body |-> {}, hint |-> hint, important |-> hint, age |-> age, len |-> 240]

Pool == {SummaryOf(1, 3, {"release"}, {}, TRUE, 200),
         SummaryOf(2, 3, {"web"}, {"tag"}, TRUE, 100),
         SummaryOf(3, 2, {"release"}, {"tag"}, TRUE, 1),
         SummaryOf(4, 2, {"release"}, {"push"}, TRUE, 2),
         SummaryOf(5, 2, {"release"}, {"tag", "push"}, TRUE, 3),
         SummaryOf(6, 2, {"release", "web"}, {"tag"}, TRUE, 4),
         SummaryOf(7, 1, {}, {"push"}, FALSE, 5)}

Questions == {[text |-> "", words |-> w, tags |-> t] :
                w \in {<<>>, <<"tag">>, <<"push", "tag">>},
                t \in {{}, {"release"}, {"web"}}}

Talk(n, len) ==
  [i \in 1 .. n |-> [id |-> 100 + i, len |-> len,
                     role |-> IF i % 2 = 1 THEN "user" ELSE "model"]]
Conversations == {Talk(n, len) : n \in {0, 12}, len \in {20, 400}}

(* Sections of every size, with lines of every kind of length. *)
SomeLines(n, of, pre, len) == [i \in 1 .. n |-> [of |-> of + i, pre |-> pre, len |-> len]]
SectionInputs ==
  {[anchors |-> SomeLines(a, 10, 21, la), semantics |-> SomeLines(s, 20, p, ls),
    recent |-> SomeLines(r, 30, 28, lr)] :
     a \in 0 .. 4, s \in 0 .. 3, r \in 0 .. 10, p \in {2, 21},
     la \in {30, 220}, ls \in {30, 220}, lr \in {1, 90, 180}}

----------------------------------------------------------------------------
(* The context keeps to its budget (SAR_PROMPT_POLICY.totalCharBudget),    *)
(* every line that is in it is there as a whole, and no section falls      *)
(* below its minimum: the lines can always be given up one by one before   *)
(* compactSections or the final cut of applyContextBudget would be needed. *)
WholeLinesInBudget(cut(_)) ==
  \A secs \in SectionInputs :
    LET c == cut(secs) IN
      /\ c.kind = "lines" /\ Fits(c.secs)
      /\ \A t \in Section :
           /\ IsPrefix(c.secs[t], secs[t])
           /\ Len(c.secs[t]) >= Min({Len(secs[t]), MinLines[t]})

(* Variants: nothing is cut; a whole section goes. *)
UncutContext(secs) == [kind |-> "lines", secs |-> secs]
WholeSectionGoes(secs) == ApplyContextBudget([secs EXCEPT !.semantics = <<>>])

ASSUME BudgetIsKept == WholeLinesInBudget(ApplyContextBudget)
ASSUME BudgetCheckNotices ==
  ~WholeLinesInBudget(UncutContext) /\ ~WholeLinesInBudget(WholeSectionGoes)

(* A rule that shares a tag with the question gets into the context, first *)
(* of all, however old it is, whatever else matches better, and however    *)
(* long the conversation (builder.ts: rules are not lost to age).          *)
RuleGetsIn(select(_, _)) ==
  \A table \in SUBSET Pool, q \in Questions :
    LET rules  == {s \in table : s.impact = 3 /\ s.hint /\ TagMatched(s, q)}
        chosen == select(AnchorCandidates(table), q)
    IN rules # {} =>
         /\ chosen # <<>> /\ chosen[1] \in rules
         /\ \A talk \in Conversations :
              LET c == ApplyContextBudget(
                         [anchors   |-> Lines(SummaryLine, chosen),
                          semantics |-> Lines(SummaryLine, LocalSemantics(table, q)),
                          recent    |-> RecentLines(talk, TRUE)])
              IN c.secs.anchors # <<>> /\ c.secs.anchors[1].of = chosen[1].id

(* Variant: the best by score, without a place kept for a rule. *)
ByScoreAlone(candidates, q) ==
  AtMost(AnchorLimit, Sorted(candidates, LAMBDA a, b :
    Ranks(LAMBDA s : Score(s, "", ToSet(q.words), q.tags), a, b)))

ASSUME RulesGetIn == RuleGetsIn(SelectAnchors)
ASSUME RuleCheckNotices == ~RuleGetsIn(ByScoreAlone)

(* What the budget takes from the conversation is its newest end: the      *)
(* lines are in the order of time and a section gives up its last line, so *)
(* that of the last ten messages, when they are long, the four oldest are  *)
(* in the context and the six newest are not.                              *)
ASSUME NewestIsCutFirst ==
  LET secs == [anchors |-> SomeLines(2, 10, 21, 220), semantics |-> SomeLines(2, 20, 21, 220),
               recent |-> RecentLines(Talk(12, 400), TRUE)]
      kept == ApplyContextBudget(secs).secs.recent
  IN Len(kept) = 4 /\ kept[1].of = 103 /\ Last(kept).of = 106

(* The three best related summaries are chosen before the anchors are      *)
(* taken out of them, so there may be none left although others match.     *)
ASSUME RelatedMayBeCrowdedOut ==
  \E table \in SUBSET Pool, q \in Questions :
    /\ LocalSemantics(table, q) = <<>>
    /\ \E s \in AnchorCandidates(table) \ ToSet(SelectAnchors(AnchorCandidates(table), q)) :
         TagMatched(s, q)
=============================================================================
