---------------------------- MODULE PromptContext ----------------------------
(***************************************************************************)
(* What of the memory gets into a prompt (prompt/builder.ts, with the      *)
(* scores of core/sar-policy.ts and the queries of core/memory.ts): rules  *)
(* and decisions ("anchors"), summaries related to the question, and the   *)
(* recent conversation, cut down to a budget of characters.                *)
(*                                                                         *)
(* A summary is a record [id, role, impact, tags, sum, body, hint,         *)
(* important, age, len]: sum and body are the words that occur in the      *)
(* summary and in the message, hint says whether the text has a word of an *)
(* anchor and none that excludes it, age is in days and different for      *)
(* different summaries.  A question is [text, words, tags], words being    *)
(* the keywords with their aliases, in order.                              *)
(***************************************************************************)
EXTENDS Integers, Sequences, FiniteSets, FiniteSetsExt, SequencesExt

AnchorLimit     == 4
CanonicalLimit  == 1
SemanticLimit   == 3
RecentLimit     == 10
AnchorPool      == 40
CanonicalPool   == 100
FallbackPool    == 20

AtMost(n, s) == SubSeq(s, 1, Min({n, Len(s)}))
Sorted(S, better(_, _)) == SetToSortSeq(S, better)
(* Higher score first, the newer of two with the same. *)
Ranks(rank(_), a, b) == rank(a) > rank(b) \/ (rank(a) = rank(b) /\ a.age < b.age)
Newest(n, S) == ToSet(AtMost(n, Sorted(S, LAMBDA a, b : a.age < b.age)))

----------------------------------------------------------------------------
(* The score of a summary *)

If(condition, points) == IF condition THEN points ELSE 0

RecencyBoost(age) ==
  CASE age <= 7  -> 8
    [] age <= 14 -> 5
    [] age <= 30 -> 3
    [] age <= 90 -> 1
    [] OTHER     -> 0

ImportantTags == {"release", "opencode", "runner"}

WordScore(s, w) ==
  If(w \in s.sum, 4) + If(w \in s.body, 1) + If(w \in s.tags, 5)
  + If(w \in s.sum \cup s.body, 2)

(* phrase: the whole question as a text to look for, or "". *)
Score(s, phrase, words, tags) ==
    Min({3, s.len \div 140}) + 3 * (s.impact - 1) + RecencyBoost(s.age)
  + If(s.important, 2) + If(s.tags \cap ImportantTags # {}, 1) + If(s.role = "model", 1)
  + 2 * Cardinality(tags \cap s.tags)
  + If(phrase # "", If(phrase \in s.sum, 10) + If(phrase \in s.body, 4))
  + MapThenSumSet(LAMBDA w : WordScore(s, w), words)

----------------------------------------------------------------------------
(* Anchors *)

Canonicals(table) == {s \in table : s.impact >= 3}

AnchorCandidates(table) ==
  LET decisions == Newest(AnchorPool, {s \in table : s.impact >= 2}) IN
    Canonicals(table) \cup Newest(CanonicalPool, Canonicals(table)) \cup decisions
    \cup IF decisions # {} THEN {} ELSE Newest(FallbackPool, table)

TagMatched(s, q) == s.tags \cap q.tags # {}

Canonical(s, q) ==
  s.impact >= 3 /\ (TagMatched(s, q) \/ ToSet(q.words) \cap (s.sum \cup s.body) # {})

(* Of what is left something is taken even when the limit is reached. *)
SelectAnchors(candidates, q) ==
  LET hinted  == {s \in candidates : s.hint}
      matched == {s \in hinted : TagMatched(s, q)}
      source  == IF matched # {} THEN matched ELSE IF hinted # {} THEN hinted ELSE candidates
      rank(s) == Score(s, "", ToSet(q.words), q.tags)
      ranked  == Sorted(source, LAMBDA a, b : Ranks(rank, a, b))
      first   == AtMost(CanonicalLimit, SelectSeq(ranked, LAMBDA s : Canonical(s, q)))
      rest    == SelectSeq(ranked, LAMBDA s : s \notin ToSet(first))
  IN first \o AtMost(Max({1, AnchorLimit - Len(first)}), rest)

----------------------------------------------------------------------------
(* Related summaries, found without Memoria *)

(* searchSummaries: three queries, each with a limit to its candidates. *)
SearchSummaries(table, w, limit, impact) ==
  LET rows   == {s \in table : s.impact >= impact}
      pool   == Max({4 * limit, 12})
      found  == Newest(pool, {s \in rows : w \in s.sum \cup s.tags})
                \cup Newest(pool, {s \in rows : w \in s.body})
      rank(s) == Score(s, w, {w}, {})
  IN AtMost(limit, Sorted(found, LAMBDA a, b : Ranks(rank, a, b)))

(* Those of lower impact only where there is no other. *)
FoundBy(table, w) ==
  LET high == SearchSummaries(table, w, SemanticLimit, 2)
  IN IF high # <<>> THEN high ELSE SearchSummaries(table, w, SemanticLimit, 1)

PushUnique(selected, s) == IF s \in ToSet(selected) THEN selected ELSE Append(selected, s)

SelectSemantic(table, candidates, q) ==
  LET rank(s)  == Score(s, q.text, ToSet(q.words), q.tags)
      common(s) == Cardinality(s.tags \cap q.tags)
      better(a, b) ==
        \/ common(a) > common(b)
        \/ common(a) = common(b) /\ Ranks(rank, a, b)
      local    == Sorted({s \in candidates : rank(s) > 0}, better)
      searched == FoldLeft(LAMBDA found, w : found \o FoundBy(table, w), <<>>, q.words)
  IN AtMost(SemanticLimit, FoldLeft(PushUnique, <<>>, local \o searched))

(* buildLocalSemanticLines: what is an anchor already is taken out last. *)
LocalSemantics(table, q) ==
  LET candidates == AnchorCandidates(table)
      anchors    == ToSet(SelectAnchors(candidates, q))
  IN SelectSeq(SelectSemantic(table, candidates, q), LAMBDA s : s \notin anchors)

----------------------------------------------------------------------------
(* Lines and their budget.  A line is [of, pre, len]: what it is about,    *)
(* the length of its mark with the date, and the length of its text.       *)

TitleLength == [anchors |-> 8, semantics |-> 8, recent |-> 6]
MinLines    == [anchors |-> 1, semantics |-> 1, recent |-> 4]
Section     == {"anchors", "semantics", "recent"}
Budget      == 1500 - 22

(* Without the title the line of a snippet has no date. *)
SummaryLine(s)  == [of |-> s.id, pre |-> 21, len |-> Min({s.len, 220})]
SnippetLine(h)  == [of |-> h.id, pre |-> 2,  len |-> Min({h.len, 220})]
RecentLine(m)   == [of |-> m.id, pre |-> IF m.role = "user" THEN 28 ELSE 26,
                    len |-> Min({m.len, 180})]
Lines(line(_), items) == [i \in DOMAIN items |-> line(items[i])]

LineLength(l) == l.pre + l.len
Active(secs) == {t \in Section : secs[t] # <<>>}

Rendered(secs) ==
  MapThenSumSet(LAMBDA t : TitleLength[t] + FoldLeft(LAMBDA n, l : n + 1 + LineLength(l), 0, secs[t]),
                Active(secs))
  + 2 * Max({0, Cardinality(Active(secs)) - 1})

(* A section gives up lines from its end down to its minimum. *)
Spare(secs, t) == Max({0, Len(secs[t]) - MinLines[t]})

(* n lines given up, the sections in the order of trimOrder. *)
Trimmed(secs, n) ==
  LET before(t) == CASE t = "semantics" -> 0
                     [] t = "recent"    -> Spare(secs, "semantics")
                     [] t = "anchors"   -> Spare(secs, "semantics") + Spare(secs, "recent")
      gone(t)   == Max({0, Min({Spare(secs, t), n - before(t)})})
  IN [t \in Section |-> SubSeq(secs[t], 1, Len(secs[t]) - gone(t))]

SpareLines(secs) == MapThenSumSet(LAMBDA t : Spare(secs, t), Section)

CompactLine(l, most) ==
  IF LineLength(l) <= most THEN l
  ELSE [l EXCEPT !.len = Min({l.len, Max({12, most - l.pre})})]
Compacted(secs, most) ==
  [t \in Section |-> Lines(LAMBDA l : CompactLine(l, most), secs[t])]

Fits(secs) == Rendered(secs) <= Budget

(* "flat": all on one line, cut at the budget. *)
ApplyContextBudget(secs) ==
  LET enough == {n \in 0 .. SpareLines(secs) : Fits(Trimmed(secs, n))}
      least  == Trimmed(secs, SpareLines(secs))
      at140  == Compacted(least, 140)
      at110  == Compacted(at140, 110)
  IN CASE enough # {}  -> [kind |-> "lines", secs |-> Trimmed(secs, Min(enough))]
       [] enough = {} /\ Fits(at140) -> [kind |-> "lines", secs |-> at140]
       [] enough = {} /\ ~Fits(at140) /\ Fits(at110) -> [kind |-> "lines", secs |-> at110]
       [] OTHER -> [kind |-> "flat", secs |-> at110]

----------------------------------------------------------------------------
(* buildMemoryContextAsync.  recall has the snippets Memoria gives: none   *)
(* where there is no client, it fails, or nothing is found.                *)

(* Oldest first, as getRecentConversation returns them. *)
RecentLines(conversation, include) ==
  IF include
  THEN Lines(RecentLine, SubSeq(conversation, Max({1, Len(conversation) - RecentLimit + 1}),
                                Len(conversation)))
  ELSE <<>>

Sections(table, conversation, q, recall, include) ==
  [anchors   |-> Lines(SummaryLine, SelectAnchors(AnchorCandidates(table), q)),
   semantics |-> IF recall = <<>>
                 THEN Lines(SummaryLine, LocalSemantics(table, q))
                 ELSE Lines(SnippetLine, AtMost(SemanticLimit, recall)),
   recent    |-> RecentLines(conversation, include)]

MemoryContext(table, conversation, q, recall, include) ==
  ApplyContextBudget(Sections(table, conversation, q, recall, include))

----------------------------------------------------------------------------
(* The prompt around it *)

(* shouldIncludeMemoryContext: telling is a message that is long, has      *)
(* several lines, or speaks of what was before.                            *)
IncludesMemory(mode, telling) == mode = "full" \/ (mode = "compact" /\ telling)

(* preparePromptForAgent: count is the number of prompts since the start.  *)
PromptMode(count, every, forceNew, opensNew, attached, telling, followUp) ==
  CASE forceNew \/ opensNew \/ count % every = 0 -> "full"
    [] OTHER -> IF ~attached /\ ~telling /\ followUp THEN "minimal" ELSE "compact"

(* buildChatPrompt: the sections of a prompt, in order. *)
ChatPrompt(mode, memory, hint, summary, skills, suffix) ==
  LET given(condition, section) == IF condition THEN <<section>> ELSE <<>>
      ending == <<"message">> \o given(suffix, "suffix")
  IN CASE mode = "minimal" ->
            <<"continue">> \o given(hint, "capabilities") \o ending
       [] mode = "compact" ->
            <<"role", "continue", "language">> \o given(hint, "capabilities")
            \o given(memory, "memory") \o ending
       [] mode = "full" ->
            <<"role", "yolo", "language", "policies">> \o given(summary, "state")
            \o given(skills, "skills") \o given(hint, "capabilities") \o <<"files">>
            \o given(memory, "memory") \o ending

(* The prompt of a turn (buildPrompt of main.ts): memory is read only      *)
(* where it is wanted, and a session that goes on has its conversation.    *)
BuildPrompt(table, conversation, q, recall, mode, telling, continuing, hint) ==
  LET include == IncludesMemory(mode, telling)
      memory  == MemoryContext(table, conversation, q, recall, ~continuing)
  IN ChatPrompt(mode, include /\ \E t \in Section : memory.secs[t] # <<>>,
                hint, mode = "full", mode = "full", FALSE)
=============================================================================
