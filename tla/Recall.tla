------------------------------- MODULE Recall -------------------------------
(***************************************************************************)
(* A recall from Memoria: the request, the verdict on what it found, what  *)
(* is recorded of it, and the outcome that is reported back when the reply *)
(* is there (core/memoria-recall.ts, memoria-recall-query.ts, and the      *)
(* traces and metrics under services/).                                    *)
(*                                                                         *)
(* After the first section a text is the set of its words.  A hit is       *)
(* [id, words], id 0 for none; a response is [ok, recallId, hits,          *)
(* confidence, route], ok being FALSE for a request that times out, is     *)
(* refused or answered with an error, and confidence, in hundredths,       *)
(* Unknown where Memoria cannot tell.                                      *)
(***************************************************************************)
EXTENDS Integers, Sequences, FiniteSets, FiniteSetsExt, SequencesExt

CONSTANTS Number,          \* words that are a number
          FunctionWord     \* words that ask or join

Unknown == -1

(* A vector search of Memoria falls back to words after 15 s. *)
MinVectorRecallTimeout == 20000
RecallTimeout(mode, configured) ==
  IF mode = "vector" THEN Max({configured, MinVectorRecallTimeout}) ELSE configured

MinMatchedTokens == 2

----------------------------------------------------------------------------
(* The words of a text, here a sequence of characters: those of Cjk are    *)
(* written without spaces and are taken two by two.                        *)

CONSTANTS Cjk, Latin,        \* characters of either kind
          WordList           \* the function words, the longest first

Blank == " "

(* Blanks in the place of a word, from left to right. *)
Blanked(text, word) ==
  LET step(s, i) ==
        IF i < s.from \/ SubSeq(text, i, i + Len(word) - 1) # word THEN s
        ELSE [from |-> i + Len(word),
              out  |-> [k \in DOMAIN text |-> IF k \in i .. i + Len(word) - 1 THEN Blank ELSE s.out[k]]]
  IN FoldLeft(step, [from |-> 1, out |-> text],
              [i \in 1 .. Len(text) - Len(word) + 1 |-> i]).out

StripText(text) == FoldLeft(Blanked, text, WordList)

(* The longest stretches of characters of S, as pairs of positions. *)
Stretches(text, S) ==
  {r \in (DOMAIN text) \X (DOMAIN text) :
     /\ r[1] <= r[2] /\ \A i \in r[1] .. r[2] : text[i] \in S
     /\ (r[1] = 1 \/ text[r[1] - 1] \notin S) /\ (r[2] = Len(text) \/ text[r[2] + 1] \notin S)}

TokenizeQuery(text, n) ==
  {SubSeq(text, r[1], r[2]) : r \in {s \in Stretches(text, Latin) : s[2] - s[1] + 1 >= n}}
  \cup UNION {{SubSeq(text, i, i + n - 1) : i \in r[1] .. r[2] - n + 1} : r \in Stretches(text, Cjk)}

----------------------------------------------------------------------------
(* The request and its verdict, with texts as sets of words *)

StripFunctionWords(query) == query \ FunctionWord

(* A query of nothing but such words is sent as it is. *)
SentQuery(query) ==
  IF StripFunctionWords(query) # {} THEN StripFunctionWords(query) ELSE query

CountMatchedContentTokens(query, snippet) == Cardinality((query \ Number) \cap snippet)

Snippets(hits) == SelectSeq([i \in DOMAIN hits |-> hits[i].words], LAMBDA w : w # {})
UsableHits(hits) == SelectSeq(hits, LAMBDA h : h.id # 0 /\ h.words # {})

(* minimum 0 turns the whole test off, and so does a confidence that is    *)
(* not known.                                                              *)
DroppedLowConfidence(query, response, minimum) ==
  LET snippets == Snippets(response.hits)
      first    == IF snippets = <<>> THEN {} ELSE snippets[1]
  IN /\ response.hits # <<>>
     /\ response.confidence # Unknown
     /\ minimum > 0
     /\ \/ response.confidence < minimum
        \/ /\ snippets # <<>>
           /\ CountMatchedContentTokens(StripFunctionWords(query), first) < MinMatchedTokens

IsDegradedRoute(route) == route \in {"vector_unavailable", "vector_timeout"}

(* What the recall gives, the trace it leaves, and the issue it raises.    *)
(* A failure gives nothing and is not thrown on.                           *)
RecallWithMeta(query, response, minimum) ==
  LET dropped == DroppedLowConfidence(query, response, minimum)
      some    == ~dropped /\ Snippets(response.hits) # <<>>
      trace(route, hits, drop, inj) ==
        [ok |-> response.ok, route |-> route, hitCount |-> hits, dropped |-> drop, injected |-> inj]
  IN IF ~response.ok
     THEN [snippets |-> <<>>, hits |-> <<>>, recallId |-> 0,
           trace |-> trace("error", 0, FALSE, FALSE), issue |-> "recall"]
     ELSE [snippets |-> IF dropped THEN <<>> ELSE Snippets(response.hits),
           hits     |-> IF dropped THEN <<>> ELSE UsableHits(response.hits),
           recallId |-> IF dropped THEN 0 ELSE response.recallId,
           trace    |-> trace(response.route, Len(response.hits), dropped, some),
           issue    |-> IF IsDegradedRoute(response.route) THEN "degraded" ELSE "none"]

----------------------------------------------------------------------------
(* The outcome.  A turn builds its prompt once, and once more where it     *)
(* comes to open a new session; builds are the results of their recalls.   *)

(* memoriaRecallMeta of main.ts, 0 without. *)
RecallMeta(result) ==
  IF result.recallId # 0 /\ result.hits # <<>>
  THEN [recallId |-> result.recallId, hits |-> result.hits]
  ELSE [recallId |-> 0, hits |-> <<>>]

(* In hundredths. *)
TokenCoverage(snippet, reply) ==
  IF snippet = {} THEN 0 ELSE (100 * Cardinality(snippet \cap reply)) \div Cardinality(snippet)

BuildReuseOutcome(hits, reply) ==
  LET perHit == [i \in DOMAIN hits |->
                   [id |-> hits[i].id, utility |-> TokenCoverage(hits[i].words, reply)]]
  IN [utility |-> Max({0} \cup {h.utility : h \in ToSet(perHit)}), hits |-> perHit]

NoReport == [recallId |-> 0]

(* The first build's, the one preparePromptForAgent returns. *)
ReportedOutcome(builds, reply, isError) ==
  LET meta == RecallMeta(builds[1])
  IN IF meta.recallId = 0 \/ isError THEN NoReport
     ELSE [recallId |-> meta.recallId, outcome |-> BuildReuseOutcome(meta.hits, reply)]

----------------------------------------------------------------------------
(* What is recorded: the last traces in memory, and a row of the database  *)
(* for each, under the version of the program, kept for 30 days.  A trace  *)
(* whose row cannot be written is only in memory.                          *)

MaxTraces == 50
RecordTrace(traces, trace) ==
  LET all == Append(traces, trace)
  IN SubSeq(all, Max({1, Len(all) - MaxTraces + 1}), Len(all))

AppendRecallEvent(rows, version, at, trace) ==
  Append(rows, [ts |-> at, version |-> version, ok |-> trace.ok, hitCount |-> trace.hitCount,
                injected |-> trace.injected, degraded |-> IsDegradedRoute(trace.route)])

Retention == 30
PurgeOldRecallEvents(rows, now) == SelectSeq(rows, LAMBDA r : r.ts >= now - Retention)

Count(rows, test(_)) == Len(SelectSeq(rows, test))

SummaryOfVersion(rows, version) ==
  LET mine == SelectSeq(rows, LAMBDA r : r.version = version)
      last == Max({r.ts : r \in ToSet(mine)})
  IN [version   |-> version,
      total     |-> Len(mine),
      succeeded |-> Count(mine, LAMBDA r : r.ok),
      withHits  |-> Count(mine, LAMBDA r : r.ok /\ r.hitCount > 0),
      injected  |-> Count(mine, LAMBDA r : r.ok /\ r.injected),
      degraded  |-> Count(mine, LAMBDA r : r.ok /\ r.degraded),
      lastAt    |-> last]

Summaries(rows) ==
  SetToSortSeq({SummaryOfVersion(rows, v) : v \in {r.version : r \in ToSet(rows)}},
               LAMBDA a, b : a.lastAt > b.lastAt)

(* The two sections of the report, "none" for one that has no rows. *)
ByVersion(summaries, current) ==
  LET one(S) == IF S = <<>> THEN "none" ELSE S[1].version
  IN [current  |-> one(SelectSeq(summaries, LAMBDA s : s.version = current)),
      previous |-> one(SelectSeq(summaries, LAMBDA s : s.version # current))]

(* A share of the successful recalls, not given for too few. *)
MinSamples == 20
Rate(summary, count) ==
  IF summary.succeeded < MinSamples THEN Unknown ELSE (1000 * count) \div summary.succeeded

(* The section on the last traces.  Confidence is left out: only those of  *)
(* one kind can be compared.                                               *)
Telemetry(traces) ==
  LET okCount == Count(traces, LAMBDA t : t.ok)
  IN [samples |-> Len(traces), succeeded |-> okCount, failed |-> Len(traces) - okCount,
      degraded |-> Count(traces, LAMBDA t : IsDegradedRoute(t.route))]
=============================================================================
