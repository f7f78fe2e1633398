---------------------------- MODULE MemoryIntent ----------------------------
(***************************************************************************)
(* The marker at the end of a reply in which the model says what of the    *)
(* turn is worth keeping, [[MEMORY_INTENT: {...}]]: how it is kept out of  *)
(* what the user sees while the reply streams, how it is taken out of the  *)
(* finished reply, and when it counts (core/memory-intent.ts).             *)
(***************************************************************************)
EXTENDS Integers, Sequences, FiniteSets, FiniteSetsExt, SequencesExt

----------------------------------------------------------------------------
(* While the reply streams.  Marker is the beginning of the marker.        *)

Marker == <<"[", "[", "M">>

(* 0-based position of the first marker, -1 without one (indexOf). *)
MarkerStart(text) ==
  LET at == {i \in 0 .. Len(text) - Len(Marker) : SubSeq(text, i + 1, i + Len(Marker)) = Marker}
  IN IF at = {} THEN -1 ELSE Min(at)

HeldBackLength(text) ==
  Max({n \in 0 .. Min({Len(Marker) - 1, Len(text)}) : IsSuffix(SubSeq(Marker, 1, n), text)})

FreshFilter == [held |-> <<>>, markerSeen |-> FALSE, shown |-> <<>>]

(* shown is all that the filter let through, piece after piece. *)
StreamFilter(f, chunk) ==
  LET text  == f.held \o chunk
      start == MarkerStart(text)
      n     == Len(text) - HeldBackLength(text)
  IN CASE f.markerSeen -> f
       [] ~f.markerSeen /\ start # -1 ->
            [held |-> <<>>, markerSeen |-> TRUE, shown |-> f.shown \o SubSeq(text, 1, start)]
       [] OTHER ->
            [f EXCEPT !.held = SubSeq(text, n + 1, Len(text)),
                      !.shown = @ \o SubSeq(text, 1, n)]

(* A run that starts over has its filter start over. *)
VisibleEvent(f, event) ==
  IF event.type = "start" THEN FreshFilter ELSE StreamFilter(f, event.text)

----------------------------------------------------------------------------
(* The finished reply, a sequence of "M" (the beginning of a marker), "E"  *)
(* (its end, two brackets), braces, "q" (a quotation mark), "f" (members   *)
(* of an object), "t" (any other text), "n" (a line break) and "s" (a      *)
(* space).                                                                 *)

Blank == {"n", "s"}
Ends(text) == Len(text) + 1

(* The first position from i on with a token of S, or the end. *)
NextOf(text, S, i) == Min({Ends(text)} \cup {j \in i .. Len(text) : text[j] \in S})
SkipWhitespace(text, i) == Min({Ends(text)} \cup {j \in i .. Len(text) : text[j] \notin Blank})

(* The position after the brace that closes the one at open, 0 without:    *)
(* braces in a string do not count.                                        *)
FindJsonEnd(text, open, limit) ==
  LET read(s, i) ==
        CASE s.end # 0         -> s
          [] s.end = 0 /\ text[i] = "q" -> [s EXCEPT !.inString = ~@]
          [] s.end = 0 /\ ~s.inString /\ text[i] = "{" -> [s EXCEPT !.depth = @ + 1]
          [] s.end = 0 /\ ~s.inString /\ text[i] = "}" ->
               [s EXCEPT !.depth = @ - 1, !.end = IF s.depth = 1 THEN i + 1 ELSE 0]
          [] OTHER -> s
  IN FoldLeft(read, [depth |-> 0, inString |-> FALSE, end |-> 0],
              [k \in 1 .. limit - open |-> open + k - 1]).end

(* What JSON.parse accepts: no member, members, or one with a string in    *)
(* which there is no line break.                                           *)
ValidObject(json) ==
  LET inner == SelectSeq(SubSeq(json, 2, Len(json) - 1), LAMBDA c : c # "s")
      bare  == SelectSeq(inner, LAMBDA c : c # "n")
  IN \/ bare \in {<<>>, <<"f">>}
     \/ /\ Len(bare) >= 2 /\ bare[1] = "q" /\ Last(bare) = "q"
        /\ \A i \in 2 .. Len(bare) - 1 : bare[i] # "q"
        /\ LET q == NextOf(inner, {"q"}, 1) IN
             "n" \notin ToSet(SubSeq(inner, q, NextOf(inner, {"q"}, q + 1)))

NoBlock == [start |-> 0, end |-> 0, fields |-> "none"]

(* fields: "intent" where the object has members, which are then valid;    *)
(* "none" where it has none or cannot be read.                             *)
ReadIntentBlock(text, start) ==
  LET open     == SkipWhitespace(text, start + 1)
      limit    == NextOf(text, {"M"}, start + 1)
      isObject == open <= Len(text) /\ text[open] = "{"
      jsonEnd  == IF isObject THEN FindJsonEnd(text, open, limit) ELSE 0
      close    == SkipWhitespace(text, jsonEnd)
      json     == SubSeq(text, open, jsonEnd - 1)
      lineEnd  == Min({limit, NextOf(text, {"n"}, start + 1)})
      onLine   == NextOf(text, {"E"}, start + 1)
  IN CASE jsonEnd # 0 /\ ValidObject(json) /\ close <= Len(text) /\ text[close] = "E" ->
            [start |-> start, end |-> close + 1,
             fields |-> IF ToSet(json) \cap {"f", "q"} # {} THEN "intent" ELSE "none"]
       [] ~(jsonEnd # 0 /\ ValidObject(json) /\ close <= Len(text) /\ text[close] = "E")
          /\ onLine < lineEnd ->
            [start |-> start, end |-> onLine + 1, fields |-> "none"]
       [] OTHER ->
            IF isObject /\ limit = Ends(text) /\ lineEnd = limit
            THEN [start |-> start, end |-> Ends(text), fields |-> "none"] ELSE NoBlock

FindIntentBlocks(text) ==
  LET read(s, i) ==
        IF i < s.from \/ text[i] # "M" THEN s
        ELSE LET block == ReadIntentBlock(text, i) IN
               IF block = NoBlock THEN s
               ELSE [blocks |-> Append(s.blocks, block), from |-> block.end]
  IN FoldLeft(read, [blocks |-> <<>>, from |-> 1], [i \in 1 .. Len(text) |-> i]).blocks

----------------------------------------------------------------------------
(* What is left, as the positions that are kept, in order.                 *)

Between(i, j) == [k \in 1 .. j - i |-> i + k - 1]
Blanks(text, ps) == \A k \in DOMAIN ps : text[ps[k]] \in Blank
HasBreak(text, ps) == \E k \in DOMAIN ps : text[ps[k]] = "n"

WiderGap(text, left, right) ==
  CASE HasBreak(text, left) /\ ~HasBreak(text, right) -> left
    [] ~HasBreak(text, left) /\ HasBreak(text, right) -> right
    [] OTHER -> IF Len(left) >= Len(right) THEN left ELSE right

(* The blank beginning, the body and the blank end of a segment. *)
Parts(text, ps) ==
  LET solid == {k \in DOMAIN ps : text[ps[k]] \notin Blank}
  IN [leading  |-> SubSeq(ps, 1, Min(solid) - 1),
      body     |-> SubSeq(ps, Min(solid), Max(solid)),
      trailing |-> SubSeq(ps, Max(solid) + 1, Len(ps))]

Trim(text, ps) == IF Blanks(text, ps) THEN <<>> ELSE Parts(text, ps).body

RemoveIntentBlocks(text, blocks) ==
  LET cut(s, b) ==
        LET segment == Between(s.cursor, b.start)
            p       == Parts(text, segment)
        IN IF Blanks(text, segment)
           THEN [s EXCEPT !.gap = WiderGap(text, @, segment), !.cursor = b.end]
           ELSE [kept   |-> s.kept \o WiderGap(text, s.gap, p.leading) \o p.body,
                 gap    |-> p.trailing,
                 cursor |-> b.end]
      atEnd == [start |-> Ends(text), end |-> Ends(text), fields |-> "none"]
  IN Trim(text, FoldLeft(cut, [kept |-> <<>>, gap |-> <<>>, cursor |-> 1],
                         Append(blocks, atEnd)).kept)

(* A reply without a marker is left as it is. *)
ParseMemoryIntent(text) ==
  LET blocks == FindIntentBlocks(text)
      after  == Between(Last(blocks).end, Ends(text))
  IN IF blocks = <<>> THEN [kept |-> Between(1, Ends(text)), intent |-> "none"]
     ELSE [kept   |-> RemoveIntentBlocks(text, blocks),
           intent |-> IF Blanks(text, after) THEN Last(blocks).fields ELSE "none"]

----------------------------------------------------------------------------
(* The traces of the last intents (services/memory-intent-telemetry.ts).   *)

MaxTraces == 50
RecordMemoryIntentTrace(traces, trace) ==
  LET all == Append(traces, trace)
  IN SubSeq(all, Max({1, Len(all) - MaxTraces + 1}), Len(all))
RecentMemoryIntentTraces(traces, limit) ==
  LET n == Max({1, Min({50, limit})})
  IN SubSeq(traces, Max({1, Len(traces) - n + 1}), Len(traces))
=============================================================================
