--------------------------- MODULE MCMemoryIntent ---------------------------
(* Replies and ways of cutting them on which the markers are evaluated.    *)
EXTENDS MemoryIntent

(* Every text of at most six characters that has pieces of a marker, and   *)
(* every way to cut it in pieces (cuts: the positions after which it is    *)
(* cut).                                                                   *)
Streams == UNION {[1 .. n -> {"[", "M", "a"}] : n \in 1 .. 6}

Chunks(text, cuts) ==
  LET ends == SetToSortSeq(cuts \cup {Len(text)}, <)
  IN [k \in DOMAIN ends |-> SubSeq(text, (IF k = 1 THEN 0 ELSE ends[k - 1]) + 1, ends[k])]

Preview(text) ==
  IF MarkerStart(text) # -1 THEN SubSeq(text, 1, MarkerStart(text))
  ELSE SubSeq(text, 1, Len(text) - HeldBackLength(text))

(* However the reply is cut into pieces, what is shown of it is its text   *)
(* up to the marker, and nothing that may still become the beginning of    *)
(* one: the filter carries the end of a piece over to the next.            *)
ShownWhateverThePieces(filter(_, _)) ==
  \A text \in Streams : \A cuts \in SUBSET (1 .. Len(text) - 1) :
    FoldLeft(filter, FreshFilter, Chunks(text, cuts)).shown = Preview(text)

(* Variant: every piece is looked at by itself. *)
PieceByPiece(f, chunk) == StreamFilter([f EXCEPT !.held = <<>>], chunk)

ASSUME PreviewIsTheSame == ShownWhateverThePieces(StreamFilter)
ASSUME PreviewCheckNotices == ~ShownWhateverThePieces(PieceByPiece)

(* A run that is repeated, after its session was lost or by the local      *)
(* agent, shows its reply whatever the run before it had reached: also     *)
(* when that one had shown its marker.                                     *)
Event(type, text) == [type |-> type, text |-> text]
RepeatedRunIsShown(visible(_, _)) ==
  \A before, after \in {s \in Streams : Len(s) <= 4} :
    LET events == <<Event("start", <<>>), Event("delta", before),
                    Event("start", <<>>), Event("delta", after)>>
    IN FoldLeft(visible, FreshFilter, events).shown = Preview(after)

(* Variant: the filter goes on. *)
NeverFresh(f, event) ==
  IF event.type = "start" THEN [f EXCEPT !.shown = <<>>] ELSE StreamFilter(f, event.text)

ASSUME RepetitionIsShown == RepeatedRunIsShown(VisibleEvent)
ASSUME RepetitionCheckNotices == ~RepeatedRunIsShown(NeverFresh)

----------------------------------------------------------------------------
(* Replies made of up to three pieces: text, blanks, and markers complete, *)
(* over two lines, with a brace in a string, broken, cut short, and empty. *)
Good  == <<"M", "{", "f", "}", "E">>
Piece == {<<"t">>, <<"n">>, <<"n", "t">>, <<"s">>, <<"E">>, Good,
          <<"M", "n", "{", "f", "n", "}", "s", "E">>,
          <<"M", "{", "q", "}", "E", "q", "}", "E">>,
          <<"M", "{", "q", "n", "}", "q", "}">>,
          <<"M", "t", "E">>, <<"M", "{", "f">>, <<"M">>}
Replies == {FlattenSeq(p) : p \in UNION {[1 .. n -> Piece] : n \in 1 .. 3}}

InBlock(blocks, i) == \E k \in DOMAIN blocks : i \in blocks[k].start .. blocks[k].end - 1
Solid(text, ps) == SelectSeq(ps, LAMBDA i : text[i] \notin Blank)

(* Of the reply, only its markers are taken out: all text outside them is  *)
(* kept, in order, and two texts with a line break between them still have *)
(* one, so that paragraphs and lists do not run together.                  *)
OnlyMarkersGo(remove(_, _)) ==
  \A text \in Replies :
    LET blocks == FindIntentBlocks(text)
        kept   == remove(text, blocks)
        solid  == Solid(text, kept)
    IN blocks # <<>> =>
         /\ solid = SelectSeq(Between(1, Ends(text)),
                              LAMBDA i : text[i] \notin Blank /\ ~InBlock(blocks, i))
         /\ \A k \in 1 .. Len(solid) - 1 :
              LET inside(ps) == {i \in ps : solid[k] < i /\ i < solid[k + 1] /\ text[i] = "n"}
              IN {i \in inside(DOMAIN text) : ~InBlock(blocks, i)} # {}
                 => inside(ToSet(kept)) # {}

(* Variant: of the blanks on both sides the ones before the marker stay. *)
LeftGap(text, blocks) ==
  LET cut(s, b) ==
        LET segment == Between(s.cursor, b.start) IN
          IF Blanks(text, segment) THEN [s EXCEPT !.cursor = b.end]
          ELSE [kept   |-> s.kept \o s.gap \o Parts(text, segment).body,
                gap    |-> Parts(text, segment).trailing,
                cursor |-> b.end]
  IN FoldLeft(cut, [kept |-> <<>>, gap |-> <<>>, cursor |-> 1],
              Append(blocks, [start |-> Ends(text), end |-> Ends(text), fields |-> "none"])).kept

ASSUME TextIsKept == OnlyMarkersGo(RemoveIntentBlocks)
ASSUME TextCheckNotices == ~OnlyMarkersGo(LeftGap)

(* What is not on the line of a marker is never taken for a part of a      *)
(* broken one: text on a line without a marker stays in the reply.         *)
OtherLinesStay(read(_, _)) ==
  \A text \in Replies : \A i \in DOMAIN text :
    (/\ text[i] = "t"
     /\ \E j \in 0 .. i - 1 : (j = 0 \/ text[j] = "n") /\ \A k \in j + 1 .. i : text[k] # "M")
    => \A m \in DOMAIN text : text[m] = "M" =>
         ~(read(text, m) # NoBlock /\ m < i /\ i < read(text, m).end)

(* Variant: the end of a broken marker is looked for to the end. *)
EndAnywhere(text, m) ==
  LET block == ReadIntentBlock(text, m)
      end   == NextOf(text, {"E"}, m)
  IN IF block = NoBlock /\ end <= Len(text)
     THEN [start |-> m, end |-> end + 1, fields |-> "none"] ELSE block

ASSUME OtherLinesAreKept == OtherLinesStay(ReadIntentBlock)
ASSUME OtherLinesCheckNotices == ~OtherLinesStay(EndAnywhere)

(* A complete marker at the end of a reply counts, whatever comes before   *)
(* it, broken markers and open strings included; and one with text after   *)
(* it never does, as it may be an example the reply quotes.                *)
CountsAtTheEnd(parse(_)) ==
  \A text \in Replies :
    /\ parse(text \o Good \o <<"n">>).intent = "intent"
    /\ parse(text \o Good \o <<"n", "t">>).intent = "none"

(* Variants: the first marker counts; the last counts wherever it is. *)
FirstCounts(text) ==
  LET blocks == FindIntentBlocks(text) IN
    [intent |-> IF blocks = <<>> THEN "none" ELSE Head(blocks).fields]
LastCounts(text) ==
  LET blocks == FindIntentBlocks(text) IN
    [intent |-> IF blocks = <<>> THEN "none" ELSE Last(blocks).fields]

ASSUME LastMarkerCounts == CountsAtTheEnd(ParseMemoryIntent)
ASSUME MarkerCheckNotices == ~CountsAtTheEnd(FirstCounts) /\ ~CountsAtTheEnd(LastCounts)
=============================================================================
