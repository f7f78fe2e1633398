-------------------------- MODULE MCStreamRenderer --------------------------
(***************************************************************************)
(* StreamRenderer for TLC: one reply with one fault of Telegram, two       *)
(* updates, answers of up to two messages, with and without drafts, edited *)
(* in place or sent anew.  The texts, tables and trees on which the making *)
(* of messages is evaluated.                                               *)
(***************************************************************************)
EXTENDS StreamRenderer, MessageText

Limit == 6

(* Texts of up to four lines, of lengths around the limit. *)
TextsOf(kinds) ==
  {[i \in DOMAIN t |-> [id |-> i, len |-> t[i][1], fence |-> t[i][2]]] :
     t \in UNION {[1 .. n -> kinds] : n \in 1 .. 4}}
PlainTexts  == TextsOf({0, 1, 2, 5, 6, 7, 13} \X {FALSE})
FencedTexts == TextsOf({<<1, FALSE>>, <<2, FALSE>>, <<5, FALSE>>, <<3, TRUE>>, <<4, TRUE>>})

(* Every line is in the pieces, in full and in its place. *)
AllThere(text, chunks) ==
  LET parts == SelectSeq(FlattenSeq(chunks), LAMBDA p : p.id # 0 /\ p.len > 0) IN
    /\ \A i \in 1 .. Len(parts) - 1 : parts[i].id <= parts[i + 1].id
    /\ \A i \in DOMAIN text :
         SumOf(LAMBDA p : IF p.id = i THEN p.len ELSE 0, parts) = text[i].len

WithinLimit(chunks) == \A k \in DOMAIN chunks : Length(chunks[k]) <= Limit

(* splitMessage: no piece is longer than Telegram takes, and no character  *)
(* of a line is lost or doubled.  A text of nothing but line breaks is     *)
(* left as it is.                                                          *)
PiecesFit(split(_, _)) ==
  \A text \in PlainTexts :
    (\E i \in DOMAIN text : text[i].len > 0) =>
      WithinLimit(split(text, Limit)) /\ AllThere(text, split(text, Limit))

(* Variant: the line break that joins two lines is not counted. *)
JoinsAreFree(text, limit) ==
  FoldLeft(LAMBDA s, l : IF Len(s) > 0 /\ SumOf(LAMBDA x : x.len, Last(s)) + l.len <= limit
                         THEN [s EXCEPT ![Len(s)] = Append(@, l)]
                         ELSE s \o CutLine(l, limit),
           <<>>, text)

ASSUME SplitFits == PiecesFit(SplitMessage)
ASSUME SplitCheckNotices == ~PiecesFit(JoinsAreFree)

(* chunkMarkdownV2: no line of the text is lost, doubled or moved, and     *)
(* without fences and empty lines the pieces fit.  Where no fence of the   *)
(* text begins a piece, the fences of a piece are in pairs.                *)
Fences(chunk) == Len(SelectSeq(chunk, LAMBDA l : l.fence))
BeginsWithFence(chunk) ==
  LET own == SelectSeq(chunk, LAMBDA l : l.id # 0) IN own # <<>> /\ own[1].fence
ChunksAreGood(chunk(_, _)) ==
  /\ \A text \in PlainTexts :
       LET c == chunk(text, Limit) IN
         AllThere(text, c) /\ ((\A i \in DOMAIN text : text[i].len > 0) => WithinLimit(c))
  /\ \A text \in FencedTexts :
       LET c == chunk(text, Limit) IN
         /\ AllThere(text, c)
         /\ (\A k \in 2 .. Len(c) : ~BeginsWithFence(c[k])) =>
              \A k \in 1 .. Len(c) - 1 : Fences(c[k]) % 2 = 0

(* Variant: a fence is not closed at the end of a piece. *)
FenceLeftOpen(text, limit) ==
  LET c == ChunkMarkdownV2(text, limit) IN
    [k \in DOMAIN c |-> SelectSeq(c[k], LAMBDA l : l.id # 0 \/ l.len # 3)]

ASSUME ChunksKeepLines == ChunksAreGood(ChunkMarkdownV2)
ASSUME ChunkCheckNotices == ~ChunksAreGood(FenceLeftOpen) /\ ~ChunksAreGood(SplitMessage)

(* tests/telegram/render-chunker.test.ts asks of its examples that fences  *)
(* are in pairs and pieces within the limit.  Neither holds of every text: *)
(* the fence that a piece has no room for counts as open when the piece is *)
(* closed, and what is added to close and open a fence is not counted.     *)
ASSUME FencesNotInPairs ==
  \E text \in FencedTexts : \E k \in DOMAIN ChunkMarkdownV2(text, Limit) :
    Fences(ChunkMarkdownV2(text, Limit)[k]) % 2 = 1
ASSUME ChunksOverTheLimit ==
  \E text \in FencedTexts : ~WithinLimit(ChunkMarkdownV2(text, Limit))

----------------------------------------------------------------------------
(* Tables of up to two rows below a head of one or two cells. *)
Cells(n, len) == [i \in 1 .. n |-> [id |-> i, len |-> len]]
TableLine(cells) == [bar |-> TRUE, divider |-> FALSE, cells |-> cells]
Divider == [bar |-> TRUE, divider |-> TRUE, cells |-> <<>>]
Other   == [bar |-> FALSE, divider |-> FALSE, cells |-> Cells(1, 30)]

Tables(widest) ==
  {<<TableLine(Cells(h, 3)), Divider, TableLine(Cells(a, la)), TableLine(Cells(b, lb)), Other>> :
     h \in 1 .. 4, a \in 1 .. widest, b \in 1 .. widest, la \in {3, 24, 25, 40}, lb \in {3, 40}}
NoWiderThanHead(t) == Len(t[3].cells) <= Len(t[1].cells) /\ Len(t[4].cells) <= Len(t[1].cells)

ShownLength(out) == SumOf(LAMBDA o : SumOf(LAMBDA c : c.len, o.cells), out)
RowsLength(t) == SumOf(LAMBDA l : SumOf(LAMBDA c : c.len, l.cells), SubSeq(t, 3, Len(t)))

(* Left to itself, the rendering of a table cuts no cell of its rows: what *)
(* would be too long for a column of the block of code is shown on cards.  *)
NothingIsCut(tables(_)) ==
  \A t \in Tables(4) : NoWiderThanHead(t) => ShownLength(tables(t)) >= RowsLength(t)

ASSUME TablesAreWhole == NothingIsCut(LAMBDA t : NormalizeMarkdownTables("auto", t))
ASSUME TableCheckNotices == ~NothingIsCut(LAMBDA t : NormalizeMarkdownTables("code", t))

(* On cards, a row loses the cells it has beyond those of the head. *)
ASSUME WideRowIsCut ==
  \E t \in Tables(4) : ShownLength(NormalizeMarkdownTables("auto", t)) < RowsLength(t)

----------------------------------------------------------------------------
(* Replies of paragraphs, quotations and lists. *)
Text(id)         == [type |-> "text", id |-> id, children |-> <<>>]
Node(type, kids) == [type |-> type, id |-> 0, children |-> kids]
Paragraph(id)    == Node("paragraph", <<Node("strong", <<Text(id)>>), Text(id + 1)>>)
Item(kids)       == Node("listItem", kids)
List(kids)       == Node("list", kids)

(* The texts of a list with one level, a quotation and a heading are       *)
(* rendered in order; a list in an item of a list is not rendered at all.  *)
ASSUME FlatIsRendered ==
  RenderMarkdownV2(<<Node("heading", <<Text(1)>>), Paragraph(2),
                     List(<<Item(<<Paragraph(4)>>), Item(<<Paragraph(6)>>)>>),
                     Node("blockquote", <<Paragraph(8)>>)>>) = <<1, 2, 3, 4, 5, 6, 7, 8, 9>>
ASSUME NestedIsNot ==
  RenderMarkdownV2(<<List(<<Item(<<Paragraph(1), List(<<Item(<<Paragraph(3)>>)>>)>>)>>)>>) = <<1, 2>>

----------------------------------------------------------------------------
(* A reply may name several files: one that is refused does not stop the   *)
(* others, and only a file that Telegram does not take goes unmentioned.   *)
Files == [place : {"outside", "project", "temp"}, exists : BOOLEAN, isFile : BOOLEAN,
          size : {1, 9}, taken : BOOLEAN]

EachIsAnswered(deliver(_)) ==
  \A a, b \in Files :
    LET told == deliver(<<a, b>>) IN
      /\ told[2] = deliver(<<b>>)[1]
      /\ told[1] = "nothing" => ~a.taken /\ a.size = 1 /\ a.isFile
      /\ told[2] = "sent" => b.size = 1 /\ ResolveTempFilePath(b)

(* Variant: delivery ends with the first file that is refused. *)
UntilRefused(files, most) ==
  LET all == DeliverFileDirectives(files, most)
  IN [k \in DOMAIN files |-> IF \E j \in 1 .. k - 1 : all[j] # "sent" THEN "nothing" ELSE all[k]]

ASSUME FilesAreAnswered == EachIsAnswered(LAMBDA f : DeliverFileDirectives(f, 5))
ASSUME FileCheckNotices == ~EachIsAnswered(LAMBDA f : UntilRefused(f, 5))
=============================================================================
