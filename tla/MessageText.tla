---------------------------- MODULE MessageText ----------------------------
(***************************************************************************)
(* A reply on its way to messages of Telegram: files it names, Markdown    *)
(* that is rendered, tables, and the pieces of at most 4096 characters     *)
(* (connectors/telegram.ts, telegram/render/, and the file directives of   *)
(* core/message-pipeline-helpers.ts).                                      *)
(*                                                                         *)
(* A line is a record [id, len, fence], fence being TRUE for a line of     *)
(* three backquotes, with the name of a language behind them or not.  A    *)
(* piece is a sequence of lines and parts of lines.                        *)
(***************************************************************************)
EXTENDS Integers, Sequences, FiniteSets, FiniteSetsExt, SequencesExt

SumOf(f(_), s) == FoldLeft(LAMBDA n, x : n + f(x), 0, s)

(* Lines with a line break between them. *)
Length(lines) ==
  IF lines = <<>> THEN 0 ELSE SumOf(LAMBDA l : l.len, lines) + Len(lines) - 1

(* A line that is too long by itself, in parts. *)
CutLine(line, limit) ==
  LET n == (line.len + limit - 1) \div limit
  IN [k \in 1 .. n |-> <<[line EXCEPT !.len = Min({limit, line.len - (k - 1) * limit})]>>]

----------------------------------------------------------------------------
(* splitMessage *)

(* Empty lines before the first of a piece are lost: an empty string is    *)
(* no piece.                                                               *)
Joined(current, line) == IF Length(current) = 0 THEN <<line>> ELSE Append(current, line)

SplitMessage(text, limit) ==
  LET step(s, line) ==
        LET full == IF Length(s.current) > 0 THEN Append(s.chunks, s.current) ELSE s.chunks IN
          CASE Length(s.current) + line.len + 1 <= limit ->
                 [s EXCEPT !.current = Joined(@, line)]
            [] Length(s.current) + line.len + 1 > limit /\ line.len > limit ->
                 [chunks |-> full \o CutLine(line, limit), current |-> <<>>]
            [] OTHER -> [chunks |-> full, current |-> <<line>>]
      done == FoldLeft(step, [chunks |-> <<>>, current |-> <<>>], text)
      all  == IF Length(done.current) > 0 THEN Append(done.chunks, done.current) ELSE done.chunks
  IN IF all # <<>> THEN all ELSE <<text>>

----------------------------------------------------------------------------
(* chunkMarkdownV2, which closes a fence at the end of a piece and opens   *)
(* it again in the next.                                                   *)

Close  == [id |-> 0, len |-> 3, fence |-> TRUE]
Header(s) == [id |-> 0, len |-> s.headerLen, fence |-> TRUE]

Flush(s) ==
  IF s.current = <<>> THEN s
  ELSE [s EXCEPT !.chunks  = Append(@, IF s.open THEN Append(s.current, Close) ELSE s.current),
                 !.current = IF s.open THEN <<Header(s)>> ELSE <<>>,
                 !.len     = IF s.open THEN s.headerLen + 1 ELSE 0]

(* The fence changes before the piece it no longer fits into is closed. *)
Fenced(s, line) ==
  IF ~line.fence THEN s
  ELSE [s EXCEPT !.open = ~@, !.headerLen = IF s.open THEN 3 ELSE line.len]

Separator(s) == IF s.len = 0 THEN 0 ELSE 1
Pushed(s, line) ==
  [s EXCEPT !.current = Append(@, line), !.len = @ + Separator(s) + line.len]

ChunkMarkdownV2(text, limit) ==
  LET step(before, line) ==
        LET s       == Fenced(before, line)
            flushed == Flush(s)
        IN CASE s.len + Separator(s) + line.len <= limit -> Pushed(s, line)
             [] s.len + Separator(s) + line.len > limit /\ line.len > limit ->
                  [flushed EXCEPT !.chunks = @ \o CutLine(line, limit)]
             [] OTHER -> Pushed(flushed, line)
      empty == [chunks |-> <<>>, current |-> <<>>, len |-> 0, open |-> FALSE, headerLen |-> 3]
  IN IF Length(text) <= limit THEN <<text>>
     ELSE Flush(FoldLeft(step, empty, text)).chunks

----------------------------------------------------------------------------
(* Tables.  A line is now [bar, divider, cells]: whether it has a bar,     *)
(* whether it is the line below the head of a table, and its cells, each   *)
(* [id, len], len 0 for an empty one.                                      *)

CodeWidth == 28

Width(cells) == Len(cells)
Columns(rows) == Max({0} \cup {Width(r) : r \in ToSet(rows)})
Longest(rows) == Max({0} \cup UNION {{c.len : c \in ToSet(r)} : r \in ToSet(rows)})

ResolveTableRenderMode(setting, head, rows) ==
  IF setting \in {"card", "code"} THEN setting
  ELSE IF Columns(<<head>> \o rows) > 3 \/ Longest(<<head>> \o rows) > 24 THEN "card" ELSE "code"

(* The cells that are shown, in order, with what is shown of them.  Code   *)
(* cuts a cell at its column's width; a card has a line for each further   *)
(* column of the head, and the head itself only where there is a row.      *)
TableToCodeBlock(head, rows) ==
  LET shown(c) == [c EXCEPT !.len = Min({c.len, CodeWidth})]
      row(r)   == [i \in DOMAIN r |-> shown(r[i])]
  IN FlattenSeq([k \in 1 .. Len(rows) + 1 |-> row((<<head>> \o rows)[k])])

TableToCardBlock(head, rows) ==
  LET card(r) ==
        SubSeq(r, 1, Min({1, Len(r)}))
        \o FlattenSeq([i \in 1 .. Max({0, Len(head) - 1}) |->
             <<head[i + 1]>> \o IF i + 1 <= Len(r) THEN <<r[i + 1]>> ELSE <<>>])
  IN FlattenSeq([k \in DOMAIN rows |-> card(rows[k])])

(* Whatever a fence says: a table in a block of code is rendered as well.  *)
StartsTable(lines, i) == i < Len(lines) /\ lines[i].bar /\ lines[i + 1].divider
AfterTable(lines, i)  == Min({Len(lines) + 1} \cup {j \in i + 2 .. Len(lines) : ~lines[j].bar})

RowsBelow(lines, i) ==
  LET all == [k \in 1 .. AfterTable(lines, i) - i - 2 |-> lines[i + 1 + k].cells]
  IN SelectSeq(all, LAMBDA r : \E c \in ToSet(r) : c.len > 0)

RenderTable(setting, head, rows) ==
  LET mode == ResolveTableRenderMode(setting, head, rows)
  IN [mode  |-> mode,
      cells |-> IF mode = "card" THEN TableToCardBlock(head, rows)
                ELSE TableToCodeBlock(head, rows)]

NormalizeMarkdownTables(setting, lines) ==
  LET step(s, i) ==
        CASE i < s.next -> s
          [] i >= s.next /\ StartsTable(lines, i) ->
               [out  |-> Append(s.out, RenderTable(setting, lines[i].cells, RowsBelow(lines, i))),
                next |-> AfterTable(lines, i)]
          [] OTHER -> [out |-> Append(s.out, [mode |-> "line", cells |-> lines[i].cells]),
                       next |-> i + 1]
  IN FoldLeft(step, [out |-> <<>>, next |-> 1], [i \in DOMAIN lines |-> i]).out

(* How a piece is sent: html and markdown say what the text looks like. *)
FormatChunkForTelegram(mode, html, markdown) ==
  CASE mode = "plain" -> [parseMode |-> "none", converted |-> FALSE]
    [] mode = "html"  -> [parseMode |-> "HTML", converted |-> markdown]
    [] mode = "auto"  -> [parseMode |-> IF html \/ markdown THEN "HTML" ELSE "none",
                          converted |-> ~html /\ markdown]

----------------------------------------------------------------------------
(* Markdown of a reply, a tree of nodes [type, id, children], as the texts *)
(* that are rendered, in order.  What has no rule is left out, and so is   *)
(* all of an item or a quotation that is not a paragraph.                  *)

RECURSIVE RenderInline(_)
RenderInline(node) ==
  CASE node.type \in {"text", "inlineCode"} -> <<node.id>>
    [] node.type \in {"strong", "emphasis", "link"} ->
         FlattenSeq([k \in DOMAIN node.children |-> RenderInline(node.children[k])])
    [] OTHER -> <<>>

RenderInlineChildren(node) ==
  FlattenSeq([k \in DOMAIN node.children |-> RenderInline(node.children[k])])

ParagraphsOf(node) ==
  FlattenSeq([k \in DOMAIN node.children |->
    IF node.children[k].type = "paragraph" THEN RenderInlineChildren(node.children[k]) ELSE <<>>])

RenderBlock(node) ==
  CASE node.type \in {"heading", "paragraph"} -> RenderInlineChildren(node)
    [] node.type = "code"       -> <<node.id>>
    [] node.type = "list"       ->
         FlattenSeq([k \in DOMAIN node.children |-> ParagraphsOf(node.children[k])])
    [] node.type = "blockquote" -> ParagraphsOf(node)
    [] OTHER -> <<>>

RenderMarkdownV2(blocks) == FlattenSeq([k \in DOMAIN blocks |-> RenderBlock(blocks[k])])

----------------------------------------------------------------------------
(* Files.  A file is [place, exists, isFile, size, taken], its place       *)
(* "outside" the project, "project" for somewhere in it, or "temp" for     *)
(* workspace/temp.                                                         *)

ResolveProjectFilePath(file) == file.place # "outside"
ResolveTempFilePath(file)    == file.place = "temp"

(* What the user is told, or "sent".  Of a file that Telegram does not     *)
(* take (taken FALSE) nothing is told: sendFile only logs it.              *)
DeliverFileDirective(file, most) ==
  CASE ~ResolveProjectFilePath(file) -> "only the project"
    [] ResolveProjectFilePath(file) /\ ~ResolveTempFilePath(file) -> "only workspace/temp"
    [] ResolveTempFilePath(file) /\ ~file.exists -> "not there"
    [] ResolveTempFilePath(file) /\ file.exists /\ ~file.isFile -> "not a file"
    [] ResolveTempFilePath(file) /\ file.exists /\ file.isFile /\ file.size > most -> "too large"
    [] OTHER -> IF file.taken THEN "sent" ELSE "nothing"

DeliverFileDirectives(files, most) ==
  [k \in DOMAIN files |-> DeliverFileDirective(files[k], most)]
=============================================================================
