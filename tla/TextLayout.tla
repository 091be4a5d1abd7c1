------------------------------- MODULE TextLayout -------------------------------
(***************************************************************************)
(* How the desktop lays out a text buffer (src/src/app/text_buffer.rs).    *)
(*                                                                         *)
(* The runs of a published window are cut into words, spaces and pictures, *)
(* and these are placed in lines that flow around the pictures in the      *)
(* margins.  The layout is kept until what it was made of changes.         *)
(*                                                                         *)
(* Lengths are counted in twelfths of a pixel: halves, thirds and quarters *)
(* of whole pixels stay exact.  A piece of text is as wide as its          *)
(* characters are, and breaks where the next character does not fit        *)
(* (the font library's part of measure).                                   *)
(***************************************************************************)
EXTENDS Integers, Sequences, FiniteSets, FiniteSetsExt, SequencesExt

CONSTANTS
  Runs,        (* runs a story may print: text, style, image, flow_break        *)
  Advance,     (* the width of every character                                  *)
  Cjk,         (* the characters a line may break before and after              *)
  Styles,      (* the resolved styles: indentation, paragraph_indentation,      *)
               (* justification, ascent and height of their text                *)
  Fonts,       (* the font sizes of the settings                                *)
  Base,        (* ascent and descent of a line, for every font size             *)
  LayoutWidths,(* widths of the window                                          *)
  MaxRuns      (* bound of the model on the runs of a window                    *)

Pixel == 12
NoPicture == [original |-> <<0, 0>>, size |-> <<0, 0>>, rule |-> 0, max_width |-> 0, alignment |-> 0]

VARIABLES
  runs,        \* the runs of the published view
  revision,    \* text_layout_revisions of the window
  width,       \* available_width
  font_size,   \* of the settings
  cached,      \* the layout of the window in the LayoutCache
  shown        \* (not in the code) whether the last frame showed the window as it is

layoutVars == <<runs, revision, width, font_size, cached, shown>>

-----------------------------------------------------------------------------
(* BufferImage::dimensions.  rule: 1, 2, 3 for the width, 4, 8, 12 for the height *)

Whole == 65536

Dimensions(image, window) ==
  LET w == CASE image.rule % 4 = 1 -> image.original[1]
             [] image.rule % 4 = 2 -> image.size[1]
             [] OTHER -> (window * image.size[1]) \div Whole
      h == CASE (image.rule \div 4) % 4 = 1 -> image.original[2]
             [] (image.rule \div 4) % 4 = 2 -> image.size[2]
             [] OTHER -> (w * image.original[2] * image.size[2]) \div (Max({image.original[1], 1}) * Whole)
      limit == (window * image.max_width) \div Whole
  IN IF image.max_width # 0 /\ w > limit THEN <<limit, (h * limit) \div w>> ELSE <<w, h>>

-----------------------------------------------------------------------------
(* prepare: runs become tokens *)

Blank(c) == c = " "

LengthOf(text) == FoldLeft(LAMBDA sum, c : sum + Advance[c], 0, text)

\* A character goes on with the piece before it, or begins one.
Joins(piece, c) ==
  /\ Last(piece) # "newline" /\ Last(piece) \notin Cjk
  /\ c # "newline" /\ c \notin Cjk
  /\ Blank(Last(piece)) = Blank(c)

Pieces(text) ==
  FoldLeft(LAMBDA pieces, c :
             IF pieces # <<>> /\ Joins(Last(pieces), c)
             THEN [pieces EXCEPT ![Len(pieces)] = Append(@, c)] ELSE Append(pieces, <<c>>),
           <<>>, text)

\* A word that is too long for a line breaks where the next character does not fit.
Rows(piece, room) ==
  FoldLeft(LAMBDA rows, c :
             IF rows # <<>> /\ LengthOf(Append(Last(rows), c)) <= room
             THEN [rows EXCEPT ![Len(rows)] = Append(@, c)] ELSE Append(rows, <<c>>),
           <<>>, piece)

Fragments(piece, room) ==
  IF Blank(piece[1]) /\ Len(piece) > 1 THEN [i \in DOMAIN piece |-> <<piece[i]>>]
  ELSE IF LengthOf(piece) > room THEN Rows(piece, room) ELSE <<piece>>

Word_item(s, run, text) ==
  LET style == Styles[run.style] IN
  [index |-> s.painted + 1, width |-> LengthOf(text), height |-> style.height, ascent |-> style.ascent,
   alignment |-> 0, justification |-> style.justification, spaces |-> IF Blank(text[1]) THEN 1 ELSE 0]

Picture_item(s, run, size) ==
  [index |-> s.painted + 1, width |-> size[1] * Pixel, height |-> size[2] * Pixel, ascent |-> -1,
   alignment |-> run.image.alignment, justification |-> Styles[run.style].justification, spaces |-> 0]

\* Pieces of one word in several styles stay one word.
Put_item(s, item, space, merge) ==
  LET kind == IF space THEN "space" ELSE "word"
      joins == merge /\ s.tokens # <<>> /\ Last(s.tokens).kind = kind
  IN [s EXCEPT !.painted = @ + 1,
               !.tokens = IF joins THEN [@ EXCEPT ![Len(@)].items = Append(@, item)]
                          ELSE Append(@, [kind |-> kind, items |-> <<item>>])]

Begin_paragraph(s, run, now) ==
  IF s.begins /\ now
  THEN [s EXCEPT !.begins = FALSE, !.tokens = Append(@, [kind |-> "paragraph", style |-> Styles[run.style]])]
  ELSE s

Put_piece(s, run, piece, first, room) ==
  IF piece = <<"newline">>
  THEN [s EXCEPT !.begins = TRUE, !.tokens = Append(@, [kind |-> "newline"])]
  ELSE LET texts == Fragments(piece, room) IN
       FoldLeft(LAMBDA now, text : Put_item(now, Word_item(now, run, text), Blank(piece[1]),
                                            first /\ piece[1] \notin Cjk /\ Len(texts) = 1),
                Begin_paragraph(s, run, TRUE), texts)

Put_image(s, run, room) ==
  LET size == Dimensions(run.image, room \div Pixel) IN
  IF run.image = NoPicture \/ size[1] = 0 \/ size[2] = 0 THEN s
  ELSE [s EXCEPT !.painted = @ + 1,
                 !.tokens = Append(@, [kind |-> "image", item |-> Picture_item(s, run, size)])]

Put_layout_run(s, run, room) ==
  LET begun == Begin_paragraph(s, run, run.text # <<>> \/ run.image # NoPicture)
      broken == IF run.flow_break THEN [begun EXCEPT !.tokens = Append(@, [kind |-> "break"])] ELSE begun
      pieces == Pieces(run.text)
  IN FoldLeft(LAMBDA now, i : Put_piece(now, run, pieces[i], i = 1, room),
              Put_image(broken, run, room), [i \in DOMAIN pieces |-> i])

Prepare(rs, room) ==
  FoldLeft(LAMBDA s, run : Put_layout_run(s, run, room), [tokens |-> <<>>, painted |-> 0, begins |-> TRUE], rs).tokens

-----------------------------------------------------------------------------
(* Layout: tokens become rectangles *)

Plain == [indentation |-> 0, paragraph_indentation |-> 0, justification |-> 0]

NewLayout(room, base) ==
  [width |-> Max({room, Pixel}), ascent |-> base.ascent, descent |-> base.descent, y |-> 0,
   line |-> <<>>, paragraph |-> Plain, first_line |-> TRUE, floats |-> {}, placed |-> <<>>]

Rect(x, y, item) == [left |-> x, top |-> y, right |-> x + item.width, bottom |-> y + item.height]

Beside(l, y) == {f \in l.floats : f.rect.bottom > y}

\* Mutant: text goes on to the right border.
Margin_boundsLeft(l, y) ==
  LET lefts == {f.rect.right + 4 * Pixel : f \in {g \in Beside(l, y) : g.side = 4}}
  IN <<Max({0} \cup lefts), l.width>>

Margin_bounds(l, y) ==
  LET lefts == {f.rect.right + 4 * Pixel : f \in {g \in Beside(l, y) : g.side = 4}}
      rights == {f.rect.left - 4 * Pixel : f \in {g \in Beside(l, y) : g.side # 4}}
  IN <<Max({0} \cup lefts), Min({l.width} \cup rights)>>

\* The line within a margin, that begins at `left`.
Line_within(l, margin, left) == <<left, Max({margin[2] - l.paragraph.indentation, left + Pixel})>>

Indented(l, margin) ==
  Line_within(l, margin, margin[1] + l.paragraph.indentation
                         + IF l.first_line THEN l.paragraph.paragraph_indentation ELSE 0)

Line_bounds(l, y) == Indented(l, Margin_bounds(l, y))

Cursor(l) == IF l.line = <<>> THEN Line_bounds(l, l.y)[1] ELSE Last(l.line).x + Last(l.line).item.width

\* Where both margins leave too little room, the line goes below the picture that ends first.
Make_room(l, room, margin) ==
  LET between(bounds) == bounds[2] - bounds[1]
      fits(y) == \/ room <= between(IF margin THEN Margin_bounds(l, y) ELSE Line_bounds(l, y))
                 \/ Beside(l, y) = {}
  IN [l EXCEPT !.y = Min({y \in {@} \cup {f.rect.bottom : f \in Beside(l, @)} : fits(y)})]

Item_top(item, ascent) ==
  CASE item.ascent >= 0 -> -item.ascent
    [] item.alignment = 1 -> -item.height
    [] item.alignment = 2 -> -ascent
    [] OTHER -> -((ascent + item.height) \div 2)

Total(numbers) == FoldLeft(LAMBDA sum, n : sum + n, 0, numbers)

Line_ascent(l) == Max({l.ascent} \cup {l.line[i].item.ascent : i \in DOMAIN l.line})

\* How far the line reaches above and below its baseline.
Rise(l, ascent) == -Min({-ascent} \cup {Item_top(l.line[i].item, ascent) : i \in DOMAIN l.line})
Fall(l, ascent) ==
  Max({l.descent} \cup {Item_top(l.line[i].item, ascent) + l.line[i].item.height : i \in DOMAIN l.line})

Content_end(l, bounds) ==
  FoldLeft(LAMBDA end, p : IF p.space THEN end ELSE p.x + p.item.width, bounds[1], l.line)

\* The blanks of every item, that may become wider: those between words.
Gaps(l, bounds, content_end) ==
  [i \in DOMAIN l.line |-> IF l.line[i].space /\ l.line[i].x > bounds[1] /\ l.line[i].x < content_end
                           THEN l.line[i].item.spaces ELSE 0]

Shift(justification, remaining) ==
  CASE justification = 2 -> remaining \div 2 [] justification = 3 -> remaining [] OTHER -> 0

\* How much wider a blank between words becomes.
Expansion(last, justification, remaining, gaps) ==
  IF justification = 1 /\ ~ last /\ gaps > 0 THEN remaining \div gaps ELSE 0

Put_at(x, y, item) == [item |-> item, rect |-> Rect(x, y, item)]

Set_line(l, ascent, baseline, gaps, shift, wider) ==
  [i \in DOMAIN l.line |->
     Put_at(l.line[i].x + shift + wider * Total(SubSeq(gaps, 1, i - 1)),
            baseline + Item_top(l.line[i].item, ascent), [l.line[i].item EXCEPT !.width = @ + wider * gaps[i]])]

Justified(l, last, ascent, gaps, remaining) ==
  LET justification == l.line[1].item.justification IN
  [l EXCEPT !.placed = @ \o Set_line(l, ascent, l.y + Rise(l, ascent), gaps, Shift(justification, remaining),
                                     Expansion(last, justification, remaining, Total(gaps))),
            !.line = <<>>, !.y = @ + Rise(l, ascent) + Fall(l, ascent), !.first_line = FALSE]

Ended(l, last, bounds, content_end) ==
  Justified(l, last, Line_ascent(l), Gaps(l, bounds, content_end), Max({bounds[2] - content_end, 0}))

Full_line(l, last, bounds) == Ended(l, last, bounds, Content_end(l, bounds))

End_line(l, force, last) ==
  IF l.line # <<>> THEN Full_line(l, last, Line_bounds(l, l.y))
  ELSE IF force THEN [l EXCEPT !.y = @ + l.ascent + l.descent] ELSE l

Push_items(l, items, space) ==
  FoldLeft(LAMBDA now, item : [now EXCEPT !.line = Append(@, [x |-> Cursor(now), item |-> item, space |-> space])],
           l, items)

Width_of(items) == FoldLeft(LAMBDA sum, item : sum + item.width, 0, items)

Full(l, room) == l.line # <<>> /\ Cursor(l) + room > Line_bounds(l, l.y)[2]

Next_line(l, room) == IF Full(l, room) THEN End_line(l, FALSE, FALSE) ELSE l

Push_whole(l, items, space) ==
  Push_items(IF l.line = <<>> THEN Make_room(l, Width_of(items), FALSE) ELSE l, items, space)

\* A blank never makes a line of its own.
Put_whole(l, items, space) ==
  IF space /\ Full(l, Width_of(items)) THEN l ELSE Push_whole(Next_line(l, Width_of(items)), items, space)

Word(l, items, space) ==
  FoldLeft(LAMBDA now, part : Put_whole(now, part, space), l,
           IF Width_of(items) > l.width THEN [i \in DOMAIN items |-> <<items[i]>>] ELSE <<items>>)

Hang(l, item, bounds) ==
  LET rect == Rect(IF item.alignment = 4 THEN bounds[1] ELSE bounds[2] - item.width, l.y, item) IN
  [l EXCEPT !.floats = @ \cup {[side |-> item.alignment, rect |-> rect]},
            !.placed = Append(@, [item |-> item, rect |-> rect])]

Hang_here(l, item) == Hang(l, item, Margin_bounds(l, l.y))

\* A picture goes into the margin only where a line begins.
Margin(l, item) == IF l.line # <<>> THEN l ELSE Hang_here(Make_room(l, item.width, TRUE), item)

Flow_below(l, bottom) == IF bottom > l.y THEN [End_line(l, FALSE, TRUE) EXCEPT !.y = Max({@, bottom})] ELSE l
Flow_break(l) == Flow_below(l, Max({l.y} \cup {f.rect.bottom : f \in l.floats}))

Broken(s, l) == [layout |-> l, tail |-> s.tail \/ l.y # s.layout.y]

\* The layout, and whether an empty line is left at its end.
Placed(s, token) ==
  LET l == s.layout IN
  CASE token.kind = "paragraph" -> [s EXCEPT !.layout.paragraph = token.style, !.layout.first_line = TRUE]
    [] token.kind = "newline" -> [layout |-> [End_line(l, TRUE, TRUE) EXCEPT !.first_line = TRUE], tail |-> TRUE]
    [] token.kind = "break" -> Broken(s, Flow_break(l))
    [] token.kind = "image" -> IF token.item.alignment >= 4 THEN [s EXCEPT !.layout = Margin(l, token.item)]
                               ELSE [layout |-> Word(l, <<token.item>>, FALSE), tail |-> FALSE]
    [] OTHER -> [layout |-> Word(l, token.items, token.kind = "space"), tail |-> FALSE]

Measured(l, tail) ==
  [placed |-> l.placed,
   height |-> Max({IF tail THEN l.y + l.ascent + l.descent ELSE l.y} \cup {f.rect.bottom : f \in l.floats})]

Closed(s) == Measured(End_line(s.layout, FALSE, TRUE), s.tail)

Format(l, tokens) == Closed(FoldLeft(Placed, [layout |-> l, tail |-> FALSE], tokens))

LaidOut(rs, room, font) == Format(NewLayout(room, Base[font]), Prepare(rs, room))

-----------------------------------------------------------------------------
(* show, and what happens between two frames *)

LayoutKey(now, room, font) == <<now, room, font>>

NoLayout == [key |-> <<>>, layout |-> [placed |-> <<>>, height |-> 0]]

Show ==
  LET key == LayoutKey(revision, width, font_size)
      now == IF cached.key = key THEN cached
             ELSE [key |-> key, layout |-> LaidOut(runs, width, font_size)]
  IN cached' = now /\ shown' = TRUE /\ UNCHANGED <<runs, revision, width, font_size>>

\* The window was published with other runs.
PublishRuns ==
  /\ Len(runs) < MaxRuns
  /\ \E run \in Runs : runs' = Append(runs, run)
  /\ revision' = revision + 1 /\ shown' = FALSE
  /\ UNCHANGED <<width, font_size, cached>>

ResizeText ==
  /\ width' \in LayoutWidths \ {width}
  /\ shown' = FALSE
  /\ UNCHANGED <<runs, revision, font_size, cached>>

ChangeFont ==
  /\ font_size' \in Fonts \ {font_size}
  /\ shown' = FALSE
  /\ UNCHANGED <<runs, revision, width, cached>>

\* The cache is emptied: another story, or another font.
ClearLayouts ==
  /\ cached # NoLayout
  /\ cached' = NoLayout /\ shown' = FALSE
  /\ UNCHANGED <<runs, revision, width, font_size>>

LayoutInit ==
  /\ runs = <<>> /\ revision = 0
  /\ width \in LayoutWidths /\ font_size \in Fonts
  /\ cached = NoLayout /\ shown = FALSE

LayoutNext == Show \/ PublishRuns \/ ResizeText \/ ChangeFont \/ ClearLayouts

LayoutSpec == LayoutInit /\ [][LayoutNext]_layoutVars

-----------------------------------------------------------------------------
(* Properties *)

Ink(p) == p.item.spaces = 0
InMargin(p) == p.item.alignment >= 4
Under(r, s) == r.bottom <= s.top \/ s.bottom <= r.top
Apart(r, s) == r.right <= s.left \/ s.right <= r.left \/ Under(r, s)

ItemsOf(tokens) ==
  FlattenSeq([i \in DOMAIN tokens |-> IF "items" \in DOMAIN tokens[i] THEN tokens[i].items
                                      ELSE IF "item" \in DOMAIN tokens[i] THEN <<tokens[i].item>> ELSE <<>>])

\* Everything is placed, in order, but blanks where a line breaks and pictures for a margin within a line.
InOrder(placed, items) ==
  /\ \A i, j \in DOMAIN placed : i < j => placed[i].item.index < placed[j].item.index
  /\ \A k \in DOMAIN items :
       \/ \E p \in Range(placed) : p.item.index = items[k].index
       \/ items[k].alignment >= 4
       \/ /\ items[k].spaces > 0
          /\ \A i \in DOMAIN placed \ {1} :
               placed[i - 1].item.index < k /\ k < placed[i].item.index
                 => InMargin(placed[i]) \/ placed[i].rect.top >= placed[i - 1].rect.bottom

SameWord(tokens, p, q) ==
  \E k \in DOMAIN tokens : tokens[k].kind = "word" /\ {p.item, q.item} \subseteq Range(tokens[k].items)

\* Nothing that can be seen lies over anything else, or below the height the window scrolls over; at the right
\* only a word sticks out, and nothing else is beside it.
Readable(layout, tokens, room) ==
  LET seen == SelectSeq(layout.placed, Ink) IN
  /\ \A i, j \in DOMAIN seen : i < j =>
       /\ Apart(seen[i].rect, seen[j].rect)
       /\ \/ {seen[i].rect.right, seen[j].rect.right} \subseteq 0 .. room
          \/ Under(seen[i].rect, seen[j].rect)
          \/ SameWord(tokens, seen[i], seen[j])
  /\ \A p \in Range(layout.placed) : p.rect.left >= 0 /\ p.rect.bottom <= layout.height

(* What a frame shows of a text buffer is the layout of the window as it is  *)
(* now, at the width it has now, though layouts are kept from frame to       *)
(* frame; and in it no text or picture is lost, out of order, over another   *)
(* one or out of reach.                                                      *)
LaysOutWhatIsThere ==
  shown =>
    /\ cached.layout = LaidOut(runs, width, font_size)
    /\ \A tokens \in {Prepare(runs, width)} :
         InOrder(cached.layout.placed, ItemsOf(tokens)) /\ Readable(cached.layout, tokens, width)
================================================================================
