-------------------------------- MODULE Canvas --------------------------------
(***************************************************************************)
(* The canvas of a graphics window (src/src/app/canvas.rs).  It keeps what *)
(* was drawn as operations, each with the part of the canvas it still      *)
(* covers, and, where there is no graphics card, pixels too.  Operations   *)
(* that something opaque covers are dropped, all of them are drawn into one*)
(* image when there are too many, and a restored session starts from that  *)
(* image.  The links of what was drawn are regions beside it.              *)
(*                                                                         *)
(* Abstracted: a pixel is the sequence of what shows through at that point,*)
(* the lowest first, and a picture's pixel there is the picture, the point *)
(* within it and the size it has.  A canvas has at least one pixel.        *)
(***************************************************************************)
EXTENDS Queues

CONSTANTS
  Sizes,                (* <<width, height>>, those a window may have       *)
  Assets,               (* pictures, [name, opaque]                         *)
  Rectangles,           (* <<left, top, width, height>>, what a story names *)
  Hyperlinks, Colors,
  MaxOperations,        (* MAX_OPERATIONS: 1024                             *)
  Recolors,             (* whether areas gained may have two backgrounds     *)
  MaxPainted            (* bound of the model                               *)

ASSUME CanvasAssumption ==
  /\ MaxOperations \in Nat \ {0} /\ MaxPainted \in Nat /\ Recolors \in BOOLEAN
  /\ Sizes \subseteq (Nat \ {0}) \X (Nat \ {0}) /\ Hyperlinks \subseteq Nat
  /\ Rectangles \subseteq Int \X Int \X Nat \X Nat
  /\ \A s \in Assets : s.opaque \in BOOLEAN /\ s.name # "snapshot"

VARIABLES
  canvas,                 \* Canvas
  background_color,       \* of the window it belongs to
  bitmap, linkmap,        \* what a screen drawn on at once would show, and its links
  painted                 \* bounded by MaxPainted

canvasVars == <<canvas, background_color, bitmap, linkmap, painted>>

White == [name |-> "white"]
NoLink == 0

Intersect(a, b) ==
  <<IF a[1] >= b[1] THEN a[1] ELSE b[1], IF a[2] >= b[2] THEN a[2] ELSE b[2],
    IF a[3] <= b[3] THEN a[3] ELSE b[3], IF a[4] <= b[4] THEN a[4] ELSE b[4]>>
Nonempty(clip) == clip[1] < clip[3] /\ clip[2] < clip[4]
(* Mutant: the lower edges are not compared. *)
CoversWide(outer, inner) ==
  outer[1] <= inner[1] /\ outer[2] <= inner[2] /\ outer[3] >= inner[3]
Covers(outer, inner) ==
  outer[1] <= inner[1] /\ outer[2] <= inner[2] /\ outer[3] >= inner[3] /\ outer[4] >= inner[4]

Bounds(size) == <<0, 0, size[1], size[2]>>
Area(rect) == <<rect[1], rect[2], rect[1] + rect[3], rect[2] + rect[4]>>
Points(size) == (0 .. size[1] - 1) \X (0 .. size[2] - 1)
Inside(clip, p) == clip[1] <= p[1] /\ p[1] < clip[3] /\ clip[2] <= p[2] /\ p[2] < clip[4]

FillOp(clip, color) == [kind |-> "fill", clip |-> clip, color |-> color]
ImageOp(clip, source, rect) == [kind |-> "image", clip |-> clip, source |-> source, rect |-> rect]

NewCanvas(size, background) ==
  [size |-> size, background |-> background, operations |-> <<FillOp(Bounds(size), background)>>,
   cpu_pixels |-> {}, links |-> <<[clip |-> Bounds(size), hyperlink |-> NoLink]>>]

(* A snapshot is drawn in its own size, so that a point of it is a pixel.    *)
Sample(source, rect, p) ==
  IF source.name = "snapshot" THEN source.pixels[p]
  ELSE <<[name |-> source.name, at |-> <<p[1] - rect[1], p[2] - rect[2]>>, size |-> <<rect[3], rect[4]>>]>>

Blend(under, source, rect, p) ==
  IF source.opaque THEN Sample(source, rect, p) ELSE under \o Sample(source, rect, p)

Shows(under, op, p) ==
  IF ~ Inside(op.clip, p) THEN under
  ELSE IF op.kind = "fill" THEN <<op.color>> ELSE Blend(under, op.source, op.rect, p)

\* What the operations show at a point, one upon the other.
Shown(background, operations, p) ==
  LET upto[k \in 0 .. Len(operations)] ==
        IF k = 0 THEN <<background>> ELSE Shows(upto[k - 1], operations[k], p)
  IN  upto[Len(operations)]

Painting(c) == [p \in Points(c.size) |-> Shown(c.background, c.operations, p)]

Rasterize(c) == IF c.cpu_pixels = {} THEN Painting(c) ELSE CHOOSE pixels \in c.cpu_pixels : TRUE

HyperlinkAt(c, p) ==
  LET hit == {k \in DOMAIN c.links : Inside(c.links[k].clip, p)} IN
  IF hit = {} THEN NoLink ELSE c.links[CHOOSE k \in hit : \A j \in hit : j <= k].hyperlink

(* What pixels become where a rectangle is filled, or an image is drawn. *)
FillPixels(pixels, rect, value) ==
  [p \in DOMAIN pixels |-> IF Inside(Area(rect), p) THEN value ELSE pixels[p]]
BlitPixels(pixels, rect, source) ==
  [p \in DOMAIN pixels |->
     IF Inside(Area(rect), p) THEN Blend(pixels[p], source, rect, p) ELSE pixels[p]]

-----------------------------------------------------------------------------
Snapshot(pixels) == [name |-> "snapshot", opaque |-> TRUE, pixels |-> pixels]

Compacted(c) ==
  IF Len(c.operations) <= MaxOperations THEN c
  ELSE [c EXCEPT !.operations =
          <<ImageOp(Bounds(c.size), Snapshot(Rasterize(c)), Bounds(c.size))>>]

\* The operations that an opaque one does not cover, and that one.
Pushed(operations, op, opaque) ==
  Append(Retain(operations, {k \in DOMAIN operations : ~ (opaque /\ Covers(op.clip, operations[k].clip))}), op)

Push(c, op, opaque) == Compacted([c EXCEPT !.operations = Pushed(@, op, opaque)])

Linked(c, clip, hyperlink) ==
  [c EXCEPT !.links = Append(@, [clip |-> clip, hyperlink |-> hyperlink])]

Filled(c, rect, color) ==
  LET clip == Intersect(Area(rect), Bounds(c.size))
      after == [c EXCEPT !.cpu_pixels = {FillPixels(pixels, rect, <<color>>) : pixels \in @}] IN
  IF Nonempty(clip) THEN Push(Linked(after, clip, NoLink), FillOp(clip, color), TRUE) ELSE after

DrawHyperlinked(c, source, rect, hyperlink) ==
  LET clip == Intersect(Area(rect), Bounds(c.size))
      after == [c EXCEPT !.cpu_pixels = {BlitPixels(pixels, rect, source) : pixels \in @}] IN
  IF Nonempty(clip)
  THEN Push(Linked(after, clip, hyperlink), ImageOp(clip, source, rect), source.opaque)
  ELSE after

Visible(seq) == Retain(seq, {k \in DOMAIN seq : Nonempty(seq[k].clip)})
Cropped(seq, bounds) == Visible([k \in DOMAIN seq |-> [seq[k] EXCEPT !.clip = Intersect(@, bounds)]])

Overlaid(pixels, size, background) ==
  [p \in Points(size) |-> IF p \in DOMAIN pixels THEN pixels[p] ELSE <<background>>]

Resized(c, size, background) ==
  IF size = c.size THEN c
  ELSE [size |-> size, background |-> background,
        operations |-> Cropped(c.operations, Bounds(size)),
        cpu_pixels |-> {Overlaid(pixels, size, background) : pixels \in c.cpu_pixels},
        links |-> Cropped(c.links, Bounds(size))]

Erased(c, color) ==
  [NewCanvas(c.size, color) EXCEPT !.cpu_pixels = {[p \in DOMAIN pixels |-> <<color>>] : pixels \in c.cpu_pixels}]

FromPixels(size, pixels) ==
  DrawHyperlinked(NewCanvas(size, White), Snapshot(pixels), Bounds(size), NoLink)

FromPixelsWithLinks(size, pixels, links) ==
  LET c == FromPixels(size, pixels) IN IF links = <<>> THEN c ELSE [c EXCEPT !.links = links]

LinkRegions(c) == Visible(c.links)

UseCpu(c) == [c EXCEPT !.cpu_pixels = {Rasterize(c)}]

-----------------------------------------------------------------------------
Software == canvas.cpu_pixels # {}

CanvasInit ==
  \E size \in Sizes, software \in BOOLEAN :
    /\ canvas = IF software THEN UseCpu(NewCanvas(size, White)) ELSE NewCanvas(size, White)
    /\ background_color = White
    /\ bitmap = [p \in Points(size) |-> <<White>>] /\ linkmap = [p \in Points(size) |-> NoLink]
    /\ painted = 0

Counts == painted < MaxPainted /\ painted' = painted + 1

Opaque(op) == op.kind = "image" => op.source.opaque

\* Something is drawn at every point that nothing shows through.
Overdrawn ==
  \A p \in Points(canvas.size) :
    \E k \in DOMAIN canvas.operations : Opaque(canvas.operations[k]) /\ Inside(canvas.operations[k].clip, p)

(* A window is rearranged: the area it gains has its background's colour.    *)
(* Unless Recolors, no area that it gained before still shows another one.   *)
ResizeCanvas ==
  \E size \in Sizes \ {canvas.size} :
    /\ Recolors \/ Overdrawn \/ background_color = canvas.background
    /\ canvas' = Resized(canvas, size, background_color)
    /\ bitmap' = Overlaid(bitmap, size, background_color)
    /\ linkmap' = [p \in Points(size) |-> IF p \in DOMAIN linkmap THEN linkmap[p] ELSE NoLink]
    /\ Counts /\ UNCHANGED background_color

FillCanvas ==
  \E rect \in Rectangles, color \in Colors :
    /\ canvas' = Filled(canvas, rect, color)
    /\ bitmap' = FillPixels(bitmap, rect, <<color>>)
    /\ linkmap' = FillPixels(linkmap, rect, NoLink)
    /\ Counts /\ UNCHANGED background_color

DrawImage ==
  \E rect \in Rectangles, source \in Assets, hyperlink \in Hyperlinks :
    /\ canvas' = DrawHyperlinked(canvas, source, rect, hyperlink)
    /\ bitmap' = BlitPixels(bitmap, rect, source)
    /\ linkmap' = FillPixels(linkmap, rect, hyperlink)
    /\ Counts /\ UNCHANGED background_color

(* The background of a window is set, and the window erased with it. *)
EraseCanvas ==
  \E color \in Colors :
    /\ background_color' = color /\ canvas' = Erased(canvas, color)
    /\ bitmap' = [p \in DOMAIN bitmap |-> <<color>>] /\ linkmap' = [p \in DOMAIN linkmap |-> NoLink]
    /\ Counts

SetBackground ==
  /\ background_color' \in Colors \ {background_color}
  /\ Counts /\ UNCHANGED <<canvas, bitmap, linkmap>>

(* A session is written and read. *)
RestoreCanvas ==
  LET restored == FromPixelsWithLinks(canvas.size, Rasterize(canvas), LinkRegions(canvas)) IN
  /\ canvas' = IF Software THEN UseCpu(restored) ELSE restored
  /\ Counts /\ UNCHANGED <<background_color, bitmap, linkmap>>

CanvasNext ==
  ResizeCanvas \/ FillCanvas \/ DrawImage \/ EraseCanvas \/ SetBackground \/ RestoreCanvas

CanvasSpec == CanvasInit /\ [][CanvasNext]_canvasVars

-----------------------------------------------------------------------------
(* The operations kept, whatever was dropped, cropped, drawn together or     *)
(* restored, show what was drawn, with the pixels of a software canvas and   *)
(* without them; and a click meets the link of what was drawn last at that   *)
(* point.                                                                    *)
ShowsWhatWasDrawn ==
  /\ Painting(canvas) = bitmap
  /\ canvas.cpu_pixels \subseteq {bitmap}
  /\ \A p \in Points(canvas.size) : HyperlinkAt(canvas, p) = linkmap[p]
=============================================================================
