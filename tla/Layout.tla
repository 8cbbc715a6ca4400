------------------------------ MODULE Layout ------------------------------
(* The run canvas's geometry: app/lib/layout.ts, and the fit of the stage.  *)
(* A flow's structure is drawn as metro lines: a leaf is a puck on the      *)
(* line, a fan is lanes that rejoin at a junction, a retry is a circle in   *)
(* the line or a return line below what it repeats, a fallback's backup     *)
(* sits in a basin below the line, and a map keeps a stretch of line for    *)
(* its instances.                                                           *)
(*                                                                          *)
(* A structure is a sequence of places in document order, each a            *)
(* [kind, kids].  The junction of the fan p is -p, and 0 is no place.  A    *)
(* path is its two ends and the box it is drawn in.  Text has no width      *)
(* here: what is kept clear of it is its baselines.                         *)
EXTENDS Integers, Sequences, SequencesExt, FiniteSets, FiniteSetsExt

CONSTANTS
  Structures,  \* the flows a run may announce
  Viewports    \* the sizes of the window beside the drawer

VARIABLES
  structure,  \* of the session, <<>> before a run announced one
  canvas,     \* its layout, which the structure alone decides
  viewport

vars == <<structure, canvas, viewport>>

TOKENS == [margin |-> 72, branch_pitch |-> 92, corner_radius |-> 24, label_clear |-> 16, name_drop |-> 38,
           meta_drop |-> 20, group_label_rise |-> 52, tick_pitch |-> 30, comb_pitch |-> 18, decade |-> 10,
           decade_gap |-> 8, node_pitch |-> 128, entry_stub |-> 28, lane_lead |-> 56, junction_gap |-> 36,
           junction_label_drop |-> 37, loop_radius |-> 46, basin_radius |-> 32, basin_shoulder |-> 108,
           basin_drop |-> 92, tick_lead |-> 72, tick_reserve |-> 160, min_name_px |-> 11, name_px |-> 15]

PUCK_CLEAR == 10
DESCENT == 4
LABEL_CAP == 11
LABEL_BELOW == TOKENS.name_drop + TOKENS.meta_drop + DESCENT
GROUP_TICK_RISE == 4
FAN_LABEL_ABOVE == TOKENS.group_label_rise + LABEL_CAP
LOOP_LABEL_ABOVE == TOKENS.label_clear + LABEL_CAP
JUNCTION_BELOW == TOKENS.junction_label_drop + DESCENT
BASIN_LABEL_BELOW == TOKENS.basin_drop + GROUP_TICK_RISE + DESCENT
BASIN_LABEL_INDENT == 40
LOOP_RETURN_CLEAR == 40
LOOP_RETURN_PAD == 8

FAN_KINDS == {"parallel", "branch"}
LOOP_KINDS == {"retry", "loop"}

(* The values an operator has of a sequence's elements. *)
Picked(seq, Of(_)) == FoldLeft(LAMBDA picked, e : Append(picked, Of(e)), <<>>, seq)

Total(seq) == FoldLeft(LAMBDA sum, n : sum + n, 0, seq)
Greatest(seq) == FoldLeft(LAMBDA most, n : Max({most, n}), 0, seq)

----------------------------------------------------------------------------
(* The measures: how far a subtree's box reaches off its line.              *)

point_box(p) == [id |-> p, width |-> 0, above |-> PUCK_CLEAR, below |-> LABEL_BELOW, exit |-> p]

Widths(boxes) == Picked(boxes, LAMBDA box : box.width)

run_box(p, boxes) ==
  [id |-> p,
   width |-> Total(Widths(boxes)) + TOKENS.node_pitch * Max({0, Len(boxes) - 1}),
   above |-> Greatest(Picked(boxes, LAMBDA box : box.above)),
   below |-> Greatest(Picked(boxes, LAMBDA box : box.below)),
   exit |-> FoldLeft(LAMBDA exit, box : IF box.exit = 0 THEN exit ELSE box.exit, 0, boxes)]

(* The middle row of an even fan is the split's and the join's own. *)
fan_seats(n) ==
  [i \in 1..n |-> TOKENS.branch_pitch *
     (IF n % 2 = 1 THEN i - (n + 1) \div 2 ELSE IF i <= n \div 2 THEN i - n \div 2 - 1 ELSE i - n \div 2)]

Centred(offsets) ==
  LET drift == (Head(offsets) + Last(offsets) + 1) \div 2
  IN  [i \in DOMAIN offsets |-> offsets[i] - drift]

(* Mutant: the lanes keep their seats whatever they hold. *)
fan_offsets_seated(boxes) == Centred(fan_seats(Len(boxes)))

(* A lane goes down, and those after it, until it clears the one above. *)
fan_offsets(boxes) ==
  LET seats == fan_seats(Len(boxes))
      offset[i \in DOMAIN boxes] ==
        IF i = 1 THEN seats[1]
        ELSE Max({seats[i] + offset[i - 1] - seats[i - 1],
                  offset[i - 1] + boxes[i - 1].below + boxes[i].above + TOKENS.label_clear})
  IN  Centred([i \in DOMAIN boxes |-> offset[i]])

Split == 2 * TOKENS.corner_radius

fan_box(p, boxes) ==
  LET offsets == fan_offsets(boxes)
  IN  [id |-> p,
       width |-> 2 * (Split + TOKENS.lane_lead) + Greatest(Widths(boxes)) + TOKENS.junction_gap,
       above |-> Max({Head(boxes).above, FAN_LABEL_ABOVE}) - Head(offsets),
       below |-> Max({Last(offsets) + Last(boxes).below, JUNCTION_BELOW}),
       exit |-> 0]

loop_return_box(p, inner) ==
  [id |-> p, width |-> inner.width, above |-> Max({inner.above, FAN_LABEL_ABOVE}),
   below |-> inner.below + LOOP_RETURN_CLEAR + LOOP_RETURN_PAD, exit |-> inner.exit]

loop_box(p, boxes) ==
  LET inner == run_box(p, boxes)
  IN  IF inner.width > 0 THEN loop_return_box(p, inner)
      ELSE [id |-> p, width |-> 2 * TOKENS.loop_radius, above |-> TOKENS.loop_radius + LOOP_LABEL_ABOVE,
            below |-> TOKENS.loop_radius + LABEL_BELOW, exit |-> inner.exit]

basin_drops(boxes) ==
  LET drop[i \in 2..Len(boxes)] ==
        IF i = 2 THEN TOKENS.basin_drop
        ELSE drop[i - 1] + Max({TOKENS.basin_drop, boxes[i - 1].below + boxes[i].above + TOKENS.label_clear})
  IN  drop

basin_box(p, boxes) ==
  [id |-> p, width |-> boxes[1].width + 2 * TOKENS.basin_shoulder, above |-> boxes[1].above,
   below |-> basin_drops(boxes)[Len(boxes)] + Max({Last(boxes).below, BASIN_LABEL_BELOW}), exit |-> boxes[1].exit]

map_box(p, boxes) == [run_box(p, boxes) EXCEPT !.width = @ + TOKENS.tick_reserve]

IsFan(node) == node.kind \in FAN_KINDS /\ node.kids # <<>>
IsBasin(node) == node.kind = "fallback" /\ Len(node.kids) >= 2

measure(node, p, boxes) ==
  CASE IsFan(node) -> fan_box(p, boxes)
    [] node.kind \in LOOP_KINDS -> loop_box(p, boxes)
    [] IsBasin(node) -> basin_box(p, boxes)
    [] node.kind = "map" -> map_box(p, boxes)
    [] OTHER -> IF boxes = <<>> THEN point_box(p) ELSE run_box(p, boxes)

(* The box of every place, the last of them first. *)
Measured(flow) ==
  LET n == Len(flow)
      before(p, boxes) == <<measure(flow[p], p, Picked(flow[p].kids, LAMBDA kid : boxes[kid - p]))>> \o boxes
  IN  FoldLeft(LAMBDA boxes, i : before(n + 1 - i, boxes), <<>>, [i \in 1..n |-> i])

----------------------------------------------------------------------------
(* The drawing: what each box places, given where its line enters.          *)

Nothing == [nodes |-> <<>>, junctions |-> <<>>, segments |-> <<>>, group_labels |-> <<>>, tick_lanes |-> <<>>]

(* A sink with what was placed after it. *)
Then(sink, more) ==
  [nodes |-> sink.nodes \o more.nodes, junctions |-> sink.junctions \o more.junctions, segments |-> sink.segments \o more.segments,
   group_labels |-> sink.group_labels \o more.group_labels, tick_lanes |-> sink.tick_lanes \o more.tick_lanes]

Drawn(parts) == FoldLeft(Then, Nothing, parts)

Pucks(glyphs) == [Nothing EXCEPT !.nodes = glyphs]
Line(role, from, to, path) == [Nothing EXCEPT !.segments = <<[role |-> role, from |-> from, to |-> to, path |-> path]>>]
Caption(p, x, y) == [Nothing EXCEPT !.group_labels = <<[owner |-> p, tick |-> <<x, y - GROUP_TICK_RISE>>, text |-> <<x, y>>]>>]

Path(start, end, xs, ys) == [start |-> start, end |-> end, xs |-> xs \cup {start[1], end[1]}, ys |-> ys \cup {start[2], end[2]}]
Straight(x, y, x1) == Path(<<x, y>>, <<x1, y>>, {}, {})

point(p, x, y, label_drop) ==
  Pucks(<<[id |-> p, center |-> <<x, y>>, terminus |-> FALSE,
           name_y |-> y + label_drop + TOKENS.name_drop,
           meta_y |-> y + label_drop + TOKENS.name_drop + TOKENS.meta_drop]>>)

RECURSIVE place(_, _, _, _, _, _)

(* The children along one line, a segment in each gap. *)
run(flow, all, p, x, y, label_drop) ==
  LET kids == flow[p].kids
      boxes == Picked(kids, LAMBDA kid : all[kid])
      at[i \in DOMAIN kids] == IF i = 1 THEN x ELSE at[i - 1] + boxes[i - 1].width + TOKENS.node_pitch
  IN  Drawn([i \in DOMAIN kids |->
        Then(IF i = 1 THEN Nothing
             ELSE Line("line", kids[i - 1], kids[i], Straight(at[i] - TOKENS.node_pitch, y, at[i])),
             place(flow, all, kids[i], at[i], y, label_drop))])

fan(flow, all, p, x, y) ==
  LET kids == flow[p].kids
      boxes == Picked(kids, LAMBDA kid : all[kid])
      offsets == fan_offsets(boxes)
      lane_x == x + Split + TOKENS.lane_lead
      channel_x == lane_x + Greatest(Widths(boxes)) + TOKENS.lane_lead
      join_x == channel_x + Split
      junction == <<join_x + TOKENS.junction_gap, y>>
      lane(i) ==
        LET lane_y == y + offsets[i]
        IN  Drawn(<< Line("branch_in", p, kids[i], Path(<<x, y>>, <<lane_x, lane_y>>, {}, {})),
                     place(flow, all, kids[i], lane_x, lane_y, 0),
                     Line("branch_out", kids[i], -p, Path(<<lane_x + boxes[i].width, lane_y>>, <<join_x, y>>, {}, {})) >>)
  IN  Drawn([i \in DOMAIN kids |-> lane(i)] \o
            << Line("line", p, -p, Path(<<join_x, y>>, junction, {}, {})),
               [Nothing EXCEPT !.junctions = <<[id |-> -p, owner |-> p, center |-> junction,
                                                label_y |-> y + TOKENS.junction_label_drop]>>],
               Caption(p, x + TOKENS.corner_radius, y + Head(offsets) - TOKENS.group_label_rise) >>)

circle(flow, all, p, x, y) ==
  LET r == TOKENS.loop_radius
      attempt == IF flow[p].kids = <<>> THEN p ELSE flow[p].kids[1]
      exit == x + 2 * r
  IN  Drawn(<< run(flow, all, p, x, y, r),
               Line("loop_upper", p, attempt, Path(<<x, y>>, <<exit, y>>, {}, {y - r})),
               Line("loop_lower", p, attempt, Path(<<x, y>>, <<exit, y>>, {}, {y + r})),
               Caption(p, exit + TOKENS.label_clear, y - r - TOKENS.label_clear) >>)

loop_return(flow, all, p, inner, x, y) ==
  LET r == TOKENS.corner_radius
      exit == x + inner.width
  IN  Drawn(<< run(flow, all, p, x, y, 0),
               Line("loop_return", p, p, Path(<<exit, y>>, <<x, y>>, {exit + r, x - r}, {y + inner.below + LOOP_RETURN_CLEAR})),
               Caption(p, x, y - TOKENS.group_label_rise) >>)

basin(flow, all, p, x, y) ==
  LET kids == flow[p].kids
      boxes == Picked(kids, LAMBDA kid : all[kid])
      drops == basin_drops(boxes)
      width == boxes[1].width + 2 * TOKENS.basin_shoulder
      backup(i) ==
        Then(Line("basin", p, kids[i], Path(<<x, y>>, <<x + width, y>>, {}, {y + drops[i]})),
             place(flow, all, kids[i], x + (width - boxes[i].width) \div 2, y + drops[i], 0))
  IN  Drawn(<< Line("line", p, kids[1], Straight(x, y, x + width)),
               place(flow, all, kids[1], x + TOKENS.basin_shoulder, y, 0) >>
            \o [i \in 1..Len(kids) - 1 |-> backup(i + 1)]
            \o << Caption(p, x + BASIN_LABEL_INDENT, y + drops[Len(kids)] + TOKENS.basin_drop + GROUP_TICK_RISE) >>)

mapped(flow, all, p, x, y, label_drop) ==
  LET kids == flow[p].kids
      inner == run_box(p, Picked(kids, LAMBDA kid : all[kid]))
      end == x + inner.width + TOKENS.tick_reserve
  IN  Drawn(<< run(flow, all, p, x, y, label_drop),
               Line("line", IF kids = <<>> THEN p ELSE Last(kids), p, Straight(x + inner.width, y, end)),
               [Nothing EXCEPT !.tick_lanes = <<[owner |-> p, y |-> y, x0 |-> x + inner.width + TOKENS.tick_lead, x1 |-> end]>>] >>)

place(flow, all, p, x, y, label_drop) ==
  LET node == flow[p]
      inner == run_box(p, Picked(node.kids, LAMBDA kid : all[kid]))
  IN  CASE IsFan(node) -> fan(flow, all, p, x, y)
        [] node.kind \in LOOP_KINDS -> IF inner.width > 0 THEN loop_return(flow, all, p, inner, x, y) ELSE circle(flow, all, p, x, y)
        [] IsBasin(node) -> basin(flow, all, p, x, y)
        [] node.kind = "map" -> mapped(flow, all, p, x, y, label_drop)
        [] OTHER -> IF node.kids = <<>> THEN point(p, x, y, label_drop) ELSE run(flow, all, p, x, y, label_drop)

mark_terminus(sink, exit) ==
  [sink EXCEPT !.nodes = [i \in DOMAIN @ |-> IF @[i].id = exit THEN [@[i] EXCEPT !.terminus = TRUE] ELSE @[i]]]

Entry == TOKENS.margin + TOKENS.entry_stub

layout(flow) ==
  IF flow = <<>> THEN [width |-> 2 * TOKENS.margin, height |-> 2 * TOKENS.margin, sink |-> Nothing]
  ELSE LET all == Measured(flow)
           box == all[1]
           spine_y == TOKENS.margin + box.above
           sink == Then(Line("entry", 0, 1, Straight(TOKENS.margin, spine_y, Entry)), place(flow, all, 1, Entry, spine_y, 0))
       IN  [width |-> Entry + box.width + TOKENS.margin, height |-> spine_y + box.below + TOKENS.margin,
            sink |-> mark_terminus(sink, box.exit)]

----------------------------------------------------------------------------
(* What is fitted to a size: a map's ticks to their lane, and the canvas to *)
(* the window.  A scale is a fraction <<n, d>>.                             *)

Offset(count, i) ==
  IF count > TOKENS.decade THEN i * TOKENS.comb_pitch + (i \div TOKENS.decade) * TOKENS.decade_gap ELSE i * TOKENS.tick_pitch

(* The numerals are twice their offset, to stay whole. *)
decade_marks(xs, pitch) ==
  [k \in 1..(Len(xs) \div TOKENS.decade) |->
     LET last == k * TOKENS.decade
     IN  IF last < Len(xs) THEN xs[last] + xs[last + 1] ELSE 2 * (xs[last] + pitch)]

squeeze(xs, lane_length) ==
  IF xs = <<>> \/ Last(xs) <= lane_length THEN <<1, 1>> ELSE <<lane_length, Last(xs)>>

tick_marks(count, lane_length) ==
  LET comb == count > TOKENS.decade
      xs == [i \in 1..count |-> Offset(count, i - 1)]
  IN  [xs |-> xs, decades |-> IF comb THEN decade_marks(xs, TOKENS.comb_pitch) ELSE <<>>, scale |-> squeeze(xs, lane_length)]

AtMost(a, b) == a[1] * b[2] <= b[1] * a[2]
Lesser(a, b) == IF AtMost(a, b) THEN a ELSE b
Greater(a, b) == IF AtMost(a, b) THEN b ELSE a

MIN_SCALE == <<TOKENS.min_name_px, TOKENS.name_px>>

(* Offsets are in twice the scale's denominator. *)
fit_viewport(size, view) ==
  LET scale == Greater(Lesser(<<1, 1>>, Lesser(<<view.width, size.width>>, <<view.height, size.height>>)), MIN_SCALE)
      over(side, room) == 2 * (side * scale[1] - room * scale[2])
      pans(side, room) == over(side, room) > scale[2]
      offset(side, room) == IF pans(side, room) THEN 0 ELSE -over(side, room) \div 2
  IN  [scale |-> scale, pan_x |-> pans(size.width, view.width), pan_y |-> pans(size.height, view.height),
       offset_x |-> offset(size.width, view.width), offset_y |-> offset(size.height, view.height)]

----------------------------------------------------------------------------
(* A run announces its flow, and the window is resized or shared with the   *)
(* drawer.                                                                  *)

Init ==
  /\ structure = <<>>
  /\ canvas = layout(<<>>)
  /\ viewport \in Viewports

Announces ==
  /\ structure = <<>>
  /\ structure' \in Structures
  /\ canvas' = layout(structure')
  /\ UNCHANGED viewport

Resizes ==
  /\ viewport' \in Viewports
  /\ UNCHANGED <<structure, canvas>>

Next == Announces \/ Resizes

Spec == Init /\ [][Next]_vars

----------------------------------------------------------------------------
(* Properties. *)

(* A puck's column is the width a name must fit inside, and reaches from the *)
(* puck's clearance to its second line of text.                              *)
West(a, b) == a.center[1] + TOKENS.node_pitch - TOKENS.label_clear <= b.center[1]
Above(a, b) == a.meta_y + DESCENT < b.center[2] - PUCK_CLEAR

Apart(a, b) == West(a, b) \/ West(b, a) \/ Above(a, b) \/ Above(b, a)

(* A fallback whose first backup has the room that the second would be given. *)
Roomy(flow) ==
  \A p \in DOMAIN flow : IsBasin(flow[p]) =>
    LET boxes == Picked(flow[p].kids, LAMBDA kid : Measured(flow)[kid])
    IN  /\ boxes[1].below + boxes[2].above + TOKENS.label_clear <= TOKENS.basin_drop
        /\ \A i \in DOMAIN boxes : boxes[i].width <= boxes[1].width + 2 * (TOKENS.basin_shoulder - TOKENS.basin_radius)

Within(x, y, flow) == x \in 0..flow.width /\ y \in 0..flow.height

(* On a path's ends, or on one of its levels. *)
On(p, path) ==
  \/ p \in {path.start, path.end}
  \/ path.start[2] = path.end[2] /\ p[2] \in path.ys /\ p[1] \in Min(path.xs)..Max(path.xs)

PucksAreApart(drawn) ==
  \A i, j \in DOMAIN drawn.sink.nodes : i < j => Apart(drawn.sink.nodes[i], drawn.sink.nodes[j])

AllIsInside(drawn) ==
  /\ \A i \in DOMAIN drawn.sink.nodes :
       LET glyph == drawn.sink.nodes[i]
       IN  Within(glyph.center[1], glyph.center[2] - PUCK_CLEAR, drawn) /\ Within(glyph.center[1], glyph.meta_y + DESCENT, drawn)
  /\ \A i \in DOMAIN drawn.sink.junctions :
       Within(drawn.sink.junctions[i].center[1], drawn.sink.junctions[i].label_y + DESCENT, drawn)
  /\ \A i \in DOMAIN drawn.sink.segments :
       \A x \in drawn.sink.segments[i].path.xs, y \in drawn.sink.segments[i].path.ys : Within(x, y, drawn)
  /\ \A i \in DOMAIN drawn.sink.group_labels :
       Within(drawn.sink.group_labels[i].tick[1], drawn.sink.group_labels[i].text[2] - LABEL_CAP, drawn)

LineHasNoHole(drawn) ==
  LET segments == ToSet(drawn.sink.segments)
  IN  /\ \A s \in segments : s.role = "entry" \/ \E t \in segments \ {s} : On(s.path.start, t.path)
      /\ \A glyph \in ToSet(drawn.sink.nodes) \cup ToSet(drawn.sink.junctions) :
           \E s \in segments : On(glyph.center, s.path)

EndsOnATerminus(drawn) ==
  LET last == {i \in DOMAIN drawn.sink.nodes : drawn.sink.nodes[i].terminus}
  IN  /\ Cardinality(last) <= 1
      /\ structure # <<>> /\ (\A p \in DOMAIN structure : ~IsFan(structure[p])) => last # {}

TicksFit(drawn) ==
  \A lane \in ToSet(drawn.sink.tick_lanes) : \A count \in {3, 10, 11, 30} :
    LET marks == tick_marks(count, lane.x1 - lane.x0)
    IN  /\ \A i \in 1..count : marks.xs[i] * marks.scale[1] <= (lane.x1 - lane.x0) * marks.scale[2]
        /\ \A k \in DOMAIN marks.decades : marks.decades[k] > 2 * marks.xs[k * TOKENS.decade]
        /\ \A other \in ToSet(drawn.sink.nodes) :
             other.center[2] = lane.y => other.center[1] \notin lane.x0..lane.x1 - 1

FitShowsAll(drawn) ==
  LET fit == fit_viewport(drawn, viewport)
  IN  /\ AtMost(MIN_SCALE, fit.scale) /\ AtMost(fit.scale, <<1, 1>>)
      /\ (fit.pan_x \/ fit.pan_y) => fit.scale = MIN_SCALE
      /\ ~fit.pan_x => 2 * fit.offset_x >= -fit.scale[2]
      /\ ~fit.pan_y => 2 * fit.offset_y >= -fit.scale[2]

(* However fans, loops, maps and fallbacks nest, no two pucks share a       *)
(* place, all that is drawn is in the canvas, the drawn line has no hole    *)
(* from the entry to its last puck, the flow ends on one terminus, a map's  *)
(* ticks stay in their lane, and what does not pan is in view.  (Nothing is *)
(* said of a flow with a first backup that has not the room it needs, which *)
(* the code does not give it.)                                              *)
CanvasHoldsTheFlow ==
  Roomy(structure) =>
    /\ PucksAreApart(canvas)
    /\ AllIsInside(canvas)
    /\ LineHasNoHole(canvas)
    /\ EndsOnATerminus(canvas)
    /\ TicksFit(canvas)
    /\ FitShowsAll(canvas)
=============================================================================
