------------------------- MODULE MCStreamChannel --------------------------
(* Small instances of StreamChannel for TLC, and beside it of what reads a *)
(* run's events: the chunks of a chat page (UiStream) and the viewer's canvas*)
(* (Scene, Layout).                                                        *)
EXTENDS StreamChannel, Integers, SequencesExt

CONSTANTS Parts, Places, Structures, Viewports, Trees, Flows

VARIABLE part  \* the part that is explored; the others stay as they are
VARIABLES ly_structure, ly_canvas, ly_viewport
VARIABLES sc_tree, sc_frames, sc_parked, sc_looked, sc_spent, sc_retried, sc_state, sc_flow

(* A structure of n places: each but the first is the last kid, so far, of a *)
(* place on the way down to the one before it.                               *)
RECURSIVE Up(_, _)
Up(parents, p) == IF p = 0 THEN {} ELSE {p} \cup Up(parents, parents[p])

RECURSIVE ShapesOf(_)
ShapesOf(n) == IF n = 1 THEN {<<0>>} ELSE UNION {{Append(s, p) : p \in Up(s, n - 1)} : s \in ShapesOf(n - 1)}

KidsOf(parents, p) == SelectSeq([i \in 1..Len(parents) |-> i], LAMBDA i : parents[i] = p)

Kinds(n) ==
  IF n = 0 THEN {"step"}
  ELSE IF n = 1 THEN {"sequence", "retry", "map"}
  ELSE IF n = 2 THEN {"sequence", "parallel", "branch", "loop", "fallback"}
  ELSE {"sequence", "parallel"}

RECURSIVE Kindings(_)
Kindings(counts) ==
  IF counts = <<>> THEN {<<>>}
  ELSE {Append(k, kind) : k \in Kindings(Front(counts)), kind \in Kinds(Last(counts))}

FlowsOf(parents) ==
  LET kids == [p \in 1..Len(parents) |-> KidsOf(parents, p)]
  IN  {[p \in 1..Len(parents) |-> [kind |-> kind[p], kids |-> kids[p]]] :
         kind \in Kindings([p \in 1..Len(parents) |-> Len(kids[p])])}

StructuresOfPlaces == UNION {UNION {FlowsOf(s) : s \in ShapesOf(n)} : n \in 1..Places}

TwoViewports == {[width |-> 400, height |-> 300], [width |-> 1280, height |-> 800]}

----------------------------------------------------------------------------
ui_vars == <<ui_parallel, ui_call, ui_events, ui_lost, ui_settled, ui_open, ui_tool_names, ui_client,
  ui_broken, ui_over>>

Y == INSTANCE Layout WITH
  structure <- ly_structure, canvas <- ly_canvas, viewport <- ly_viewport, Structures <- Structures,
  Viewports <- Viewports
ly_vars == <<ly_structure, ly_canvas, ly_viewport>>

(* The flows of the canvas, each with its drawing. *)
Place(kind, step, kids) == [kind |-> kind, step |-> step, kids |-> kids, calls |-> FALSE]
Calling(step) == [Place("step", step, <<>>) EXCEPT !.calls = TRUE]

(* A step twice in a sequence that is retried, and again beside it.         *)
Beside == << Place("parallel", "p", <<2, 6>>), Place("retry", "r", <<3>>),
             Place("sequence", "s", <<4, 5>>), Calling("a"), Place("step", "a", <<>>), Calling("a") >>

(* A gate that another part of the run goes on beside. *)
Waiting == << Place("parallel", "p", <<2, 5>>), Place("sequence", "s", <<3, 4>>),
              Calling("a"), Place("suspend", "g", <<>>), Place("step", "a", <<>>) >>

(* A retry in a retry. *)
Nested == << Place("retry", "r", <<2>>), Place("retry", "q", <<3>>), Calling("a") >>

(* A gate that a retry tries. *)
Gated == << Place("retry", "r", <<2>>), Place("sequence", "s", <<3, 4>>),
            Place("step", "a", <<>>), Place("suspend", "g", <<>>) >>

(* A backup beside what it stands in for, a map, a branch and a checkpoint. *)
Backed == << Place("sequence", "s", <<2, 6>>), Place("fallback", "f", <<3, 5>>), Place("retry", "r", <<4>>),
             Calling("a"), Place("step", "b", <<>>), Place("step", "a", <<>>) >>

Mapped == << Place("parallel", "p", <<2, 4>>), Place("map", "m", <<3>>), Calling("a"), Place("step", "b", <<>>) >>

Branching == << Place("sequence", "s", <<2, 5, 7>>), Place("branch", "b", <<3, 4>>), Place("step", "a", <<>>),
                Place("step", "c", <<>>), Place("checkpoint", "k", <<6>>), Place("step", "c", <<>>), Place("step", "d", <<>>) >>

TheTrees == {Beside, Waiting, Nested, Gated, Backed, Mapped, Branching}

TheDrawings == {<<t, Y!layout(t).sink>> : t \in TheTrees}

S == INSTANCE Scene WITH
  tree <- sc_tree, frames <- sc_frames, parked <- sc_parked, looked <- sc_looked, spent <- sc_spent,
  retried <- sc_retried, state <- sc_state, flow <- sc_flow, Trees <- Trees, Flows <- Flows,
  MaxAttempts <- 2, MaxItems <- 2, MaxCosts <- 1, MaxRetries <- 1
sc_vars == <<sc_tree, sc_frames, sc_parked, sc_looked, sc_spent, sc_retried, sc_state, sc_flow>>

all == <<part, vars, ui_vars, ly_vars, sc_vars>>

AllInit ==
  /\ part \in Parts
  /\ Init
  /\ TheChat!Init /\ (part # "ui" => ~ui_parallel)
  /\ IF part = "layout" THEN Y!Init
     ELSE ly_structure = 0 /\ ly_canvas = 0 /\ ly_viewport = 0
  /\ IF part = "scene" THEN S!SceneInit
     ELSE sc_tree = 0 /\ sc_frames = 0 /\ sc_parked = 0 /\ sc_looked = 0 /\ sc_spent = 0 /\
          sc_retried = 0 /\ sc_state = 0 /\ sc_flow = 0

AllNext ==
  \/ part = "stream" /\ Next /\ UNCHANGED <<part, ui_vars, ly_vars, sc_vars>>
  \/ part = "ui" /\ TheChat!Next /\ UNCHANGED <<part, vars, ly_vars, sc_vars>>
  \/ part = "layout" /\ Y!Next /\ UNCHANGED <<part, vars, ui_vars, sc_vars>>
  \/ part = "scene" /\ S!SceneNext /\ UNCHANGED <<part, vars, ui_vars, ly_vars>>

AllSpec == AllInit /\ [][AllNext]_all

(* Every run settles and then closes its channel, and a loop that has not  *)
(* been left asks for more.                                                *)
AllFairSpec ==
  /\ AllSpec
  /\ WF_vars(part = "stream" /\ Close)
  /\ WF_vars(part = "stream" /\ Consumer)

----------------------------------------------------------------------------
(* The loop over a run's events comes to its end (core/streaming.ts).      *)
StreamEnds == part = "stream" => LoopEnds

(* The canvas shows what became of every place of the run.                 *)
SceneTellsTheRun == part = "scene" => S!SceneTellsTheRun /\ S!CanvasTellsTheRun

(* The drawing of a flow holds it whole, and the viewport shows it.        *)
CanvasHoldsTheFlow == part = "layout" => Y!CanvasHoldsTheFlow
============================================================================
