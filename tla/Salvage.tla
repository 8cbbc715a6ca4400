-------------------------------- MODULE Salvage --------------------------------
(***************************************************************************)
(* Tool calls salvaged from a turn's text                                  *)
(* (src/engine/tool_call_salvage.ts, and salvage_turn of tool_loop.ts).    *)
(* A text is a sequence of marks: tags, fences, the opening of a JSON      *)
(* object that is a call or isn't, quotes, values, and words.              *)
(***************************************************************************)
EXTENDS Naturals, Integers, Sequences, FiniteSets, SequencesExt, FiniteSetsExt

CONSTANTS Pieces,    \* what a model writes, each with the calls it means and what isn't one
          MaxPieces, \* pieces in a text
          MaxSteps,  \* turns of a call
          Attempts   \* tool_call_repair_attempts

(* Marks. *)
Blank == {"sp"}
Openers == [call_f |-> "f", call_g |-> "g", call_h |-> "h", data |-> "data"] \* {"name":"f","arguments":{ .. and {"data":
Fences == {"fence", "fence_json", "fence_py"}
Functions == [fn_f |-> "f", fn_g |-> "g", fn_h |-> "h"]                     \* <function=f>
Json == DOMAIN Openers \cup Blank \cup {"}", "quote", "7"}

(* The registry: f takes text, g takes a number; a call of h is of no tool. *)
Accepts == [f |-> "text", g |-> "number"]

VARIABLES turn,   \* the turn: its finish reason, its own calls, its text
          phase,
          found,  \* the candidates read so far
          masks,  \* where no later scan reads
          remaining, steps, chunks

vars == <<turn, phase, found, masks, remaining, steps, chunks>>

------------------------------------------------------------------------------
(* Scanning. *)
After(text, from, S) == LET at == {i \in from..Len(text) : text[i] \in S} IN IF at = {} THEN 0 ELSE Min(at)
Slice(text, a, b) == SubSeq(text, a, b)
trimmed(marks) == LET solid == {i \in DOMAIN marks : marks[i] \notin Blank}
                  IN  IF solid = {} THEN <<>> ELSE SubSeq(marks, Min(solid), Max(solid))

(* A mark at j lies in a string of the object opened at i. *)
skip_json_string(text, i, j) == Cardinality({k \in i..(j - 1) : text[k] = "quote"}) % 2 = 1
Solid(text, i, j) == {k \in i..j : ~skip_json_string(text, i, k)}
parse_json_extent(text, i, j) == \A k \in Solid(text, i, j) : text[k] \in Json
(* Where the balanced object opened at i ends, or 0 when it has no extent   *)
(* or its extent isn't JSON.                                                *)
scan_balanced_json(text, i) ==
    LET depth(j) == Cardinality({k \in Solid(text, i, j) : text[k] \in DOMAIN Openers})
                    - Cardinality({k \in Solid(text, i, j) : text[k] = "}"})
        ends == {j \in i..Len(text) : text[j] = "}" /\ ~skip_json_string(text, i, j) /\ depth(j) = 0}
    IN  IF ends = {} THEN 0
        ELSE IF parse_json_extent(text, i, Min(ends)) THEN Min(ends) ELSE 0
call_shape(text, i) == text[i] # "data"

(* What the arguments hold: a string, a number, nothing, or something else. *)
JsonType(marks) == IF marks = <<>> THEN "none" ELSE IF marks[1] = "quote" THEN "text"
                   ELSE IF marks = <<"7">> THEN "number" ELSE "other"
Span(a, b) == [start |-> a, end |-> b]
Shared(a, b) == a.start <= b.end /\ b.start <= a.end
overlaps_any(span, covered) == \E m \in covered : Shared(span, m)
Candidate(name, args, coerced, format, span) ==
    [name |-> name, args |-> args, coerced |-> coerced, format |-> format, span |-> span]
JsonCandidate(text, i, j, format, span) ==
    LET type == JsonType(trimmed(Slice(text, i + 1, j - 1)))
    IN  Candidate(Openers[text[i]], type, type, format, span)

(* Function-tagged calls in a block, each with its parameter as a string. *)
scan_qwen_functions(text, from, to) ==
    LET opens == {i \in from..to : text[i] \in DOMAIN Functions}
        closes(i) == LET at == After(text, i, {"</fn>"}) IN IF at = 0 \/ at > to THEN 0 ELSE at
        whole == {i \in opens : closes(i) # 0 /\ ~\E k \in opens : k < i /\ closes(k) > i}
        body(i) == Slice(text, i + 1, closes(i) - 1)
        shut(b, p) == After(b, p, {"</p>"})
        given(b) == {p \in DOMAIN b : b[p] = "<p>" /\ shut(b, p) # 0}
        leftover(b) == SelectSeq([k \in DOMAIN b |-> IF \E p \in given(b) : k \in p..shut(b, p) THEN "sp" ELSE b[k]],
                                 LAMBDA m : m \notin Blank)
        value(b) == LET p == Min(given(b)) IN Slice(b, p + 1, shut(b, p) - 1)
        args(b) == IF given(b) = {} THEN "none" ELSE "text"
        coerced(b) == IF given(b) = {} THEN "none"
                      ELSE IF JsonType(value(b)) \in {"text", "number"} THEN JsonType(value(b)) ELSE "text"
    IN  {Candidate(Functions[text[i]], args(body(i)), coerced(body(i)), "qwen_xml", Span(i, closes(i))) :
            i \in {k \in whole : leftover(body(k)) = <<>>}}
(* An object in a block: the object it opens with, wherever that ends. *)
scan_hermes_block(text, brace, span) ==
    LET end == scan_balanced_json(text, brace)
    IN  IF end = 0 \/ ~call_shape(text, brace) THEN {} ELSE {JsonCandidate(text, brace, end, "hermes", span)}
scan_block_candidates(text, span) ==
    LET first == After(text, span.start + 1, {text[i] : i \in DOMAIN text} \ Blank)
    IN  CASE text[first] \in DOMAIN Functions -> scan_qwen_functions(text, span.start + 1, span.end - 1)
          [] text[first] \in DOMAIN Openers -> scan_hermes_block(text, first, span)
          [] OTHER -> {}
(* The tool_call blocks from the left, the last perhaps unterminated. *)
Blocks(text) ==
    LET from[pos \in 1..(Len(text) + 1)] ==
            LET open == After(text, pos, {"<tc>"})
                close == IF open = 0 THEN 0 ELSE After(text, open + 1, {"</tc>"})
            IN  IF open = 0 THEN {}
                ELSE IF close = 0 THEN {[span |-> Span(open, Len(text)), whole |-> FALSE]}
                ELSE {[span |-> Span(open, close), whole |-> TRUE]} \cup from[close + 1]
    IN  from[1]
scan_tool_call_blocks_unmasked(text) ==
    [candidates |-> UNION {scan_block_candidates(text, b.span) : b \in {x \in Blocks(text) : x.whole}},
     masks |-> {b.span : b \in {x \in Blocks(text) : ~x.whole}}]
scan_tool_call_blocks(text) ==
    [candidates |-> UNION {scan_block_candidates(text, b.span) : b \in {x \in Blocks(text) : x.whole}},
     masks |-> {b.span : b \in Blocks(text)}]

(* The fences paired from the left; only a bare or a json one is read. *)
scan_fences(text, covered) ==
    LET from[pos \in 1..(Len(text) + 1)] ==
            LET open == After(text, pos, Fences)
                close == IF open = 0 THEN 0 ELSE After(text, open + 1, Fences)
            IN  IF close = 0 THEN {} ELSE {Span(open, close)} \cup from[close + 1]
        kept == {s \in from[1] : ~overlaps_any(s, covered)}
        body(s) == trimmed(Slice(text, s.start + 1, s.end - 1))
        reads == {s \in kept : /\ text[s.start] # "fence_py" /\ body(s) # <<>> /\ body(s)[1] \in DOMAIN Openers
                               /\ scan_balanced_json(body(s), 1) = Len(body(s)) /\ call_shape(body(s), 1)}
    IN  [candidates |-> {JsonCandidate(body(s), 1, Len(body(s)), "json", s) : s \in reads}, masks |-> kept]

(* Objects in what is left, a whole one stepped over whether a call or not. *)
scan_bare_json(text, covered) ==
    LET from[i \in 1..(Len(text) + 1)] ==
            LET mask == {m \in covered : i \in m.start..m.end}
            IN  IF i > Len(text) THEN {}
                ELSE IF mask # {} THEN from[(CHOOSE m \in mask : TRUE).end + 1]
                ELSE IF text[i] \notin DOMAIN Openers \/ scan_balanced_json(text, i) = 0 THEN from[i + 1]
                ELSE LET end == scan_balanced_json(text, i)
                         span == Span(i, end)
                     IN  (IF overlaps_any(span, covered) \/ ~call_shape(text, i) THEN {}
                          ELSE {JsonCandidate(text, i, end, "json", span)}) \cup from[end + 1]
    IN  from[1]

------------------------------------------------------------------------------
(* The double gate, and the text without the calls. *)
validate_candidate(c) ==
    /\ c.name \in DOMAIN Accepts
    /\ \/ c.args = Accepts[c.name]
       \/ c.format = "qwen_xml" /\ c.coerced = Accepts[c.name]
SalvagedCall(c) == [name |-> c.name, input |-> Accepts[c.name], format |-> c.format, span |-> c.span]

(* A wrapper whose calls have all gone goes too. *)
Unwrapped(text) ==
    LET opens == {i \in DOMAIN text : text[i] = "<tc>"}
        shut(i) == After(text, i + 1, {text[k] : k \in DOMAIN text} \ Blank)
        empty == {i \in opens : shut(i) # 0 /\ text[shut(i)] = "</tc>"}
        kept == SelectSeq([k \in DOMAIN text |-> k], LAMBDA k : ~\E i \in empty : k \in i..shut(i))
    IN  [n \in DOMAIN kept |-> text[kept[n]]]
strip_spans(text, spans) ==
    LET descending == SetToSortSeq(spans, LAMBDA a, b : a.start > b.start)
        cut(out, s) == Slice(out, 1, s.start - 1) \o Slice(out, s.end + 1, Len(out))
    IN  trimmed(Unwrapped(FoldLeft(cut, text, descending)))

------------------------------------------------------------------------------
(* A call's turns. *)
Written(pieces) == FlattenSeq([i \in DOMAIN pieces |-> Pieces[pieces[i]].text])
Idle == [finish |-> "none", own |-> 0, pieces |-> <<>>, text |-> <<>>]
Init ==
    /\ turn = Idle /\ phase = "asking" /\ found = {} /\ masks = {}
    /\ remaining = Attempts /\ steps = <<>> /\ chunks = <<>>

(* The model answers: a text, calls of its own or none, a reason it stopped. *)
Answers ==
    /\ phase = "asking" /\ phase' = "answered"
    /\ \E n \in 0..MaxPieces : \E pieces \in [1..n -> DOMAIN Pieces], own \in 0..1,
          finish \in {"stop", "length", "tool_calls", "content_filter"} :
            /\ own = 1 => n = 0
            /\ turn' = [finish |-> finish, own |-> own, pieces |-> pieces, text |-> Written(pieces)]
    /\ UNCHANGED <<found, masks, remaining, steps, chunks>>

Step(calls, left_text) == [pieces |-> turn.pieces, text |-> turn.text, own |-> turn.own, finish |-> turn.finish,
                           had |-> remaining, calls |-> calls, history |-> left_text]
(* The turn is over: its calls run and another follows, or it was the last. *)
Closes(calls, left_text) ==
    /\ steps' = Append(steps, Step(calls, left_text))
    /\ phase' = IF (calls # <<>> \/ turn.own > 0) /\ Len(steps) + 1 < MaxSteps THEN "asking" ELSE "over"
    /\ turn' = Idle /\ found' = {} /\ masks' = {}

eligible == turn.own = 0 /\ turn.finish \in {"stop", "length"} /\ remaining > 0 /\ turn.text # <<>>
Ineligible ==
    /\ phase = "answered" /\ ~eligible
    /\ Closes(<<>>, turn.text)
    /\ UNCHANGED <<remaining, chunks>>
(* The scanners in masking order. *)
Reads(from, to, scan) ==
    /\ phase = from /\ phase' = to
    /\ \E read \in {scan} : found' = found \cup read.candidates /\ masks' = masks \cup read.masks
    /\ UNCHANGED <<turn, remaining, steps, chunks>>
ReadsBlocks == eligible /\ Reads("answered", "blocks", scan_tool_call_blocks(turn.text))
ReadsFences == Reads("blocks", "fences", scan_fences(turn.text, masks))
ReadsBare == Reads("fences", "bare", [candidates |-> scan_bare_json(turn.text, masks), masks |-> {}])

dispatch_salvaged_call_chunks(calls) ==
    chunks' = chunks \o FlattenSeq([n \in DOMAIN calls |-> <<<<"start", Len(steps), n>>, <<"end", Len(steps), n>>>>])
(* The calls that pass, in the order written, and the history they leave;   *)
(* the step keeps the text as it was.                                       *)
salvage_tool_calls ==
    /\ phase = "bare"
    /\ \E calls \in {SetToSortSeq({SalvagedCall(c) : c \in {x \in found : validate_candidate(x)}},
                                   LAMBDA a, b : a.span.start < b.span.start)} :
         /\ remaining' = IF calls = <<>> THEN remaining ELSE remaining - 1
         /\ dispatch_salvaged_call_chunks(calls)
         /\ \E left_text \in {IF calls = <<>> THEN turn.text ELSE strip_spans(turn.text, {c.span : c \in ToSet(calls)})} :
              Closes(calls, left_text)

Next == Answers \/ Ineligible \/ ReadsBlocks \/ ReadsFences \/ ReadsBare \/ salvage_tool_calls
Spec == Init /\ [][Next]_vars

------------------------------------------------------------------------------
(* Of any text: a call is of a tool and its input fits, each is taken from  *)
(* a place of its own, and they run in the order they were written.         *)
CallsAreSound ==
    \A s \in DOMAIN steps : LET calls == steps[s].calls IN
        /\ \A i \in DOMAIN calls : calls[i].name \in DOMAIN Accepts /\ calls[i].input = Accepts[calls[i].name]
        /\ \A i, j \in DOMAIN calls : i < j => calls[i].span.end < calls[j].span.start
(* A text with nothing left open gives the calls its pieces mean, and what  *)
(* the model reads back of it is the rest.                                  *)
Tidy(pieces) == \A i \in DOMAIN pieces : Pieces[pieces[i]].tidy \/ i = Len(pieces)
Meant(pieces) == FlattenSeq([i \in DOMAIN pieces |-> Pieces[pieces[i]].calls])
Rest(pieces) == trimmed(FlattenSeq([i \in DOMAIN pieces |-> Pieces[pieces[i]].rest]))
CallsAreMeant ==
    \A s \in DOMAIN steps : LET step == steps[s] IN
        step.calls # <<>> /\ Tidy(step.pieces) =>
            /\ [i \in DOMAIN step.calls |-> <<step.calls[i].name, step.calls[i].format>>] = Meant(step.pieces)
            /\ step.history = Rest(step.pieces)
(* One that means a call is not let go while attempts are left. *)
NoCallIsMissed ==
    \A s \in DOMAIN steps : LET step == steps[s] IN
        Tidy(step.pieces) /\ Meant(step.pieces) # <<>> /\ step.own = 0 /\ step.finish \in {"stop", "length"} /\ step.had > 0
            => step.calls # <<>>
(* Attempts are spent on salvages alone, and a turn left as it was is       *)
(* remembered as it was.                                                    *)
AttemptsAreCounted ==
    /\ remaining = Attempts - Cardinality({s \in DOMAIN steps : steps[s].calls # <<>>})
    /\ \A s \in DOMAIN steps : steps[s].calls = <<>> => steps[s].history = steps[s].text
    /\ Len(chunks) = 2 * FoldLeft(LAMBDA n, s : n + Len(s.calls), 0, steps)

(* What salvage takes for calls is what the text wrote as calls. *)
SalvageIsFaithful == CallsAreSound /\ CallsAreMeant /\ NoCallIsMissed /\ AttemptsAreCounted
==============================================================================
