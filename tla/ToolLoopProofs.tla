--------------------------- MODULE ToolLoopProofs ---------------------------
(* Proofs about ToolLoop, for any tools, options and number of calls: every *)
(* variable keeps its type, and LoopIsAccounted is an invariant.            *)
EXTENDS ToolLoop, FiniteSetTheorems, TLAPS

----------------------------------------------------------------------------
(* The inductive invariant.                                                *)

Working == {"resolve", "asking", "granted", "execute"}
CallPhases == {"call"} \cup Working
Resting == {"turn", "model", "parse"}

MessageType == [kind : Kinds, ids : Seq(Id)]
RecordType == [id : Id, fate : Fates]

(* The types of the variables, as sets.                                    *)
ShapeInv ==
  /\ options \in Options
  /\ phase \in {"turn", "model", "parse", "done"} \cup CallPhases
  /\ step_index \in 0 .. options.max_steps /\ steps \in 0 .. options.max_steps
  /\ messages \in Seq(MessageType)
  /\ made \in Seq(CallLists(Names))
  /\ next \in 1 .. MaxCalls + 1
  /\ feed \in Seq(Id)
  /\ terminal_fired \in BOOLEAN /\ aborted \in BOOLEAN
  /\ all_records \in Seq(RecordType)
  /\ salvage_remaining \in 0 .. options.tool_call_repair_attempts
  /\ repair_remaining \in 0 .. options.schema_repair_attempts
  /\ outcome \in Finishes \cup {"none", "aborted", "error", "denied", "incomplete", "invalid"}
  /\ granted \subseteq asked /\ asked \subseteq Id
  /\ ran \in Seq(Id)

(* How the step that is under way, the records and the turns go together.  *)
PlaceInv ==
  /\ phase \in {"turn", "model"} \cup CallPhases => steps = step_index
  /\ phase \in {"model"} \cup CallPhases => step_index < options.max_steps
  /\ phase = "parse" => steps = step_index + 1
  /\ phase \in Resting => Len(made) = steps /\ next = 1 /\ feed = <<>>
  /\ phase \in CallPhases => Len(made) = steps + 1 /\ next <= Kept(Calls) + 1
  /\ phase \in Working => next <= Kept(Calls)
  /\ phase = "asking" => CallId \in asked

(* The first n messages are such as HistoryIsAnswered asks for.            *)
AnsweredUpTo(m, n) ==
  /\ \A i \in 1 .. n : m[i].kind = "assistant" =>
       \A j \in 1 .. Len(m[i].ids) : i + j <= n /\ m[i + j] = Message("tool", <<m[i].ids[j]>>)
  /\ \A k \in 1 .. n : m[k].kind = "tool" =>
       \E i \in 1 .. k - 1 :
         /\ m[i].kind = "assistant"
         /\ k - i <= Len(m[i].ids)
         /\ m[k].ids = <<m[i].ids[k - i]>>

(* A loop may go on from here.                                             *)
GoesOnFrom == phase \in {"turn", "model"} \/ (phase = "parse" /\ steps < options.max_steps)

(* In a step with calls, the last message makes those that were kept, and  *)
(* the results that wait are theirs, from the first on.                    *)
HistoryInv ==
  /\ GoesOnFrom => AnsweredUpTo(messages, Len(messages))
  /\ phase \in CallPhases =>
       /\ messages # <<>>
       /\ messages[Len(messages)] = Message("assistant", IdsOf(step_index, 1, Kept(Calls)))
       /\ AnsweredUpTo(messages, Len(messages) - 1)
       /\ would_exceed_after \/ feed = IdsOf(step_index, 1, next - 1)

DroppedAreTold ==
  \A s \in 1 .. Len(made) : \A n \in 1 .. Len(made[s]) :
    WasDropped(s, n) => Named(<<s - 1, n>>) \/ EndedByTool(s)

(* Only steps that are over have dropped calls.                            *)
DropInv ==
  /\ \A r \in 1 .. Len(all_records) :
       all_records[r].fate = "dropped_max_tool_calls_per_step" => all_records[r].id[1] < steps
  /\ phase \in CallPhases /\ terminal_fired => EndedByTool(Len(made))
  /\ GoesOnFrom \/ phase \in CallPhases => DroppedAreTold

(* The calls that came before the one that is processed.                   *)
Behind(id) == id[1] < steps \/ (id[1] = steps /\ id[2] < next)

ApprovalInv ==
  /\ \A k \in 1 .. Len(ran) : ran[k][1] + 1 <= Len(made) /\ ran[k][2] <= Len(made[ran[k][1] + 1])
  /\ RunsApproved
  /\ phase # "done" =>
       \A k \in 1 .. Len(ran) : Behind(ran[k]) \/ (phase = "execute" /\ ran[k] = CallId)
  /\ phase # "done" =>
       \A id \in asked : Behind(id) \/ (phase \in Working \ {"resolve"} /\ id = CallId)
  /\ phase \in {"granted", "execute"} /\ (Call \in Gated \/ CallId \in asked) =>
       CallId \in granted

LoopInv == ShapeInv /\ PlaceInv /\ HistoryInv /\ DropInv /\ ApprovalInv

----------------------------------------------------------------------------
(* What the operators of a step give.                                      *)

(* At most as many calls are kept as the turn makes.                       *)
LEMMA KeptIsPart ==
  ASSUME NEW calls, Len(calls) \in Nat
  PROVE  Kept(calls) \in 0 .. Len(calls)
<1> DEFINE all == 1 .. Len(calls)
           some == {n \in all : Cardinality(Counted(calls, n)) <= options.max_tool_calls_per_step}
<1>1. IsFiniteSet(all) /\ Cardinality(all) = Len(calls)
  <2>1. PICK n : n = Len(calls)
    OBVIOUS
  <2>2. n \in Nat
    BY <2>1
  <2>3. IsFiniteSet(1 .. n) /\ Cardinality(1 .. n) = n
    <3> HIDE DEF some, all
    <3> QED BY <2>2, FS_Interval, SMTT(20)
  <2> QED BY <2>1, <2>3
<1>2. some \subseteq all
  OBVIOUS
<1>3. IsFiniteSet(some) /\ Cardinality(some) <= Cardinality(all)
  <2> HIDE DEF all, some
  <2> QED BY <1>1, <1>2, FS_Subset
<1>4. Cardinality(some) \in Nat
  <2> HIDE DEF all, some
  <2> QED BY <1>3, FS_CardinalityType
<1>5. Kept(calls) = Cardinality(some)
  BY DEF Kept
<1> HIDE DEF all, some
<1> QED BY <1>1, <1>3, <1>4, <1>5

(* The names of a step's calls, from one to another.                       *)
LEMMA IdsBehind ==
  ASSUME NEW step, NEW kept \in Nat, NEW last \in Nat, kept <= last
  PROVE  /\ Len(IdsOf(step, kept + 1, last)) = last - kept
         /\ \A n \in 1 .. last - kept : IdsOf(step, kept + 1, last)[n] = <<step, kept + n>>
<1>1. last + 1 - (kept + 1) = last - kept /\ last - kept \in Nat
  OBVIOUS
<1>2. \A n \in 1 .. last - kept : kept + 1 + n - 1 = kept + n
  OBVIOUS
<1>3. IdsOf(step, kept + 1, last) = [n \in 1 .. last - kept |-> <<step, kept + 1 + n - 1>>]
  BY <1>1 DEF IdsOf
<1> QED BY <1>1, <1>2, <1>3

LEMMA FirstIds ==
  ASSUME NEW step, NEW last \in Nat
  PROVE  IdsOf(step, 1, last) = [n \in 1 .. last |-> <<step, n>>]
<1>1. last + 1 - 1 = last
  OBVIOUS
<1>2. \A n \in 1 .. last : 1 + n - 1 = n
  OBVIOUS
<1> QED BY <1>1, <1>2 DEF IdsOf

LEMMA IdsAreNames ==
  ASSUME ShapeInv, NEW step \in 0 .. options.max_steps - 1, NEW first \in Nat \ {0},
         NEW last \in 0 .. MaxCalls, first <= last + 1
  PROVE  IdsOf(step, first, last) \in Seq(Id)
<1>1. MaxCalls \in Nat /\ options.max_steps \in Nat
  BY ToolLoopAssumption DEF ShapeInv, CallOptions
<1>2. last + 1 - first \in Nat
  BY <1>1
<1>3. ASSUME NEW n \in 1 .. last + 1 - first PROVE <<step, first + n - 1>> \in Id
  BY <1>1, <1>3 DEF Id
<1> QED BY <1>2, <1>3 DEF IdsOf

(* The calls of the step that is under way.                                *)
LEMMA CallFacts ==
  ASSUME ShapeInv, PlaceInv, phase \in CallPhases
  PROVE  /\ Len(made) = step_index + 1 /\ steps = step_index
         /\ step_index \in 0 .. options.max_steps - 1 /\ options.max_steps \in Nat
         /\ Calls \in Seq(Names) /\ Len(Calls) \in 0 .. MaxCalls /\ MaxCalls \in Nat
         /\ Kept(Calls) \in 0 .. Len(Calls)
         /\ next \in 1 .. Kept(Calls) + 1
         /\ phase \in Working \/ InCall =>
              next \in 1 .. Kept(Calls) /\ CallId \in Id /\ Call \in Names
<1>1. MaxCalls \in Nat /\ options.max_steps \in Nat
  BY ToolLoopAssumption DEF ShapeInv, CallOptions
<1>2. Len(made) = step_index + 1 /\ steps = step_index /\ step_index < options.max_steps
      /\ next <= Kept(Calls) + 1
  BY DEF PlaceInv
<1>3. step_index \in 0 .. options.max_steps - 1
  BY <1>1, <1>2 DEF ShapeInv
<1>4. Calls \in CallLists(Names)
  BY <1>2, <1>3, <1>1 DEF ShapeInv, Calls
<1>5. PICK m \in 0 .. MaxCalls : Calls \in [1 .. m -> Names]
  BY <1>4 DEF CallLists
<1>6. Calls \in Seq(Names) /\ Len(Calls) = m
  <2> HIDE DEF Calls
  <2> QED BY <1>1, <1>5
<1>7. Kept(Calls) \in 0 .. Len(Calls)
  BY <1>6, <1>1, KeptIsPart
<1>8. next \in 1 .. MaxCalls + 1
  BY DEF ShapeInv
<1>9. ASSUME phase \in Working \/ InCall
      PROVE  next \in 1 .. Kept(Calls) /\ CallId \in Id /\ Call \in Names
  <2>1. next <= Kept(Calls)
    BY <1>9 DEF PlaceInv, InCall
  <2>2. next \in 1 .. Kept(Calls) /\ next \in 1 .. m /\ next \in 1 .. MaxCalls
    <3> HIDE DEF Calls
    <3> QED BY <2>1, <1>1, <1>5, <1>6, <1>7, <1>8
  <2>3. CallId \in Id
    BY <2>2, <1>3 DEF CallId, Id
  <2>4. Call \in Names
    BY <2>2, <1>5 DEF Call
  <2> QED BY <2>2, <2>3, <2>4
<1> HIDE DEF Calls
<1> QED BY <1>1, <1>2, <1>3, <1>6, <1>7, <1>8, <1>9

(* What a turn brings.                                                     *)
LEMMA TurnFacts ==
  ASSUME NEW t \in TurnResults
  PROVE  /\ ViewCalls(t) \in CallLists(Names)
         /\ ViewCalls(t) = <<>> => t.finish \in Finishes
<1>1. CallLists(Tools) \subseteq CallLists(Names)
  BY DEF CallLists, Names
<1>2. <<>> \in CallLists(Names)
  <2>1. 0 \in 0 .. MaxCalls
    BY ToolLoopAssumption
  <2>2. <<>> \in [1 .. 0 -> Names]
    OBVIOUS
  <2> QED BY <2>1, <2>2 DEF CallLists
<1>3. ASSUME NEW c \in CallLists(Names) \ {<<>>}, t = WithCalls(c)
      PROVE  ViewCalls(t) \in CallLists(Names) /\ ViewCalls(t) # <<>>
  <2>1. t.calls = c
    BY <1>3 DEF WithCalls, NoCalls
  <2> QED BY <2>1, <1>3 DEF ViewCalls, Salvaged
<1>4. ASSUME NEW f \in {"stop", "length"}, NEW c \in CallLists(Tools), t = WithHidden(f, c)
      PROVE  ViewCalls(t) \in CallLists(Names) /\ t.finish \in Finishes
  <2>1. t.calls = <<>> /\ t.hidden = c /\ t.finish = f
    BY <1>4 DEF WithHidden, NoCalls
  <2> QED BY <2>1, <1>1, <1>2 DEF ViewCalls, Finishes
<1>5. ASSUME t \in {NoCalls("stop", TRUE), NoCalls("content_filter", FALSE)}
      PROVE  ViewCalls(t) \in CallLists(Names) /\ t.finish \in Finishes
  <2>1. t.calls = <<>> /\ t.hidden = <<>> /\ t.finish \in Finishes
    BY <1>5 DEF NoCalls, Finishes
  <2> QED BY <2>1, <1>2 DEF ViewCalls
<1>6. \/ \E c \in CallLists(Names) \ {<<>>} : t = WithCalls(c)
      \/ \E f \in {"stop", "length"}, c \in CallLists(Tools) : t = WithHidden(f, c)
      \/ t \in {NoCalls("stop", TRUE), NoCalls("content_filter", FALSE)}
  BY DEF TurnResults
<1> QED BY <1>3, <1>4, <1>5, <1>6

LEMMA Concatenates ==
  ASSUME NEW S, NEW a \in Seq(S), NEW b \in Seq(S)
  PROVE  a \o b \in Seq(S)
OBVIOUS

LEMMA Appends ==
  ASSUME NEW S, NEW a \in Seq(S), NEW e \in S
  PROVE  Append(a, e) \in Seq(S)
OBVIOUS

LEMMA AppendIsConcat ==
  ASSUME NEW S, NEW a \in Seq(S), NEW e \in S
  PROVE  Append(a, e) = a \o <<e>>
OBVIOUS

LEMMA ConcatFacts ==
  ASSUME NEW S, NEW a \in Seq(S), NEW b \in Seq(S), NEW c, c = a \o b
  PROVE  /\ Len(a) \in Nat /\ Len(b) \in Nat /\ Len(c) = Len(a) + Len(b)
         /\ \A i \in 1 .. Len(a) : c[i] = a[i]
         /\ \A k \in 1 .. Len(b) : c[Len(a) + k] = b[k]
OBVIOUS

(* The steps that a loop may take, one by one.                             *)
LEMMA NextCases ==
  ASSUME Next
  PROVE  \/ InvokeTurn \/ CallAborted \/ record_unexecuted_call \/ UnknownTool \/ ResolveTool
         \/ InvalidInput \/ NeedsNoApproval \/ request_approval \/ Execute \/ StepEnds
         \/ InvokeFails \/ ExecuteSucceeds \/ ExecuteFails \/ Parses \/ Repair
         \/ Grants \/ Denies \/ CallerThrows \/ CallerAborts \/ continue_paused_turn
         \/ \E t \in TurnResults :
              continue_truncated_turn(t) \/ AnswersInText(t) \/ AnswersWithCalls(t)
BY DEF Next, Proceed, Settles, Answer

----------------------------------------------------------------------------
(* The types.                                                              *)

LEMMA InitialShape == Init => ShapeInv
<1> SUFFICES ASSUME Init PROVE ShapeInv
  OBVIOUS
<1>1. options \in CallOptions /\ MaxCalls \in Nat
  BY ToolLoopAssumption DEF Init
<1>2. /\ options.max_steps \in Nat /\ options.tool_call_repair_attempts \in Nat
      /\ options.schema_repair_attempts \in Nat
  BY <1>1 DEF CallOptions
<1>3. /\ messages \in Seq(MessageType) /\ made \in Seq(CallLists(Names)) /\ feed \in Seq(Id)
      /\ all_records \in Seq(RecordType) /\ ran \in Seq(Id)
  BY DEF Init
<1>4. /\ phase \in {"turn", "model", "parse", "done"} \cup CallPhases
      /\ step_index \in 0 .. options.max_steps /\ steps \in 0 .. options.max_steps
      /\ next \in 1 .. MaxCalls + 1
      /\ salvage_remaining \in 0 .. options.tool_call_repair_attempts
      /\ repair_remaining \in 0 .. options.schema_repair_attempts
  BY <1>1, <1>2 DEF Init
<1>5. /\ terminal_fired \in BOOLEAN /\ aborted \in BOOLEAN
      /\ outcome \in Finishes \cup {"none", "aborted", "error", "denied", "incomplete", "invalid"}
      /\ granted \subseteq asked /\ asked \subseteq Id
  BY DEF Init
<1>6. options \in Options
  BY DEF Init
<1> QED BY <1>3, <1>4, <1>5, <1>6 DEF ShapeInv

(* How a loop or a call may end.                                           *)
LEMMA EndTypes ==
  /\ \A what \in {"aborted", "error", "denied", "invalid", "stop"} :
       Throw(what) =>
         phase' = "done" /\ outcome' \in Finishes \cup {"none", "aborted", "error", "denied", "incomplete", "invalid"}
  /\ \A finish \in Finishes :
       LoopEnds(finish) =>
         /\ phase' \in {"parse", "done"}
         /\ phase' = "parse" => finish = "stop"
         /\ outcome' = outcome \/ outcome' \in Finishes \cup {"incomplete"}
BY DEF Throw, LoopEnds, Finishes

(* Every variable keeps its type.                                          *)
LEMMA NextShape == ShapeInv /\ PlaceInv /\ [Next]_vars => ShapeInv'
<1> SUFFICES ASSUME ShapeInv, PlaceInv, [Next]_vars PROVE ShapeInv'
  OBVIOUS
<1> DEFINE Outcomes == Finishes \cup {"none", "aborted", "error", "denied", "incomplete", "invalid"}
           Phases == {"turn", "model", "parse", "done"} \cup CallPhases
<1>1. /\ options \in Options /\ options.max_steps \in Nat /\ options.tool_call_repair_attempts \in Nat
      /\ options.schema_repair_attempts \in Nat /\ MaxCalls \in Nat
  BY ToolLoopAssumption DEF ShapeInv, CallOptions
<1>2. CASE UNCHANGED vars
  BY <1>2 DEF vars, turn, books, caller, ShapeInv, MessageType, RecordType, Id
<1> SUFFICES ASSUME Next PROVE ShapeInv'
  BY <1>2
<1> USE <1>1
<1>3. options' = options /\ Id' = Id /\ MessageType' = MessageType /\ RecordType' = RecordType
  <2>1. options' = options
    BY NextCases DEF InvokeTurn, CallAborted, record_unexecuted_call, UnknownTool, ResolveTool,
         InvalidInput, NeedsNoApproval, request_approval, Execute, StepEnds, InvokeFails, ExecuteSucceeds,
         ExecuteFails, Parses, Repair, Grants, Denies, CallerThrows, CallerAborts, continue_paused_turn,
         continue_truncated_turn, AnswersInText, AnswersWithCalls, caller
  <2> QED BY <2>1 DEF Id, MessageType, RecordType
(* What most steps leave as it is. *)
<1> DEFINE Same ==
      /\ step_index' = step_index /\ steps' = steps /\ messages' = messages /\ made' = made
      /\ salvage_remaining' = salvage_remaining /\ repair_remaining' = repair_remaining
    Progress ==
      /\ phase' \in Phases /\ outcome' \in Outcomes
      /\ next' \in 1 .. MaxCalls + 1 /\ feed' \in Seq(Id) /\ all_records' \in Seq(RecordType)
      /\ terminal_fired' \in BOOLEAN /\ aborted' \in BOOLEAN
      /\ granted' \subseteq asked' /\ asked' \subseteq Id /\ ran' \in Seq(Id)
<1>4. ASSUME Same, Progress PROVE ShapeInv'
  BY <1>3, <1>4 DEF ShapeInv
<1>5. /\ phase \in Phases /\ outcome \in Outcomes
      /\ next \in 1 .. MaxCalls + 1 /\ feed \in Seq(Id) /\ all_records \in Seq(RecordType)
      /\ terminal_fired \in BOOLEAN /\ aborted \in BOOLEAN
      /\ granted \subseteq asked /\ asked \subseteq Id /\ ran \in Seq(Id)
      /\ step_index \in 0 .. options.max_steps /\ steps \in 0 .. options.max_steps
      /\ messages \in Seq(MessageType) /\ made \in Seq(CallLists(Names))
      /\ salvage_remaining \in 0 .. options.tool_call_repair_attempts
      /\ repair_remaining \in 0 .. options.schema_repair_attempts
  BY DEF ShapeInv
<1>6. ASSUME NEW fate \in Fates, Record(CallId, fate), CallId \in Id PROVE all_records' \in Seq(RecordType)
  <2>1. [id |-> CallId, fate |-> fate] \in RecordType
    BY <1>6 DEF RecordType
  <2> QED BY <2>1, <1>5, <1>6 DEF Record
<1>7. ASSUME NEW fate \in Fates, Fed(fate), CallId \in Id, next \in 1 .. MaxCalls
      PROVE  /\ phase' \in Phases /\ outcome' \in Outcomes /\ next' \in 1 .. MaxCalls + 1
             /\ feed' \in Seq(Id) /\ all_records' \in Seq(RecordType)
  <2>1. all_records' \in Seq(RecordType)
    BY <1>6, <1>7 DEF Fed
  <2>2. feed' \in Seq(Id)
    BY <1>5, <1>7 DEF Fed
  <2> QED BY <2>1, <2>2, <1>5, <1>7 DEF Fed, CallPhases
<1>8. ASSUME NEW what \in {"error", "denied"}, FailedCall(what), CallId \in Id, next \in 1 .. MaxCalls
      PROVE  /\ phase' \in Phases /\ outcome' \in Outcomes /\ next' \in 1 .. MaxCalls + 1
             /\ feed' \in Seq(Id) /\ all_records' \in Seq(RecordType)
  BY <1>5, <1>7, <1>8, EndTypes DEF FailedCall, Fates
<1>9. phase \in Working \/ InCall => CallId \in Id /\ next \in 1 .. MaxCalls
  <2>1. phase \in Working \/ InCall => phase \in CallPhases
    BY DEF InCall, CallPhases
  <2>2. ASSUME NEW k, NEW l, k \in 0 .. l, l \in 0 .. MaxCalls, next \in 1 .. k PROVE next \in 1 .. MaxCalls
    BY <2>2
  <2> HIDE DEF Phases, Same, Progress
  <2> QED BY <2>1, <2>2, CallFacts
<1>10. CASE CallAborted
  <2>1. Same
    BY <1>10 DEF CallAborted, turn, books
  <2>2. Progress
    BY <1>10, <1>5, EndTypes DEF CallAborted, turn, caller
  <2> HIDE DEF Same, Progress
  <2> QED BY <2>1, <2>2, <1>4
<1>11. CASE record_unexecuted_call
  <2>1. Same
    BY <1>11 DEF record_unexecuted_call, turn, books
  <2>2. Progress
    BY <1>11, <1>5, <1>6, <1>9 DEF record_unexecuted_call, turn, caller, Fates
  <2> HIDE DEF Same, Progress
  <2> QED BY <2>1, <2>2, <1>4
<1>12. CASE UnknownTool
  <2>1. Same
    BY <1>12 DEF UnknownTool, turn, books
  <2>2. Progress
    BY <1>12, <1>5, <1>8, <1>9 DEF UnknownTool, turn, caller
  <2> HIDE DEF Same, Progress
  <2> QED BY <2>1, <2>2, <1>4
<1>13. CASE ResolveTool
  <2>1. Same
    BY <1>13 DEF ResolveTool, turn, books
  <2>2. Progress
    BY <1>13, <1>5 DEF ResolveTool, turn, caller, CallPhases, Working
  <2> HIDE DEF Same, Progress
  <2> QED BY <2>1, <2>2, <1>4
<1>14. CASE InvalidInput
  <2>1. Same
    BY <1>14 DEF InvalidInput, turn, books
  <2>2. Progress
    BY <1>14, <1>5, <1>7, <1>9 DEF InvalidInput, turn, caller, Fates, Working
  <2> HIDE DEF Same, Progress
  <2> QED BY <2>1, <2>2, <1>4
<1>15. CASE NeedsNoApproval
  <2>1. Same
    BY <1>15 DEF NeedsNoApproval, turn, books
  <2>2. Progress
    BY <1>15, <1>5 DEF NeedsNoApproval, turn, caller, CallPhases, Working
  <2> HIDE DEF Same, Progress
  <2> QED BY <2>1, <2>2, <1>4
<1>16. CASE request_approval
  <2>1. Same
    BY <1>16 DEF request_approval, turn, books
  <2>2. Progress
    BY <1>16, <1>5, <1>9, EndTypes DEF request_approval, turn, caller, CallPhases, Working
  <2> HIDE DEF Same, Progress
  <2> QED BY <2>1, <2>2, <1>4
<1>17. CASE Execute
  <2>1. Same
    BY <1>17 DEF Execute, turn, books
  <2>2. Progress
    BY <1>17, <1>5, <1>9 DEF Execute, turn, caller, CallPhases, Working
  <2> HIDE DEF Same, Progress
  <2> QED BY <2>1, <2>2, <1>4
<1>18. CASE InvokeFails
  <2>1. Same
    BY <1>18 DEF InvokeFails, turn, books
  <2>2. Progress
    BY <1>18, <1>5, EndTypes DEF InvokeFails, turn, caller
  <2> HIDE DEF Same, Progress
  <2> QED BY <2>1, <2>2, <1>4
<1>19. CASE ExecuteSucceeds
  <2>1. Same
    BY <1>19 DEF ExecuteSucceeds, turn, books
  <2>2. Progress
    BY <1>19, <1>5, <1>7, <1>9 DEF ExecuteSucceeds, turn, caller, Fates, Working
  <2> HIDE DEF Same, Progress
  <2> QED BY <2>1, <2>2, <1>4
<1>20. CASE ExecuteFails
  <2>1. Same
    BY <1>20 DEF ExecuteFails, turn, books
  <2>2. Progress
    BY <1>20, <1>5, <1>8, <1>9, EndTypes DEF ExecuteFails, turn, caller, Working
  <2> HIDE DEF Same, Progress
  <2> QED BY <2>1, <2>2, <1>4
<1>21. CASE Parses
  <2>1. Same
    BY <1>21 DEF Parses, turn, books
  <2>2. Progress
    BY <1>21, <1>5, EndTypes DEF Parses, turn, caller
  <2> HIDE DEF Same, Progress
  <2> QED BY <2>1, <2>2, <1>4
<1>22. CASE Grants
  <2>1. Same
    BY <1>22 DEF Grants, turn, books
  <2>2. Progress
    BY <1>22, <1>5, <1>9 DEF Grants, turn, caller, CallPhases, Working, PlaceInv
  <2> HIDE DEF Same, Progress
  <2> QED BY <2>1, <2>2, <1>4
<1>23. CASE Denies
  <2>1. Same
    BY <1>23 DEF Denies, turn, books
  <2>2. Progress
    BY <1>23, <1>5, <1>8, <1>9 DEF Denies, turn, caller, Working
  <2> HIDE DEF Same, Progress
  <2> QED BY <2>1, <2>2, <1>4
<1>24. CASE CallerThrows
  <2>1. Same
    BY <1>24 DEF CallerThrows, turn, books
  <2>2. Progress
    BY <1>24, <1>5, EndTypes DEF CallerThrows, turn, caller
  <2> HIDE DEF Same, Progress
  <2> QED BY <2>1, <2>2, <1>4
<1>25. CASE CallerAborts
  <2>1. Same
    BY <1>25 DEF CallerAborts, turn, books
  <2>2. Progress
    BY <1>25, <1>5, EndTypes DEF CallerAborts, turn, caller
  <2> HIDE DEF Same, Progress
  <2> QED BY <2>1, <2>2, <1>4
<1>26. CASE InvokeTurn
  <2>1. Same
    BY <1>26 DEF InvokeTurn, turn, books
  <2>2. Progress
    BY <1>26, <1>5, EndTypes DEF InvokeTurn, turn, caller, Finishes
  <2> HIDE DEF Same, Progress
  <2> QED BY <2>1, <2>2, <1>4
<1>27. /\ CallLists(Names) # {} /\ <<>> \in CallLists(Names)
  <2>1. 0 \in 0 .. MaxCalls /\ <<>> \in [1 .. 0 -> Names]
    OBVIOUS
  <2> QED BY <2>1 DEF CallLists
<1>28. ASSUME NEW kind \in Kinds, NEW ids \in Seq(Id) PROVE Message(kind, ids) \in MessageType
  BY <1>28 DEF Message, MessageType
<1>29. /\ Message("assistant", <<>>) \in MessageType /\ Message("cut_off", <<>>) \in MessageType
       /\ Message("repair", <<>>) \in MessageType
  <2>1. <<>> \in Seq(Id)
    OBVIOUS
  <2> QED BY <2>1, <1>28 DEF Kinds
(* A step that is over is one of at most max_steps. *)
<1>30. ASSUME steps = step_index, step_index < options.max_steps, StepRecorded
       PROVE  /\ steps' \in 0 .. options.max_steps /\ next' \in 1 .. MaxCalls + 1 /\ feed' \in Seq(Id)
              /\ GoesOn => step_index' \in 0 .. options.max_steps
  BY <1>30, <1>5 DEF StepRecorded, GoesOn
<1>31. phase = "model" => steps = step_index /\ step_index < options.max_steps
  BY DEF PlaceInv
<1>32. CASE continue_paused_turn
  <2>1. messages' \in Seq(MessageType) /\ made' \in Seq(CallLists(Names))
    BY <1>32, <1>5, <1>27, <1>29 DEF continue_paused_turn
  <2>2. phase' \in Phases /\ outcome' \in Outcomes
    BY <1>32, <1>5, EndTypes DEF continue_paused_turn, GoesOn, Finishes
  <2>3. /\ steps' \in 0 .. options.max_steps /\ next' \in 1 .. MaxCalls + 1 /\ feed' \in Seq(Id)
        /\ step_index' \in 0 .. options.max_steps
    BY <1>32, <1>5, <1>30, <1>31 DEF continue_paused_turn
  <2>4. /\ UNCHANGED <<terminal_fired, aborted, all_records, salvage_remaining, repair_remaining>>
        /\ UNCHANGED <<granted, asked, ran>>
    BY <1>32 DEF continue_paused_turn, caller
  <2> HIDE DEF Phases, Outcomes
  <2> QED BY <1>3, <1>5, <2>1, <2>2, <2>3, <2>4 DEF ShapeInv, Phases, Outcomes
<1>33. ASSUME NEW t \in TurnResults, continue_truncated_turn(t) PROVE ShapeInv'
  <2>1. messages' \in Seq(MessageType) /\ made' \in Seq(CallLists(Names))
    <3>1. PICK text \in {<<>>, <<Message("assistant", <<>>)>>} :
            messages' = messages \o text \o <<Message("cut_off", <<>>)>>
      BY <1>33 DEF continue_truncated_turn
    <3> DEFINE front == <<Message("assistant", <<>>)>>
               back == <<Message("cut_off", <<>>)>>
    <3>2. front \in Seq(MessageType) /\ back \in Seq(MessageType) /\ <<>> \in Seq(MessageType)
      BY <1>29
    <3>3. text \in Seq(MessageType) /\ messages' = messages \o text \o back
      BY <3>1, <3>2
    <3> HIDE DEF front, back
    <3>4. messages \o text \in Seq(MessageType)
      BY <3>3, <1>5, Concatenates
    <3>5. messages' \in Seq(MessageType)
      BY <3>2, <3>4, <3>3, Concatenates
    <3> QED BY <3>5, <1>33, <1>5, <1>27 DEF continue_truncated_turn
  <2>2. phase' \in Phases /\ outcome' \in Outcomes
    BY <1>33, <1>5 DEF continue_truncated_turn, GoesOn
  <2>3. /\ steps' \in 0 .. options.max_steps /\ next' \in 1 .. MaxCalls + 1 /\ feed' \in Seq(Id)
        /\ step_index' \in 0 .. options.max_steps
    BY <1>33, <1>5, <1>30, <1>31 DEF continue_truncated_turn
  <2>4. /\ UNCHANGED <<terminal_fired, aborted, all_records, salvage_remaining, repair_remaining>>
        /\ UNCHANGED <<granted, asked, ran>>
    BY <1>33 DEF continue_truncated_turn, caller
  <2> HIDE DEF Phases, Outcomes
  <2> QED BY <1>3, <1>5, <2>1, <2>2, <2>3, <2>4 DEF ShapeInv, Phases, Outcomes
<1>34. ASSUME NEW t \in TurnResults, AnswersInText(t) PROVE ShapeInv'
  <2>1. messages' \in Seq(MessageType) /\ made' \in Seq(CallLists(Names))
    BY <1>34, <1>5, <1>27, <1>29 DEF AnswersInText
  <2>2. phase' \in Phases /\ outcome' \in Outcomes
    <3>1. t.finish \in Finishes /\ LoopEnds(t.finish)
      BY <1>34, TurnFacts DEF AnswersInText
    <3> QED BY <3>1, <1>5, EndTypes
  <2>3. /\ steps' \in 0 .. options.max_steps /\ next' \in 1 .. MaxCalls + 1 /\ feed' \in Seq(Id)
        /\ step_index' \in 0 .. options.max_steps
    BY <1>34, <1>5, <1>30, <1>31 DEF AnswersInText
  <2>4. /\ UNCHANGED <<terminal_fired, aborted, all_records, salvage_remaining, repair_remaining>>
        /\ UNCHANGED <<granted, asked, ran>>
    BY <1>34 DEF AnswersInText, caller
  <2> HIDE DEF Phases, Outcomes
  <2> QED BY <1>3, <1>5, <2>1, <2>2, <2>3, <2>4 DEF ShapeInv, Phases, Outcomes
<1>35. ASSUME NEW t \in TurnResults, AnswersWithCalls(t) PROVE ShapeInv'
  <2> DEFINE calls == ViewCalls(t)
  <2>1. calls \in CallLists(Names)
    BY TurnFacts
  <2>2. made' \in Seq(CallLists(Names))
    BY <1>35, <1>5, <2>1 DEF AnswersWithCalls
  <2>3. PICK m \in 0 .. MaxCalls : calls \in [1 .. m -> Names]
    BY <2>1 DEF CallLists
  <2>4. Kept(calls) \in 0 .. MaxCalls
    <3>1. Len(calls) = m
      <4> HIDE DEF calls
      <4> QED BY <2>3
    <3>2. Kept(calls) \in 0 .. Len(calls)
      <4> HIDE DEF calls
      <4> QED BY <3>1, KeptIsPart
    <3> HIDE DEF calls
    <3> QED BY <3>1, <3>2
  <2>5. IdsOf(step_index, 1, Kept(calls)) \in Seq(Id)
    <3>1. step_index \in 0 .. options.max_steps - 1
      BY <1>35, <1>31, <1>5 DEF AnswersWithCalls
    <3> HIDE DEF calls
    <3> QED BY <2>4, <3>1, IdsAreNames
  <2>6. messages' \in Seq(MessageType)
    <3>1. Message("assistant", IdsOf(step_index, 1, Kept(calls))) \in MessageType
      <4> HIDE DEF calls
      <4> QED BY <2>5, <1>28 DEF Kinds
    <3> QED BY <3>1, <1>35, <1>5 DEF AnswersWithCalls
  <2>7. salvage_remaining' \in 0 .. options.tool_call_repair_attempts
    BY <1>35, <1>5 DEF AnswersWithCalls, Salvaged
  <2>8. /\ phase' \in Phases /\ next' \in 1 .. MaxCalls + 1
        /\ UNCHANGED <<step_index, steps, repair_remaining, aborted, outcome, all_records>>
        /\ UNCHANGED <<granted, asked, ran>>
    BY <1>35 DEF AnswersWithCalls, caller, CallPhases
  <2>9. feed' \in Seq(Id) /\ terminal_fired' \in BOOLEAN
    <3>1. feed' = <<>> /\ terminal_fired' = FALSE
      BY <1>35 DEF AnswersWithCalls
    <3>2. feed' \in Seq(Id)
      BY <3>1
    <3>3. terminal_fired' \in BOOLEAN
      BY <3>1, Zenon
    <3> QED BY <3>2, <3>3
  <2> HIDE DEF Phases, Outcomes, calls
  <2> QED BY <1>3, <1>5, <2>2, <2>6, <2>7, <2>8, <2>9 DEF ShapeInv, Phases, Outcomes
<1>36. CASE StepEnds
  <2>1. /\ phase \in CallPhases /\ step_index \in 0 .. options.max_steps - 1 /\ steps = step_index
        /\ Len(Calls) \in 0 .. MaxCalls /\ Kept(Calls) \in 0 .. Len(Calls)
    <3>1. phase \in CallPhases
      BY <1>36 DEF StepEnds, CallPhases
    <3> QED BY <3>1, CallFacts
  <2>2. Dropped \in Seq(Id)
    BY <2>1, IdsAreNames DEF Dropped
  <2>3. DroppedRecords \in Seq(RecordType)
    <3>1. \A n \in 1 .. Len(Dropped) :
            [id |-> Dropped[n], fate |-> "dropped_max_tool_calls_per_step"] \in RecordType
      BY <2>2 DEF RecordType, Fates
    <3>2. Len(Dropped) \in Nat
      BY <2>2
    <3> QED BY <3>1, <3>2 DEF DroppedRecords
  <2>4. ToolMessages \in Seq(MessageType)
    <3>1. ASSUME NEW n \in 1 .. Len(feed) PROVE Message("tool", <<feed[n]>>) \in MessageType
      <4>1. <<feed[n]>> \in Seq(Id)
        BY <1>5, <3>1
      <4> QED BY <4>1, <1>28 DEF Kinds
    <3>2. Len(feed) \in Nat
      BY <1>5
    <3> QED BY <3>1, <3>2 DEF ToolMessages
  <2>5. Notice \in Seq(MessageType)
    <3>1. Message("notice", Dropped) \in MessageType
      BY <2>2, <1>28 DEF Kinds
    <3> QED BY <3>1 DEF Notice
  <2>6. messages' \in Seq(MessageType)
    <3>1. messages' = messages \o ToolMessages \/ messages' = messages \o ToolMessages \o Notice
      BY <1>36 DEF StepEnds
    <3>2. messages \o ToolMessages \in Seq(MessageType)
      BY <1>5, <2>4, Concatenates
    <3> QED BY <3>1, <3>2, <2>5, Concatenates
  <2>7. all_records' \in Seq(RecordType)
    BY <1>36, <1>5, <2>3 DEF StepEnds
  <2>8. phase' \in Phases /\ outcome' \in Outcomes
    BY <1>36, <1>5, EndTypes DEF StepEnds, GoesOn, Finishes
  <2>9. /\ steps' \in 0 .. options.max_steps /\ next' \in 1 .. MaxCalls + 1 /\ feed' \in Seq(Id)
        /\ step_index' \in 0 .. options.max_steps
    <3>1. StepRecorded /\ (GoesOn \/ step_index' = step_index)
      BY <1>36 DEF StepEnds
    <3>2. step_index < options.max_steps
      BY <2>1
    <3> QED BY <3>1, <3>2, <2>1, <1>5, <1>30
  <2>10. /\ UNCHANGED <<made, terminal_fired, aborted, salvage_remaining, repair_remaining>>
         /\ UNCHANGED <<granted, asked, ran>>
    BY <1>36 DEF StepEnds, caller
  <2> HIDE DEF Phases, Outcomes
  <2> QED BY <1>3, <1>5, <2>6, <2>7, <2>8, <2>9, <2>10 DEF ShapeInv, Phases, Outcomes
<1>37. CASE Repair
  <2>1. messages' \in Seq(MessageType)
    <3>1. messages' = messages \/ messages' = Append(messages, Message("repair", <<>>))
      BY <1>37 DEF Repair
    <3> QED BY <3>1, <1>5, <1>29, Appends
  <2>2. /\ step_index' \in 0 .. options.max_steps /\ repair_remaining' \in 0 .. options.schema_repair_attempts
        /\ phase' \in Phases /\ outcome' \in Outcomes
    <3>1. CASE repair_remaining > 0 /\ steps < options.max_steps
      <4>1. /\ repair_remaining' = repair_remaining - 1 /\ step_index' = steps /\ phase' = "turn"
            /\ outcome' = outcome
        BY <1>37, <3>1 DEF Repair
      <4>2. repair_remaining' \in 0 .. options.schema_repair_attempts
        BY <4>1, <3>1, <1>5
      <4> QED BY <4>1, <4>2, <1>5
    <3>2. CASE ~(repair_remaining > 0 /\ steps < options.max_steps)
      <4>1. Throw("invalid") /\ UNCHANGED <<repair_remaining, step_index>>
        BY <1>37, <3>2 DEF Repair
      <4> QED BY <4>1, <1>5, EndTypes
    <3> QED BY <3>1, <3>2
  <2>3. /\ UNCHANGED <<steps, made, next, feed, terminal_fired, all_records, aborted, salvage_remaining>>
        /\ UNCHANGED <<granted, asked, ran>>
    BY <1>37 DEF Repair, turn, caller
  <2> HIDE DEF Phases, Outcomes
  <2> QED BY <1>3, <1>5, <2>1, <2>2, <2>3 DEF ShapeInv, Phases, Outcomes
<1> QED BY NextCases, <1>10, <1>11, <1>12, <1>13, <1>14, <1>15, <1>16,
           <1>17, <1>18, <1>19, <1>20, <1>21, <1>22, <1>23, <1>24, <1>25, <1>26, <1>32, <1>33, <1>34,
           <1>35, <1>36, <1>37

----------------------------------------------------------------------------
(* The kinds of steps that the other parts of the invariant tell apart.    *)

(* The call ends.                                                          *)
Stops ==
  /\ phase' = "done"
  /\ UNCHANGED <<options, step_index, steps, made, all_records, ran, granted>>
  /\ asked' = asked \/ (phase = "resolve" /\ asked' = asked \cup {CallId})

(* A call of the step is brought nearer to its execution.                  *)
Approves ==
  \/ phase' = phase /\ UNCHANGED <<asked, granted, ran>>
  \/ phase = "call" /\ phase' = "resolve" /\ UNCHANGED <<asked, granted, ran>>
  \/ phase = "resolve" /\ Call \notin Gated /\ phase' = "granted" /\ UNCHANGED <<asked, granted, ran>>
  \/ phase = "resolve" /\ phase' = "asking" /\ asked' = asked \cup {CallId} /\ UNCHANGED <<granted, ran>>
  \/ phase = "asking" /\ phase' = "granted" /\ granted' = granted \cup {CallId} /\ UNCHANGED <<asked, ran>>
  \/ phase = "granted" /\ phase' = "execute" /\ ran' = Append(ran, CallId) /\ UNCHANGED <<asked, granted>>

Stays ==
  /\ phase \in CallPhases /\ phase' \in CallPhases
  /\ UNCHANGED <<options, step_index, steps, messages, made, next, feed, terminal_fired, all_records>>
  /\ phase \in Working \/ phase' = phase \/ InCall
  /\ Approves

(* A call of the step is over, and has its record.                         *)
Passes(fate) ==
  /\ phase \in Working \/ InCall
  /\ phase' = "call"
  /\ UNCHANGED <<options, step_index, steps, messages, made, asked, granted, ran>>
  /\ next' = next + 1
  /\ feed' = Append(feed, CallId) \/ would_exceed_after
  /\ Record(CallId, fate)
  /\ terminal_fired' => terminal_fired \/ (Call \in EndsTurn /\ fate = "ok")

(* Between the turns.                                                      *)
Rests ==
  /\ phase \in Resting
  /\ phase' = phase \/ (phase = "turn" /\ phase' = "model" /\ step_index < options.max_steps)
  /\ UNCHANGED <<options, step_index, steps, messages, made, next, feed, all_records, asked, granted, ran>>

(* A turn without calls.                                                   *)
Plain(extra) ==
  \A i \in 1 .. Len(extra) : extra[i].kind # "tool" /\ (extra[i].kind = "assistant" => extra[i].ids = <<>>)

Says(extra) ==
  /\ phase = "model"
  /\ messages' = messages \o extra
  /\ made' = Append(made, <<>>)
  /\ StepRecorded
  /\ GoesOn \/ (phase' \in {"parse", "done"} /\ step_index' = step_index)
  /\ UNCHANGED <<options, all_records, asked, granted, ran>>

Repairs ==
  /\ phase = "parse" /\ steps < options.max_steps
  /\ phase' = "turn" /\ step_index' = steps
  /\ messages' = Append(messages, Message("repair", <<>>))
  /\ UNCHANGED <<options, steps, made, next, feed, all_records, asked, granted, ran>>

LEMMA StepKinds ==
  ASSUME ShapeInv, PlaceInv, Next
  PROVE  \/ Stops \/ Stays \/ Rests \/ Repairs \/ StepEnds
         \/ \E fate \in Fates \ {"dropped_max_tool_calls_per_step"} : Passes(fate)
         \/ \E extra \in Seq(MessageType) : Plain(extra) /\ Says(extra)
         \/ \E t \in TurnResults : AnswersWithCalls(t)
<1> DEFINE Goal == \/ Stops \/ Stays \/ Rests \/ Repairs \/ StepEnds
                   \/ \E fate \in Fates \ {"dropped_max_tool_calls_per_step"} : Passes(fate)
                   \/ \E extra \in Seq(MessageType) : Plain(extra) /\ Says(extra)
                   \/ \E t \in TurnResults : AnswersWithCalls(t)
<1>1. ASSUME Fed("failed"), phase \in Working \/ InCall,
             UNCHANGED <<options, step_index, steps, messages, made, terminal_fired, asked, granted, ran>>
      PROVE  Passes("failed")
  BY <1>1 DEF Fed, Passes
<1>2. ASSUME NEW what, FailedCall(what), phase \in Working \/ InCall,
             UNCHANGED <<options, step_index, steps, messages, made, terminal_fired, asked, granted, ran>>
      PROVE  Stops \/ Passes("failed")
  BY <1>1, <1>2 DEF FailedCall, Throw, Stops
<1>3. "failed" \in Fates \ {"dropped_max_tool_calls_per_step"} /\ "ok" \in Fates \ {"dropped_max_tool_calls_per_step"}
      /\ "max_steps_exceeded_before_execution" \in Fates \ {"dropped_max_tool_calls_per_step"}
  BY DEF Fates
<1>4. CASE InvokeTurn
  <2>1. aborted \/ step_index >= options.max_steps => Stops
    BY <1>4 DEF InvokeTurn, Stops, Throw, LoopEnds, turn, books, caller
  <2>2. ~aborted /\ ~(step_index >= options.max_steps) => Rests
    <3>1. step_index \in Nat /\ options.max_steps \in Nat
      BY ToolLoopAssumption DEF ShapeInv, CallOptions
    <3> QED BY <3>1, <1>4 DEF InvokeTurn, Rests, Resting, turn, books, caller
  <2> QED BY <2>1, <2>2
<1>5. CASE CallAborted
  BY <1>5 DEF CallAborted, Stops, Throw, turn, books, caller
<1>6. CASE record_unexecuted_call
  <2>1. Passes("max_steps_exceeded_before_execution")
    BY <1>6 DEF record_unexecuted_call, Passes, Skips, InCall, books, caller
  <2> QED BY <2>1, <1>3
<1>7. CASE UnknownTool
  <2>1. UNCHANGED <<options, step_index, steps, messages, made, terminal_fired, asked, granted, ran>>
    BY <1>7 DEF UnknownTool, books, caller
  <2> QED BY <2>1, <1>2, <1>3, <1>7 DEF UnknownTool
<1>8. CASE ResolveTool
  BY <1>8 DEF ResolveTool, Stays, Approves, InCall, CallPhases, Working, turn, books, caller
<1>9. CASE InvalidInput
  <2>1. UNCHANGED <<options, step_index, steps, messages, made, terminal_fired, asked, granted, ran>>
    BY <1>9 DEF InvalidInput, books, caller
  <2> QED BY <2>1, <1>1, <1>3, <1>9 DEF InvalidInput, Working
<1>10. CASE NeedsNoApproval
  BY <1>10 DEF NeedsNoApproval, Stays, Approves, CallPhases, Working, turn, books, caller
<1>11. CASE request_approval
  <2>1. CASE ~options.on_tool_approval \/ aborted
    BY <1>11, <2>1 DEF request_approval, Stops, Throw, turn, books
  <2>2. CASE options.on_tool_approval /\ ~aborted
    BY <1>11, <2>2 DEF request_approval, Stays, Approves, CallPhases, Working, turn, books
  <2> QED BY <2>1, <2>2
<1>12. CASE Execute
  BY <1>12 DEF Execute, Stays, Approves, CallPhases, Working, turn, books, caller
<1>13. CASE ExecuteSucceeds
  <2>1. Passes("ok")
    BY <1>13 DEF ExecuteSucceeds, Fed, Passes, Working, books, caller
  <2> QED BY <2>1, <1>3
<1>14. CASE ExecuteFails
  <2>1. CASE aborted
    BY <1>14, <2>1 DEF ExecuteFails, Throw, Stops, books, caller
  <2>2. CASE ~aborted
    <3>1. /\ FailedCall("error") /\ phase \in Working
          /\ UNCHANGED <<options, step_index, steps, messages, made, terminal_fired, asked, granted, ran>>
      BY <1>14, <2>2 DEF ExecuteFails, Working, books, caller
    <3> QED BY <3>1, <1>2, <1>3
  <2> QED BY <2>1, <2>2
<1>15. CASE Denies
  <2>1. /\ FailedCall("denied") /\ phase \in Working
        /\ UNCHANGED <<options, step_index, steps, messages, made, terminal_fired, asked, granted, ran>>
    BY <1>15 DEF Denies, Working, books, caller
  <2> QED BY <2>1, <1>2, <1>3
<1>16. CASE InvokeFails
  BY <1>16 DEF InvokeFails, Throw, Stops, turn, books, caller
<1>17. CASE Parses
  BY <1>17 DEF Parses, Throw, Stops, turn, books, caller
<1>18. CASE Repair
  BY <1>18 DEF Repair, Throw, Stops, Repairs, turn, caller
<1>19. CASE Grants
  BY <1>19 DEF Grants, Stays, Approves, CallPhases, Working, turn, books
<1>20. CASE CallerThrows
  BY <1>20 DEF CallerThrows, Throw, Stops, turn, books, caller
<1>21. CASE CallerAborts
  <2>1. CASE phase = "asking"
    BY <1>21, <2>1 DEF CallerAborts, Throw, Stops, turn, books, caller
  <2>2. CASE phase \in CallPhases \ {"asking"}
    BY <1>21, <2>2 DEF CallerAborts, Stays, Approves, CallPhases, Working, turn, books, caller
  <2>3. CASE phase \in Resting
    BY <1>21, <2>3 DEF CallerAborts, Rests, Resting, turn, books, caller
  <2>4. phase \in Resting \/ phase \in CallPhases
    BY <1>21 DEF CallerAborts, ShapeInv, CallPhases, Resting
  <2> QED BY <2>1, <2>2, <2>3, <2>4
<1>22. Plain(<<Message("assistant", <<>>)>>) /\ Plain(<<Message("cut_off", <<>>)>>)
       /\ Plain(<<Message("assistant", <<>>), Message("cut_off", <<>>)>>)
       /\ <<Message("assistant", <<>>)>> \in Seq(MessageType)
       /\ <<Message("cut_off", <<>>)>> \in Seq(MessageType)
       /\ <<Message("assistant", <<>>), Message("cut_off", <<>>)>> \in Seq(MessageType)
  <2>1. <<>> \in Seq(Id)
    OBVIOUS
  <2>2. Message("assistant", <<>>) \in MessageType /\ Message("cut_off", <<>>) \in MessageType
    BY <2>1 DEF Message, MessageType, Kinds
  <2>3. /\ Message("assistant", <<>>).kind = "assistant" /\ Message("assistant", <<>>).ids = <<>>
        /\ Message("cut_off", <<>>).kind = "cut_off"
    BY DEF Message
  <2> QED BY <2>2, <2>3 DEF Plain
<1>23. messages \in Seq(MessageType)
  BY DEF ShapeInv
<1>24. CASE continue_paused_turn
  <2>1. Append(messages, Message("assistant", <<>>)) = messages \o <<Message("assistant", <<>>)>>
    BY <1>22, <1>23
  <2>2. Says(<<Message("assistant", <<>>)>>)
    BY <1>24, <2>1 DEF continue_paused_turn, Says, LoopEnds, caller
  <2> QED BY <2>2, <1>22
<1>25. ASSUME NEW t \in TurnResults, continue_truncated_turn(t) PROVE Goal
  <2>1. PICK text \in {<<>>, <<Message("assistant", <<>>)>>} :
          messages' = messages \o text \o <<Message("cut_off", <<>>)>>
    BY <1>25 DEF continue_truncated_turn
  <2>2. CASE text = <<>>
    <3>1. messages' = messages \o <<Message("cut_off", <<>>)>>
      BY <2>1, <2>2, <1>22, <1>23
    <3>2. Says(<<Message("cut_off", <<>>)>>)
      BY <1>25, <3>1 DEF continue_truncated_turn, Says, caller
    <3> QED BY <3>2, <1>22
  <2>3. CASE text = <<Message("assistant", <<>>)>>
    <3>1. messages' = messages \o <<Message("assistant", <<>>), Message("cut_off", <<>>)>>
      BY <2>1, <2>3, <1>22, <1>23
    <3>2. Says(<<Message("assistant", <<>>), Message("cut_off", <<>>)>>)
      BY <1>25, <3>1 DEF continue_truncated_turn, Says, caller
    <3> QED BY <3>2, <1>22
  <2> QED BY <2>1, <2>2, <2>3
<1>26. ASSUME NEW t \in TurnResults, AnswersInText(t) PROVE Goal
  <2>1. Append(messages, Message("assistant", <<>>)) = messages \o <<Message("assistant", <<>>)>>
    BY <1>22, <1>23
  <2>2. Says(<<Message("assistant", <<>>)>>)
    BY <1>26, <2>1 DEF AnswersInText, Says, LoopEnds, caller
  <2> QED BY <2>2, <1>22
<1> QED BY NextCases, <1>4, <1>5, <1>6, <1>7, <1>8, <1>9, <1>10, <1>11, <1>12, <1>13, <1>14, <1>15, <1>16, <1>17,
           <1>18, <1>19, <1>20, <1>21, <1>24, <1>25, <1>26

(* The step under way, the records and the turns go together.              *)
LEMMA NextPlace == ShapeInv /\ PlaceInv /\ [Next]_vars => PlaceInv'
<1> SUFFICES ASSUME ShapeInv, PlaceInv, [Next]_vars PROVE PlaceInv'
  OBVIOUS
<1>1. CASE UNCHANGED vars
  BY <1>1 DEF vars, turn, books, caller, PlaceInv, Kept, Calls, Counted, CallId
<1> SUFFICES ASSUME Next PROVE PlaceInv'
  BY <1>1
<1>2. /\ step_index \in Nat /\ steps \in Nat /\ options.max_steps \in Nat /\ next \in Nat
      /\ made \in Seq(CallLists(Names))
  BY ToolLoopAssumption DEF ShapeInv, CallOptions
<1>3. CASE Stops
  BY <1>3 DEF Stops, PlaceInv, Resting, CallPhases, Working
<1>4. CASE Stays
  <2>1. Kept(Calls)' = Kept(Calls) /\ CallId' = CallId /\ next' = next
    BY <1>4 DEF Stays, Kept, Calls, Counted, CallId
  <2>2. /\ steps' = step_index' /\ step_index' < options'.max_steps /\ Len(made') = steps' + 1
        /\ next' <= Kept(Calls)' + 1
    BY <1>4, <2>1 DEF Stays, PlaceInv
  <2>3. phase' \in Working => next' <= Kept(Calls)'
    <3>1. phase \in Working \/ InCall => next <= Kept(Calls)
      BY DEF PlaceInv, InCall
    <3>2. phase' = phase => (phase' \in Working => phase \in Working)
      OBVIOUS
    <3> QED BY <1>4, <2>1, <3>1, <3>2 DEF Stays
  <2>4. phase' = "asking" => CallId' \in asked'
    <3>1. phase = "asking" => CallId \in asked
      BY DEF PlaceInv
    <3> QED BY <1>4, <2>1, <3>1 DEF Stays, Approves
  <2>5. phase' \in CallPhases
    BY <1>4 DEF Stays
  <2> QED BY <2>2, <2>3, <2>4, <2>5 DEF PlaceInv, CallPhases, Working, Resting
<1>5. ASSUME NEW fate, Passes(fate) PROVE PlaceInv'
  <2>1. Kept(Calls)' = Kept(Calls) /\ next' = next + 1
    BY <1>5 DEF Passes, Kept, Calls, Counted
  <2>2. phase \in CallPhases
    BY <1>5 DEF Passes, InCall, CallPhases
  <2>3. steps' = step_index' /\ step_index' < options'.max_steps /\ Len(made') = steps' + 1
    BY <1>5, <2>2 DEF Passes, PlaceInv
  <2>4. Kept(Calls) \in Nat /\ next <= Kept(Calls)
    <3>1. next \in 1 .. Kept(Calls)
      BY <2>2, <1>5, CallFacts DEF Passes
    <3>2. Kept(Calls) \in 0 .. Len(Calls)
      BY <2>2, CallFacts
    <3> QED BY <3>1, <3>2
  <2>5. next' <= Kept(Calls)' + 1
    BY <2>1, <2>4, <1>2
  <2> QED BY <1>5, <2>3, <2>5 DEF Passes, PlaceInv, CallPhases, Working, Resting
<1>6. CASE Rests
  <2>1. phase' = phase \/ (phase = "turn" /\ phase' = "model" /\ step_index < options.max_steps)
    BY <1>6 DEF Rests
  <2>2. /\ step_index' = step_index /\ steps' = steps /\ made' = made /\ next' = next /\ feed' = feed
        /\ options' = options /\ phase \in Resting
    BY <1>6 DEF Rests
  <2> QED BY <2>1, <2>2 DEF PlaceInv, CallPhases, Working, Resting
<1>7. CASE Repairs
  BY <1>7 DEF Repairs, PlaceInv, CallPhases, Working, Resting
<1>8. ASSUME NEW extra, Says(extra) PROVE PlaceInv'
  <2>1. steps = step_index /\ Len(made) = steps /\ phase = "model"
    BY <1>8 DEF Says, PlaceInv, Resting
  <2>2. Len(made') = steps + 1
    BY <2>1, <1>2, <1>8 DEF Says
  <2>3. steps' = steps + 1 /\ next' = 1 /\ feed' = <<>>
    BY <1>8 DEF Says, StepRecorded
  <2>4. \/ phase' = "turn" /\ step_index' = step_index + 1
        \/ phase' \in {"parse", "done"} /\ step_index' = step_index
    BY <1>8 DEF Says, GoesOn
  <2> QED BY <2>1, <2>2, <2>3, <2>4 DEF PlaceInv, CallPhases, Working, Resting
<1>9. CASE StepEnds
  <2>1. phase = "call" /\ steps = step_index /\ Len(made) = steps + 1
    BY <1>9 DEF StepEnds, PlaceInv, CallPhases
  <2>2. steps' = steps + 1 /\ next' = 1 /\ feed' = <<>> /\ made' = made
    BY <1>9 DEF StepEnds, StepRecorded
  <2>3. \/ phase' = "turn" /\ step_index' = step_index + 1
        \/ phase' \in {"parse", "done"} /\ step_index' = step_index
    BY <1>9 DEF StepEnds, GoesOn, LoopEnds
  <2> QED BY <2>1, <2>2, <2>3 DEF PlaceInv, CallPhases, Working, Resting
<1>10. ASSUME NEW t \in TurnResults, AnswersWithCalls(t) PROVE PlaceInv'
  <2>1. steps = step_index /\ step_index < options.max_steps /\ Len(made) = steps
    BY <1>10 DEF AnswersWithCalls, PlaceInv, Resting
  <2>2. /\ made' = Append(made, ViewCalls(t)) /\ phase' = "call" /\ next' = 1
        /\ step_index' = step_index /\ steps' = steps /\ options' = options
    BY <1>10 DEF AnswersWithCalls, caller
  <2>3. Len(made') = steps' + 1
    BY <2>1, <2>2, <1>2
  <2>4. ShapeInv'
    BY NextShape
  <2>5. Kept(Calls)' \in Nat
    <3>1. Calls' = ViewCalls(t)
      BY <2>2, <1>2 DEF Calls
    <3>2. PICK m \in Nat : ViewCalls(t) \in [1 .. m -> Names]
      BY TurnFacts, ToolLoopAssumption DEF CallLists
    <3>3. Len(ViewCalls(t)) \in Nat
      BY <3>2
    <3>4. Kept(ViewCalls(t)) \in Nat
      BY <3>3, KeptIsPart
    <3>5. Kept(Calls)' = Kept(ViewCalls(t))
      BY <3>1, <2>2 DEF Kept, Counted
    <3> QED BY <3>4, <3>5
  <2>6. next' <= Kept(Calls)' + 1
    BY <2>2, <2>5
  <2> QED BY <2>1, <2>2, <2>3, <2>6 DEF PlaceInv, CallPhases, Working, Resting
<1> QED BY StepKinds, <1>3, <1>4, <1>5, <1>6, <1>7, <1>8, <1>9, <1>10

----------------------------------------------------------------------------
(* The history.                                                            *)

(* Messages that neither make nor answer a call leave a history as it was. *)
LEMMA AnsweredGrows ==
  ASSUME NEW m \in Seq(MessageType), NEW extra \in Seq(MessageType), Plain(extra), AnsweredUpTo(m, Len(m))
  PROVE  AnsweredUpTo(m \o extra, Len(m \o extra))
<1> DEFINE all == m \o extra
<1>1. Len(all) = Len(m) + Len(extra) /\ Len(m) \in Nat /\ Len(extra) \in Nat
  OBVIOUS
<1>2. \A i \in 1 .. Len(m) : all[i] = m[i] /\ m[i] \in MessageType
  OBVIOUS
<1>3. ASSUME NEW i \in 1 .. Len(all), i \notin 1 .. Len(m)
      PROVE  all[i].kind # "tool" /\ (all[i].kind = "assistant" => all[i].ids = <<>>)
  <2>1. i - Len(m) \in 1 .. Len(extra)
    BY <1>1, <1>3
  <2>2. all[i] = extra[i - Len(m)]
    BY <1>1, <1>3, <2>1
  <2> QED BY <2>1, <2>2 DEF Plain
<1> HIDE DEF all
<1>4. ASSUME NEW i \in 1 .. Len(all), all[i].kind = "assistant", NEW j \in 1 .. Len(all[i].ids)
      PROVE  i + j <= Len(all) /\ all[i + j] = Message("tool", <<all[i].ids[j]>>)
  <2>1. i \in 1 .. Len(m)
    <3>1. i \notin 1 .. Len(m) => all[i].ids = <<>>
      BY <1>3, <1>4
    <3> QED BY <3>1, <1>4
  <2>2. all[i] = m[i] /\ j \in Nat \ {0}
    BY <2>1, <1>2, <1>4 DEF MessageType
  <2>3. i + j <= Len(m) /\ m[i + j] = Message("tool", <<m[i].ids[j]>>)
    BY <2>1, <2>2, <1>4 DEF AnsweredUpTo
  <2>4. i + j \in 1 .. Len(m)
    BY <2>1, <2>2, <2>3
  <2> QED BY <2>2, <2>3, <2>4, <1>1, <1>2
<1>5. ASSUME NEW k \in 1 .. Len(all), all[k].kind = "tool"
      PROVE  \E i \in 1 .. k - 1 : all[i].kind = "assistant" /\ k - i <= Len(all[i].ids)
                                  /\ all[k].ids = <<all[i].ids[k - i]>>
  <2>1. k \in 1 .. Len(m)
    BY <1>3, <1>5
  <2>2. PICK i \in 1 .. k - 1 : m[i].kind = "assistant" /\ k - i <= Len(m[i].ids)
                               /\ m[k].ids = <<m[i].ids[k - i]>>
    BY <2>1, <1>2, <1>5 DEF AnsweredUpTo
  <2>3. i \in 1 .. Len(m)
    BY <2>1, <2>2, <1>1
  <2> QED BY <2>1, <2>2, <2>3, <1>2
<1> QED BY <1>4, <1>5 DEF AnsweredUpTo, all

(* The results of all its calls, in order, answer the last message.        *)
LEMMA ResultsAnswer ==
  ASSUME NEW m \in Seq(MessageType), NEW results \in Seq(MessageType), NEW ids \in Seq(Id),
         m # <<>>, m[Len(m)] = Message("assistant", ids), AnsweredUpTo(m, Len(m) - 1),
         Len(results) = Len(ids), \A n \in 1 .. Len(ids) : results[n] = Message("tool", <<ids[n]>>)
  PROVE  AnsweredUpTo(m \o results, Len(m \o results))
<1> DEFINE all == m \o results
           last == Len(m)
<1>1. Len(all) = last + Len(ids) /\ last \in Nat \ {0} /\ Len(ids) \in Nat
  OBVIOUS
<1>2. \A i \in 1 .. last : all[i] = m[i] /\ m[i] \in MessageType
  OBVIOUS
<1>3. \A n \in 1 .. Len(ids) : all[last + n] = Message("tool", <<ids[n]>>)
  OBVIOUS
<1>4. ASSUME NEW i \in 1 .. Len(all), i > last PROVE all[i] = Message("tool", <<ids[i - last]>>) /\ i - last \in 1 .. Len(ids)
  <2>1. i - last \in 1 .. Len(ids) /\ last + (i - last) = i
    BY <1>1, <1>4
  <2> HIDE DEF all, last
  <2> QED BY <2>1, <1>3
<1>5. all[last] = Message("assistant", ids)
  BY <1>1, <1>2
<1>6. AnsweredUpTo(m, last - 1)
  OBVIOUS
<1> HIDE DEF all, last
<1>7. ASSUME NEW i \in 1 .. Len(all), all[i].kind = "assistant", NEW j \in 1 .. Len(all[i].ids)
      PROVE  i + j <= Len(all) /\ all[i + j] = Message("tool", <<all[i].ids[j]>>)
  <2>1. i <= last
    BY <1>1, <1>4, <1>7 DEF Message
  <2>2. CASE i = last
    <3>1. all[i].ids = ids
      BY <2>2, <1>5 DEF Message
    <3> QED BY <3>1, <2>2, <1>1, <1>3
  <2>3. CASE i < last
    <3>1. all[i] = m[i] /\ j \in Nat \ {0} /\ i \in 1 .. last - 1
      BY <2>3, <1>1, <1>2, <1>7, SMTT(20) DEF MessageType
    <3>2. i + j <= last - 1 /\ m[i + j] = Message("tool", <<m[i].ids[j]>>)
      BY <3>1, <1>6, <1>7 DEF AnsweredUpTo
    <3>3. i + j \in 1 .. last
      BY <3>1, <3>2, <1>1
    <3> QED BY <3>1, <3>2, <3>3, <1>1, <1>2
  <2> QED BY <2>1, <2>2, <2>3, <1>1
<1>8. ASSUME NEW k \in 1 .. Len(all), all[k].kind = "tool"
      PROVE  \E i \in 1 .. k - 1 : all[i].kind = "assistant" /\ k - i <= Len(all[i].ids)
                                  /\ all[k].ids = <<all[i].ids[k - i]>>
  <2>1. k # last
    BY <1>5, <1>8 DEF Message
  <2>2. CASE k > last
    <3>1. all[k].ids = <<ids[k - last]>> /\ k - last \in 1 .. Len(ids)
      <4>1. all[k] = Message("tool", <<ids[k - last]>>) /\ k - last \in 1 .. Len(ids)
        BY <2>2, <1>4
      <4> QED BY <4>1 DEF Message
    <3>2. all[last].kind = "assistant" /\ all[last].ids = ids
      BY <1>5 DEF Message
    <3>3. last \in 1 .. k - 1 /\ k - last <= Len(ids)
      BY <2>2, <1>1, <3>1
    <3> QED BY <3>1, <3>2, <3>3
  <2>3. CASE k < last
    <3>1. k \in 1 .. last - 1 /\ all[k] = m[k]
      BY <2>3, <1>1, <1>2
    <3>2. PICK i \in 1 .. k - 1 : m[i].kind = "assistant" /\ k - i <= Len(m[i].ids)
                                 /\ m[k].ids = <<m[i].ids[k - i]>>
      BY <3>1, <1>6, <1>8 DEF AnsweredUpTo
    <3>3. all[i] = m[i]
      BY <3>1, <3>2, <1>1, <1>2
    <3> QED BY <3>1, <3>2, <3>3
  <2> QED BY <2>1, <2>2, <2>3, <1>1
<1> QED BY <1>7, <1>8 DEF AnsweredUpTo, all

LEMMA NextHistory == ShapeInv /\ PlaceInv /\ HistoryInv /\ [Next]_vars => HistoryInv'
<1> SUFFICES ASSUME ShapeInv, PlaceInv, HistoryInv, [Next]_vars PROVE HistoryInv'
  OBVIOUS
<1>1. CASE UNCHANGED vars
  BY <1>1 DEF vars, turn, books, caller, HistoryInv, AnsweredUpTo, GoesOnFrom, Kept, Calls, Counted, would_exceed_after
<1> SUFFICES ASSUME Next PROVE HistoryInv'
  BY <1>1
<1>2. /\ step_index \in Nat /\ steps \in Nat /\ options.max_steps \in Nat /\ next \in Nat
      /\ made \in Seq(CallLists(Names)) /\ messages \in Seq(MessageType) /\ feed \in Seq(Id)
  BY ToolLoopAssumption DEF ShapeInv, CallOptions
<1>3. ShapeInv' /\ PlaceInv'
  BY NextShape, NextPlace
<1>4. CASE Stops
  BY <1>4 DEF Stops, HistoryInv, GoesOnFrom, CallPhases, Working
<1>5. CASE Stays
  <2>1. Kept(Calls)' = Kept(Calls) /\ next' = next /\ step_index' = step_index /\ messages' = messages
        /\ feed' = feed /\ would_exceed_after' = would_exceed_after
    BY <1>5 DEF Stays, Kept, Calls, Counted, would_exceed_after
  <2>2. phase \in CallPhases /\ phase' \in CallPhases
    BY <1>5 DEF Stays
  <2>3. ~GoesOnFrom'
    BY <2>2 DEF GoesOnFrom, CallPhases, Working
  <2> QED BY <2>1, <2>2, <2>3 DEF HistoryInv, AnsweredUpTo
<1>6. ASSUME NEW fate, Passes(fate) PROVE HistoryInv'
  <2>1. Kept(Calls)' = Kept(Calls) /\ next' = next + 1 /\ step_index' = step_index /\ messages' = messages
        /\ would_exceed_after' = would_exceed_after /\ phase' = "call"
    BY <1>6 DEF Passes, Kept, Calls, Counted, would_exceed_after
  <2>2. phase \in CallPhases
    BY <1>6 DEF Passes, InCall, CallPhases
  <2>3. would_exceed_after \/ feed' = IdsOf(step_index, 1, next)
    <3>1. SUFFICES ASSUME ~would_exceed_after PROVE feed' = IdsOf(step_index, 1, next)
      OBVIOUS
    <3>2. feed = IdsOf(step_index, 1, next - 1) /\ feed' = Append(feed, CallId)
      BY <3>1, <2>2, <1>6 DEF HistoryInv, Passes
    <3>3. next \in 1 .. Kept(Calls) + 1
      BY <2>2, CallFacts
    <3>4. next \in Nat \ {0}
      BY <3>3, <1>2
    <3>5. /\ Len(feed) = next - 1 /\ \A n \in 1 .. next - 1 : feed[n] = <<step_index, n>>
      <4>1. next - 1 \in Nat
        BY <3>4
      <4>2. feed = [n \in 1 .. next - 1 |-> <<step_index, n>>]
        BY <3>2, <4>1, FirstIds
      <4> QED BY <4>1, <4>2
    <3>6. /\ Len(feed') = next /\ \A n \in 1 .. next : feed'[n] = <<step_index, n>>
      <4>1. Len(feed') = next
        BY <3>2, <3>4, <3>5, <1>2
      <4>2. ASSUME NEW n \in 1 .. next PROVE feed'[n] = <<step_index, n>>
        <5>1. CASE n = next
          BY <5>1, <3>2, <3>4, <3>5, <1>2 DEF CallId
        <5>2. CASE n # next
          <6>1. n \in 1 .. next - 1
            BY <5>2, <3>4
          <6>2. feed'[n] = feed[n]
            BY <6>1, <3>2, <3>5, <1>2
          <6> QED BY <6>1, <6>2, <3>5
        <5> QED BY <5>1, <5>2
      <4> QED BY <4>1, <4>2
    <3>7. feed' \in Seq(Id)
      BY <1>3, <1>6 DEF ShapeInv, Passes, Id
    <3>8. feed' = [n \in 1 .. Len(feed') |-> feed'[n]]
      BY <3>7
    <3>9. feed' = [n \in 1 .. next |-> <<step_index, n>>]
      BY <3>6, <3>8
    <3> QED BY <3>4, <3>9, FirstIds
  <2>4. next' - 1 = next
    BY <2>1, <1>2
  <2> QED BY <2>1, <2>2, <2>3, <2>4 DEF HistoryInv, GoesOnFrom, AnsweredUpTo, CallPhases
<1>7. CASE Rests
  <2>1. messages' = messages /\ steps' = steps /\ options' = options
    BY <1>7 DEF Rests
  <2>2. GoesOnFrom' => GoesOnFrom
    BY <1>7, <2>1 DEF Rests, GoesOnFrom
  <2>3. phase' \notin CallPhases
    BY <1>7 DEF Rests, Resting, CallPhases, Working
  <2> QED BY <2>1, <2>2, <2>3 DEF HistoryInv, AnsweredUpTo
<1>8. CASE Repairs
  <2>1. GoesOnFrom /\ phase' = "turn"
    BY <1>8 DEF Repairs, GoesOnFrom
  <2> DEFINE extra == <<Message("repair", <<>>)>>
  <2>2. Message("repair", <<>>) \in MessageType
    <3>1. <<>> \in Seq(Id)
      OBVIOUS
    <3> QED BY <3>1 DEF Message, MessageType, Kinds
  <2>3. extra \in Seq(MessageType) /\ Plain(extra)
    <3>1. Message("repair", <<>>).kind = "repair"
      BY DEF Message
    <3> QED BY <2>2, <3>1 DEF Plain
  <2>6. messages' = messages \o extra
    BY <1>8, <1>2, <2>2, AppendIsConcat DEF Repairs
  <2>4. AnsweredUpTo(messages, Len(messages))
    BY <2>1 DEF HistoryInv
  <2>5. AnsweredUpTo(messages', Len(messages'))
    <3> HIDE DEF extra
    <3> QED BY <2>3, <2>4, <2>6, <1>2, AnsweredGrows
  <2> QED BY <2>1, <2>5 DEF HistoryInv, AnsweredUpTo, CallPhases, Working
<1>9. ASSUME NEW extra \in Seq(MessageType), Plain(extra), Says(extra) PROVE HistoryInv'
  <2>1. AnsweredUpTo(messages, Len(messages)) /\ messages' = messages \o extra
    BY <1>9 DEF Says, HistoryInv, GoesOnFrom
  <2>2. AnsweredUpTo(messages', Len(messages'))
    BY <2>1, <1>2, <1>9, AnsweredGrows
  <2>3. phase' \notin CallPhases
    BY <1>9 DEF Says, GoesOn, CallPhases, Working
  <2> QED BY <2>2, <2>3 DEF HistoryInv, AnsweredUpTo
<1>10. CASE StepEnds
  <2>1. phase = "call" /\ phase \in CallPhases /\ next > Kept(Calls)
    BY <1>10 DEF StepEnds, CallPhases
  <2>2. phase' \notin CallPhases
    BY <1>10 DEF StepEnds, GoesOn, LoopEnds, CallPhases, Working
  <2>3. SUFFICES ASSUME GoesOnFrom' PROVE AnsweredUpTo(messages', Len(messages'))
    BY <2>2 DEF HistoryInv, AnsweredUpTo
  <2>4. ~would_exceed_after
    <3>1. SUFFICES ASSUME would_exceed_after PROVE FALSE
      OBVIOUS
    <3>2. steps' = steps + 1 /\ steps = step_index /\ options' = options
      BY <1>10, <2>1 DEF StepEnds, StepRecorded, PlaceInv, caller
    <3>3. steps' >= options'.max_steps
      BY <3>1, <3>2 DEF would_exceed_after
    <3>4. phase' \in {"parse", "done"}
      BY <1>10, <3>1 DEF StepEnds, LoopEnds
    <3>5. ~(steps' < options'.max_steps)
      BY <3>2, <3>3, <1>2
    <3> QED BY <2>3, <3>4, <3>5 DEF GoesOnFrom
  <2>5. Kept(Calls) \in Nat /\ next = Kept(Calls) + 1
    <3>1. next \in 1 .. Kept(Calls) + 1 /\ Kept(Calls) \in 0 .. Len(Calls)
      BY <2>1, CallFacts
    <3> QED BY <3>1, <2>1
  <2>6. feed = IdsOf(step_index, 1, Kept(Calls))
    <3>1. next - 1 = Kept(Calls)
      BY <2>5
    <3> QED BY <3>1, <2>1, <2>4 DEF HistoryInv
  <2>7. messages # <<>> /\ messages[Len(messages)] = Message("assistant", feed) /\ AnsweredUpTo(messages, Len(messages) - 1)
    BY <2>1, <2>6 DEF HistoryInv
  <2>8. /\ ToolMessages \in Seq(MessageType) /\ Len(ToolMessages) = Len(feed)
        /\ \A n \in 1 .. Len(feed) : ToolMessages[n] = Message("tool", <<feed[n]>>)
    <3>1. ASSUME NEW n \in 1 .. Len(feed) PROVE Message("tool", <<feed[n]>>) \in MessageType
      <4>1. <<feed[n]>> \in Seq(Id)
        BY <1>2, <3>1
      <4> QED BY <4>1 DEF Message, MessageType, Kinds
    <3>2. Len(feed) \in Nat
      BY <1>2
    <3> QED BY <3>1, <3>2 DEF ToolMessages
  <2>9. AnsweredUpTo(messages \o ToolMessages, Len(messages \o ToolMessages))
    <3> HIDE DEF ToolMessages
    <3> QED BY <2>7, <2>8, <1>2, ResultsAnswer
  <2>10. Notice \in Seq(MessageType) /\ Plain(Notice)
    <3>1. phase \in CallPhases /\ step_index \in 0 .. options.max_steps - 1
          /\ Len(Calls) \in 0 .. MaxCalls /\ Kept(Calls) \in 0 .. Len(Calls) /\ MaxCalls \in Nat
      BY <2>1, CallFacts
    <3>2. Dropped \in Seq(Id)
      BY <3>1, IdsAreNames DEF Dropped
    <3>3. Message("notice", Dropped) \in MessageType /\ Message("notice", Dropped).kind = "notice"
      BY <3>2 DEF Message, MessageType, Kinds
    <3> QED BY <3>3 DEF Notice, Plain
  <2>11. messages \o ToolMessages \in Seq(MessageType)
    BY <2>8, <1>2, Concatenates
  <2>12. messages' = messages \o ToolMessages \/ messages' = (messages \o ToolMessages) \o Notice
    BY <1>10 DEF StepEnds
  <2> HIDE DEF ToolMessages, Notice
  <2> QED BY <2>9, <2>10, <2>11, <2>12, AnsweredGrows
<1>11. ASSUME NEW t \in TurnResults, AnswersWithCalls(t) PROVE HistoryInv'
  <2> DEFINE calls == ViewCalls(t)
             answer == Message("assistant", IdsOf(step_index, 1, Kept(calls)))
  <2>1. /\ made' = Append(made, calls) /\ phase = "model" /\ phase' = "call" /\ next' = 1 /\ feed' = <<>>
        /\ step_index' = step_index /\ options' = options /\ messages' = Append(messages, answer)
    BY <1>11 DEF AnswersWithCalls, caller
  <2>2. AnsweredUpTo(messages, Len(messages))
    BY <2>1 DEF HistoryInv, GoesOnFrom
  <2>3. Calls' = calls
    BY <2>1, <1>2 DEF Calls
  <2>4. Kept(Calls)' = Kept(calls)
    BY <2>1, <2>3 DEF Kept, Counted
  <2>5. IdsOf(step_index', 1, 0) = <<>>
    BY DEF IdsOf
  <2>6. /\ messages' # <<>> /\ Len(messages') = Len(messages) + 1 /\ messages'[Len(messages')] = answer
        /\ \A i \in 1 .. Len(messages) : messages'[i] = messages[i]
    <3> HIDE DEF answer
    <3> QED BY <2>1, <1>2
  <2>7. Len(messages') - 1 = Len(messages) /\ Len(messages) \in Nat
    BY <2>6, <1>2
  <2>8. AnsweredUpTo(messages', Len(messages))
    <3> HIDE DEF answer, calls
    <3>1. ASSUME NEW i \in 1 .. Len(messages), messages'[i].kind = "assistant", NEW j \in 1 .. Len(messages'[i].ids)
          PROVE  i + j <= Len(messages) /\ messages'[i + j] = Message("tool", <<messages'[i].ids[j]>>)
      <4>1. messages'[i] = messages[i] /\ messages[i] \in MessageType
        BY <2>6, <1>2
      <4>2. j \in Nat \ {0}
        BY <3>1, <4>1 DEF MessageType
      <4>3. i + j <= Len(messages) /\ messages[i + j] = Message("tool", <<messages[i].ids[j]>>)
        BY <3>1, <4>1, <2>2 DEF AnsweredUpTo
      <4>4. i + j \in 1 .. Len(messages)
        BY <4>2, <4>3, <2>7
      <4> QED BY <4>1, <4>3, <4>4, <2>6
    <3>2. ASSUME NEW k \in 1 .. Len(messages), messages'[k].kind = "tool"
          PROVE  \E i \in 1 .. k - 1 : messages'[i].kind = "assistant" /\ k - i <= Len(messages'[i].ids)
                                      /\ messages'[k].ids = <<messages'[i].ids[k - i]>>
      <4>1. messages'[k] = messages[k]
        BY <2>6
      <4>2. PICK i \in 1 .. k - 1 : messages[i].kind = "assistant" /\ k - i <= Len(messages[i].ids)
                                   /\ messages[k].ids = <<messages[i].ids[k - i]>>
        BY <3>2, <4>1, <2>2 DEF AnsweredUpTo
      <4>3. messages'[i] = messages[i]
        BY <4>2, <2>6, <2>7
      <4> QED BY <4>1, <4>2, <4>3
    <3> QED BY <3>1, <3>2 DEF AnsweredUpTo
  <2>9. ~GoesOnFrom'
    BY <2>1 DEF GoesOnFrom
  <2>10. feed' = IdsOf(step_index', 1, next' - 1)
    BY <2>1, <2>5
  <2>11. messages'[Len(messages')] = Message("assistant", IdsOf(step_index', 1, Kept(Calls)'))
    BY <2>1, <2>4, <2>6
  <2>12. AnsweredUpTo(messages', Len(messages') - 1)
    BY <2>7, <2>8
  <2> HIDE DEF answer, calls
  <2> QED BY <2>6, <2>9, <2>10, <2>11, <2>12 DEF HistoryInv, AnsweredUpTo
<1> QED BY StepKinds, <1>4, <1>5, <1>6, <1>7, <1>8, <1>9, <1>10, <1>11

----------------------------------------------------------------------------
(* What the model is told.                                                 *)

LEMMA FateFacts ==
  \A id, fate : fate \in FateOf(id) <=> \E r \in 1 .. Len(all_records) : all_records[r].id = id /\ all_records[r].fate = fate
BY DEF FateOf

(* Records are added at the end, and none is taken back.                   *)
LEMMA FatesGrow ==
  ASSUME all_records \in Seq(RecordType), NEW extra \in Seq(RecordType), all_records' = all_records \o extra
  PROVE  /\ \A id : FateOf(id) \subseteq FateOf(id)'
         /\ \A id : \A fate \in FateOf(id)' :
              fate \in FateOf(id) \/ \E k \in 1 .. Len(extra) : extra[k].id = id /\ extra[k].fate = fate
         /\ \A k \in 1 .. Len(extra) : extra[k].fate \in FateOf(extra[k].id)'
<1>1. /\ Len(all_records') = Len(all_records) + Len(extra) /\ Len(all_records) \in Nat /\ Len(extra) \in Nat
      /\ \A r \in 1 .. Len(all_records) : all_records'[r] = all_records[r]
      /\ \A k \in 1 .. Len(extra) : all_records'[Len(all_records) + k] = extra[k]
  BY ConcatFacts
<1>2. \A id, fate : fate \in FateOf(id)' <=>
        \E r \in 1 .. Len(all_records') : all_records'[r].id = id /\ all_records'[r].fate = fate
  BY DEF FateOf
<1>3. ASSUME NEW id, NEW fate \in FateOf(id) PROVE fate \in FateOf(id)'
  <2>1. PICK r \in 1 .. Len(all_records) : all_records[r].id = id /\ all_records[r].fate = fate
    BY <1>3, FateFacts
  <2>2. r \in 1 .. Len(all_records') /\ all_records'[r].id = id /\ all_records'[r].fate = fate
    BY <2>1, <1>1
  <2> QED BY <2>2, <1>2
<1>4. ASSUME NEW id, NEW fate \in FateOf(id)'
      PROVE  fate \in FateOf(id) \/ \E k \in 1 .. Len(extra) : extra[k].id = id /\ extra[k].fate = fate
  <2>1. PICK r \in 1 .. Len(all_records') : all_records'[r].id = id /\ all_records'[r].fate = fate
    BY <1>4, <1>2
  <2>2. CASE r <= Len(all_records)
    <3>1. r \in 1 .. Len(all_records) /\ all_records[r].id = id /\ all_records[r].fate = fate
      BY <2>1, <2>2, <1>1
    <3> QED BY <3>1, FateFacts
  <2>3. CASE ~(r <= Len(all_records))
    <3>1. r - Len(all_records) \in 1 .. Len(extra) /\ Len(all_records) + (r - Len(all_records)) = r
      BY <2>1, <2>3, <1>1
    <3>2. extra[r - Len(all_records)].id = id /\ extra[r - Len(all_records)].fate = fate
      BY <3>1, <2>1, <1>1
    <3> QED BY <3>1, <3>2
  <2> QED BY <2>2, <2>3
<1>5. ASSUME NEW k \in 1 .. Len(extra) PROVE extra[k].fate \in FateOf(extra[k].id)'
  <2>1. Len(all_records) + k \in 1 .. Len(all_records')
    BY <1>1
  <2>2. all_records'[Len(all_records) + k] = extra[k]
    BY <1>1
  <2> QED BY <2>1, <2>2, <1>2
<1> QED BY <1>3, <1>4, <1>5

(* Who was told stays told.                                                *)
LEMMA ToldStays ==
  ASSUME DroppedAreTold, Len(messages) \in Nat, Len(messages') \in Nat, Len(messages) <= Len(messages'),
         \A k \in 1 .. Len(messages) : messages'[k] = messages[k],
         \A id : FateOf(id) \subseteq FateOf(id)',
         NEW s \in 1 .. Len(made), made'[s] = made[s], NEW n \in 1 .. Len(made[s]), WasDropped(s, n)
  PROVE  Named(<<s - 1, n>>)' \/ EndedByTool(s)'
<1>1. CASE Named(<<s - 1, n>>)
  <2>1. PICK k \in 1 .. Len(messages) :
          messages[k].kind = "notice" /\ \E j \in 1 .. Len(messages[k].ids) : messages[k].ids[j] = <<s - 1, n>>
    BY <1>1 DEF Named
  <2>2. k \in 1 .. Len(messages') /\ messages'[k] = messages[k]
    BY <2>1
  <2> QED BY <2>1, <2>2 DEF Named
<1>2. CASE EndedByTool(s)
  BY <1>2 DEF EndedByTool
<1> QED BY <1>1, <1>2 DEF DroppedAreTold

LEMMA EndedStays ==
  ASSUME NEW s, EndedByTool(s), made'[s] = made[s], \A id : FateOf(id) \subseteq FateOf(id)'
  PROVE  EndedByTool(s)'
BY DEF EndedByTool

LEMMA ToldAsBefore ==
  ASSUME UNCHANGED <<made, messages, all_records>>
  PROVE  (DroppedAreTold' <=> DroppedAreTold) /\ \A s : EndedByTool(s)' <=> EndedByTool(s)
<1>1. \A id : FateOf(id)' = FateOf(id)
  BY DEF FateOf
<1>2. /\ \A s : EndedByTool(s)' <=> EndedByTool(s)
      /\ \A id : Named(id)' <=> Named(id)
      /\ \A s, n : WasDropped(s, n)' <=> WasDropped(s, n)
  BY <1>1 DEF EndedByTool, Named, WasDropped
<1> QED BY <1>2 DEF DroppedAreTold

(* A call of a step that is not over was not dropped.                      *)
LEMMA DroppedAreOver ==
  ASSUME DropInv, NEW s, NEW n, WasDropped(s, n)
  PROVE  s - 1 < steps
<1>1. PICK r \in 1 .. Len(all_records) :
        all_records[r].id = <<s - 1, n>> /\ all_records[r].fate = "dropped_max_tool_calls_per_step"
  BY FateFacts DEF WasDropped
<1>2. all_records[r].id[1] < steps
  BY <1>1 DEF DropInv
<1> QED BY <1>1, <1>2

LEMMA NextDrop == ShapeInv /\ PlaceInv /\ DropInv /\ [Next]_vars => DropInv'
<1> SUFFICES ASSUME ShapeInv, PlaceInv, DropInv, [Next]_vars PROVE DropInv'
  OBVIOUS
<1> DEFINE OnlyOver == \A r \in 1 .. Len(all_records) :
             all_records[r].fate = "dropped_max_tool_calls_per_step" => all_records[r].id[1] < steps
           Ended == phase \in CallPhases /\ terminal_fired => EndedByTool(Len(made))
           Told == GoesOnFrom \/ phase \in CallPhases => DroppedAreTold
<1>1. CASE UNCHANGED vars
  <2>1. /\ UNCHANGED <<made, messages, all_records>> /\ phase' = phase /\ steps' = steps
        /\ options' = options /\ (terminal_fired' <=> terminal_fired)
    BY <1>1 DEF vars, turn, books, caller
  <2> QED BY <2>1, ToldAsBefore DEF DropInv, GoesOnFrom
<1> SUFFICES ASSUME Next PROVE DropInv'
  BY <1>1
<1>2. /\ step_index \in Nat /\ steps \in Nat /\ options.max_steps \in Nat /\ next \in Nat
      /\ made \in Seq(CallLists(Names)) /\ messages \in Seq(MessageType) /\ all_records \in Seq(RecordType)
  BY ToolLoopAssumption DEF ShapeInv, CallOptions
<1>3. OnlyOver /\ Ended /\ Told
  BY DEF DropInv
<1>4. ASSUME OnlyOver', Ended', Told' PROVE DropInv'
  BY <1>4 DEF DropInv
<1>5. ASSUME all_records' = all_records PROVE \A id : FateOf(id)' = FateOf(id)
  BY <1>5 DEF FateOf
<1>6. ASSUME all_records' = all_records, steps' = steps \/ steps' = steps + 1 PROVE OnlyOver'
  <2>1. SUFFICES ASSUME NEW r \in 1 .. Len(all_records), all_records[r].fate = "dropped_max_tool_calls_per_step"
                 PROVE  all_records[r].id[1] < steps'
    BY <1>6
  <2>2. all_records[r].id \in Id
    <3>1. all_records[r] \in RecordType
      BY <1>2, <2>1
    <3> QED BY <3>1 DEF RecordType
  <2>3. all_records[r].id[1] < steps /\ all_records[r].id[1] \in Int
    BY <1>2, <1>3, <2>1, <2>2 DEF Id
  <2> QED BY <1>2, <1>6, <2>3
<1>7. CASE Stops
  <2>1. OnlyOver'
    BY <1>6, <1>7 DEF Stops
  <2>2. phase' = "done"
    BY <1>7 DEF Stops
  <2> QED BY <1>4, <2>1, <2>2 DEF GoesOnFrom, CallPhases, Working
<1>8. CASE Stays
  <2>1. /\ UNCHANGED <<made, messages, all_records>> /\ steps' = steps /\ (terminal_fired' <=> terminal_fired)
        /\ phase \in CallPhases /\ phase' \in CallPhases
    BY <1>8 DEF Stays
  <2>2. DroppedAreTold
    BY <2>1, <1>3
  <2> QED BY <2>1, <2>2, ToldAsBefore DEF DropInv
<1>9. ASSUME NEW fate \in Fates \ {"dropped_max_tool_calls_per_step"}, Passes(fate) PROVE DropInv'
  <2>1. phase \in CallPhases /\ phase' = "call" /\ messages' = messages /\ made' = made /\ steps' = steps
    BY <1>9 DEF Passes, InCall, CallPhases
  <2>2. CallId \in Id /\ next \in 1 .. Kept(Calls) /\ Kept(Calls) \in 0 .. Len(Calls) /\ Len(Calls) \in Nat
        /\ Len(made) = step_index + 1
    BY <2>1, <1>9, CallFacts DEF Passes
  <2>3. PICK me \in Id : me = CallId
    BY <2>2
  <2>4. PICK record \in RecordType : record.id = me /\ record.fate = fate /\ all_records' = Append(all_records, record)
    <3>1. [id |-> me, fate |-> fate] \in RecordType
      BY DEF RecordType
    <3> QED BY <3>1, <2>3, <1>9 DEF Passes, Record
  <2>5. /\ <<record>> \in Seq(RecordType) /\ all_records' = all_records \o <<record>>
        /\ 1 .. Len(<<record>>) = {1} /\ <<record>>[1] = record
    BY <2>4, <1>2, AppendIsConcat
  <2>6. /\ \A id : FateOf(id) \subseteq FateOf(id)'
        /\ \A id : \A f \in FateOf(id)' : f \in FateOf(id) \/ f = fate
        /\ fate \in FateOf(me)'
    <3>1. /\ \A id : FateOf(id) \subseteq FateOf(id)'
          /\ \A id : \A f \in FateOf(id)' :
               f \in FateOf(id) \/ \E k \in 1 .. Len(<<record>>) : <<record>>[k].id = id /\ <<record>>[k].fate = f
          /\ \A k \in 1 .. Len(<<record>>) : <<record>>[k].fate \in FateOf(<<record>>[k].id)'
      BY <1>2, <2>5, FatesGrow
    <3> QED BY <2>4, <2>5, <3>1
  <2>7. OnlyOver'
    <3>1. SUFFICES ASSUME NEW r \in 1 .. Len(all_records'), all_records'[r].fate = "dropped_max_tool_calls_per_step"
                   PROVE  all_records'[r].id[1] < steps
      BY <2>1
    <3>2. /\ Len(all_records') = Len(all_records) + 1 /\ all_records'[Len(all_records) + 1] = record
          /\ \A x \in 1 .. Len(all_records) : all_records'[x] = all_records[x]
      BY <1>2, <2>4
    <3>3. r # Len(all_records) + 1
      BY <3>1, <3>2, <2>4, <1>9
    <3>4. r \in 1 .. Len(all_records)
      BY <3>1, <3>2, <3>3, <1>2
    <3> QED BY <3>1, <3>2, <3>4, <1>3
  <2>8. Ended'
    <3>1. SUFFICES ASSUME terminal_fired' PROVE EndedByTool(Len(made))'
      OBVIOUS
    <3>2. CASE terminal_fired
      <4>1. EndedByTool(Len(made))
        BY <3>2, <2>1, <1>3
      <4> QED BY <4>1, <2>1, <2>6 DEF EndedByTool
    <3>3. CASE Call \in EndsTurn /\ fate = "ok"
      <4>1. PICK n \in 1 .. Len(Calls), s \in 1 .. Len(made) :
              Calls[n] \in EndsTurn /\ me = <<s - 1, n>> /\ s = Len(made)
        <5>1. next \in 1 .. Len(Calls) /\ me = <<Len(made) - 1, next>> /\ Len(made) \in 1 .. Len(made)
          BY <2>2, <2>3, <1>2 DEF CallId
        <5> QED BY <3>3, <5>1 DEF Call
      <4>2. made'[s] = Calls /\ Len(made') = s
        BY <4>1, <2>1 DEF Calls
      <4>3. "ok" \in FateOf(<<s - 1, n>>)'
        BY <3>3, <4>1, <2>6
      <4>4. EndedByTool(s)'
        BY <4>1, <4>2, <4>3 DEF EndedByTool
      <4> QED BY <4>2, <4>4 DEF EndedByTool
    <3> QED BY <3>1, <3>2, <3>3, <1>9 DEF Passes
  <2>9. Told'
    <3>1. DroppedAreTold
      BY <2>1, <1>3
    <3>2. ASSUME NEW s \in 1 .. Len(made), NEW n \in 1 .. Len(made[s]), WasDropped(s, n)'
          PROVE  WasDropped(s, n)
      BY <3>2, <2>6, <1>9 DEF WasDropped
    <3>3. ASSUME NEW s \in 1 .. Len(made), NEW n \in 1 .. Len(made[s]), WasDropped(s, n)'
          PROVE  Named(<<s - 1, n>>)' \/ EndedByTool(s)'
      <4>1. Len(messages) \in Nat /\ made'[s] = made[s]
        BY <1>2, <2>1
      <4> QED BY <4>1, <3>1, <3>2, <3>3, <2>1, <2>6, ToldStays
    <3> QED BY <3>3, <2>1 DEF DroppedAreTold
  <2> QED BY <1>4, <2>7, <2>8, <2>9
<1>10. CASE Rests
  <2>1. GoesOnFrom' => GoesOnFrom
    BY <1>10 DEF Rests, GoesOnFrom
  <2>2. phase' \notin CallPhases
    BY <1>10 DEF Rests, Resting, CallPhases, Working
  <2>3. UNCHANGED <<made, messages, all_records>> /\ steps' = steps
    BY <1>10 DEF Rests
  <2> QED BY <2>1, <2>2, <2>3, ToldAsBefore DEF DropInv
(* What messages and turns add at their ends. *)
<1>11. ASSUME NEW extra \in Seq(MessageType), messages' = messages \o extra
       PROVE  /\ Len(messages) \in Nat /\ Len(messages') \in Nat /\ Len(messages) <= Len(messages')
              /\ \A k \in 1 .. Len(messages) : messages'[k] = messages[k]
  BY <1>2, <1>11
<1>12. CASE Repairs
  <2>1. GoesOnFrom /\ phase' = "turn" /\ made' = made /\ all_records' = all_records /\ steps' = steps
    BY <1>12 DEF Repairs, GoesOnFrom
  <2>2. /\ Len(messages) \in Nat /\ Len(messages') \in Nat /\ Len(messages) <= Len(messages')
        /\ \A k \in 1 .. Len(messages) : messages'[k] = messages[k]
    <3>1. <<>> \in Seq(Id)
      OBVIOUS
    <3>2. Message("repair", <<>>) \in MessageType
      BY <3>1 DEF Message, MessageType, Kinds
    <3>3. messages' = Append(messages, Message("repair", <<>>))
      BY <1>12 DEF Repairs
    <3> QED BY <3>2, <3>3, <1>2
  <2>3. \A id : FateOf(id)' = FateOf(id)
    BY <2>1, <1>5
  <2>4. Told'
    <3>1. DroppedAreTold
      BY <2>1, <1>3
    <3>2. ASSUME NEW s \in 1 .. Len(made), NEW n \in 1 .. Len(made[s]), WasDropped(s, n)'
          PROVE  Named(<<s - 1, n>>)' \/ EndedByTool(s)'
      <4>1. WasDropped(s, n) /\ made'[s] = made[s]
        BY <2>1, <2>3, <3>2 DEF WasDropped
      <4> QED BY <4>1, <3>1, <2>2, <2>3, ToldStays
    <3> QED BY <3>2, <2>1 DEF DroppedAreTold
  <2> QED BY <1>4, <1>6, <2>1, <2>4 DEF CallPhases, Working
<1>13. ASSUME NEW extra \in Seq(MessageType), Says(extra) PROVE DropInv'
  <2>1. /\ messages' = messages \o extra /\ made' = Append(made, <<>>) /\ all_records' = all_records
        /\ steps' = steps + 1 /\ phase' \notin CallPhases
    BY <1>13 DEF Says, StepRecorded, GoesOn, CallPhases, Working
  <2>2. DroppedAreTold
    BY <1>13, <1>3 DEF Says, GoesOnFrom
  <2>3. \A id : FateOf(id)' = FateOf(id)
    BY <2>1, <1>5
  <2>4. DroppedAreTold'
    <3>1. ASSUME NEW s \in 1 .. Len(made'), NEW n \in 1 .. Len(made'[s]), WasDropped(s, n)'
          PROVE  Named(<<s - 1, n>>)' \/ EndedByTool(s)'
      <4>1. Len(made') = Len(made) + 1 /\ made'[Len(made) + 1] = <<>> /\ \A x \in 1 .. Len(made) : made'[x] = made[x]
        BY <2>1, <1>2
      <4>2. s # Len(made) + 1
        BY <3>1, <4>1
      <4>3. s \in 1 .. Len(made) /\ made'[s] = made[s]
        BY <4>1, <4>2, <1>2
      <4>4. WasDropped(s, n) /\ n \in 1 .. Len(made[s])
        BY <2>3, <3>1, <4>3 DEF WasDropped
      <4> QED BY <4>3, <4>4, <2>1, <2>2, <2>3, <1>11, ToldStays
    <3> QED BY <3>1 DEF DroppedAreTold
  <2> QED BY <1>4, <1>6, <2>1, <2>4
<1>14. ASSUME NEW t \in TurnResults, AnswersWithCalls(t) PROVE DropInv'
  <2> DEFINE calls == ViewCalls(t)
             answer == Message("assistant", IdsOf(step_index, 1, Kept(calls)))
  <2>1. /\ messages' = Append(messages, answer) /\ made' = Append(made, calls) /\ all_records' = all_records
        /\ steps' = steps /\ phase = "model" /\ phase' = "call" /\ terminal_fired' = FALSE
    BY <1>14 DEF AnswersWithCalls
  <2>2. DroppedAreTold /\ Len(made) = steps
    BY <2>1, <1>3 DEF GoesOnFrom, PlaceInv, Resting
  <2>3. \A id : FateOf(id)' = FateOf(id)
    BY <2>1, <1>5
  <2>4. /\ Len(messages) \in Nat /\ Len(messages') \in Nat /\ Len(messages) <= Len(messages')
        /\ \A k \in 1 .. Len(messages) : messages'[k] = messages[k]
    <3> HIDE DEF answer
    <3> QED BY <2>1, <1>2
  <2>5. DroppedAreTold'
    <3>1. ASSUME NEW s \in 1 .. Len(made'), NEW n \in 1 .. Len(made'[s]), WasDropped(s, n)'
          PROVE  Named(<<s - 1, n>>)' \/ EndedByTool(s)'
      <4>1. Len(made') = Len(made) + 1 /\ \A x \in 1 .. Len(made) : made'[x] = made[x]
        <5> HIDE DEF calls
        <5> QED BY <2>1, <1>2
      <4>2. WasDropped(s, n)
        BY <2>3, <3>1 DEF WasDropped
      <4>3. s - 1 < steps
        BY <4>2, DroppedAreOver
      <4>4. s \in 1 .. Len(made) /\ made'[s] = made[s]
        BY <4>1, <4>3, <2>2, <1>2
      <4>5. n \in 1 .. Len(made[s])
        BY <3>1, <4>4
      <4> QED BY <4>2, <4>4, <4>5, <2>2, <2>3, <2>4, ToldStays
    <3> QED BY <3>1 DEF DroppedAreTold
  <2>6. Ended' /\ Told'
    BY <2>1, <2>5
  <2> QED BY <1>4, <1>6, <2>1, <2>6
<1>15. CASE StepEnds
  <2>1. phase = "call" /\ phase \in CallPhases /\ made' = made /\ steps' = steps + 1
        /\ all_records' = all_records \o DroppedRecords
    BY <1>15 DEF StepEnds, StepRecorded, CallPhases
  <2>2. /\ phase \in CallPhases /\ step_index \in 0 .. options.max_steps - 1 /\ steps = step_index
        /\ Len(Calls) \in 0 .. MaxCalls /\ Kept(Calls) \in 0 .. Len(Calls) /\ MaxCalls \in Nat
        /\ Len(made) = step_index + 1
    BY <2>1, CallFacts
  <2>3. /\ Dropped \in Seq(Id) /\ Len(Dropped) = Len(Calls) - Kept(Calls)
        /\ \A k \in 1 .. Len(Dropped) : Dropped[k] = <<step_index, Kept(Calls) + k>>
    <3> DEFINE kept == Kept(Calls)
               all == Len(Calls)
    <3>1. kept \in Nat /\ all \in Nat /\ kept <= all /\ all \in 0 .. MaxCalls
      BY <2>2
    <3> HIDE DEF kept, all
    <3>2. kept + 1 \in Nat \ {0} /\ kept + 1 <= all + 1 /\ all + 1 - (kept + 1) = all - kept
      BY <3>1
    <3>3. IdsOf(step_index, kept + 1, all) \in Seq(Id)
      BY <3>1, <3>2, <2>2, IdsAreNames
    <3>4. /\ Len(IdsOf(step_index, kept + 1, all)) = all - kept
          /\ \A k \in 1 .. all - kept : IdsOf(step_index, kept + 1, all)[k] = <<step_index, kept + k>>
      BY <3>1, IdsBehind
    <3> QED BY <3>3, <3>4 DEF Dropped, kept, all
  <2>4. /\ DroppedRecords \in Seq(RecordType) /\ Len(DroppedRecords) = Len(Dropped)
        /\ \A k \in 1 .. Len(Dropped) : DroppedRecords[k].id = Dropped[k]
    <3>1. \A k \in 1 .. Len(Dropped) :
            [id |-> Dropped[k], fate |-> "dropped_max_tool_calls_per_step"] \in RecordType
      BY <2>3 DEF RecordType, Fates
    <3>2. Len(Dropped) \in Nat
      BY <2>3
    <3> QED BY <3>1, <3>2 DEF DroppedRecords
  <2>5. PICK added \in Seq(RecordType) :
          /\ all_records' = all_records \o added /\ Len(added) = Len(Dropped)
          /\ \A k \in 1 .. Len(Dropped) : added[k].id = Dropped[k]
    BY <2>1, <2>4
  <2>11. /\ \A id : FateOf(id) \subseteq FateOf(id)'
         /\ \A id : \A f \in FateOf(id)' : f \in FateOf(id) \/ \E k \in 1 .. Len(added) : added[k].id = id
    <3>1. /\ \A id : FateOf(id) \subseteq FateOf(id)'
          /\ \A id : \A f \in FateOf(id)' :
               f \in FateOf(id) \/ \E k \in 1 .. Len(added) : added[k].id = id /\ added[k].fate = f
      BY <1>2, <2>5, FatesGrow
    <3> QED BY <3>1
  <2>6. OnlyOver'
    <3>1. SUFFICES ASSUME NEW r \in 1 .. Len(all_records'), all_records'[r].fate = "dropped_max_tool_calls_per_step"
                   PROVE  all_records'[r].id[1] < steps + 1
      BY <2>1
    <3> HIDE DEF DroppedRecords, Dropped
    <3>2. /\ Len(all_records') = Len(all_records) + Len(added)
          /\ Len(all_records) \in Nat /\ Len(added) \in Nat
          /\ \A x \in 1 .. Len(all_records) : all_records'[x] = all_records[x]
          /\ \A k \in 1 .. Len(added) : all_records'[Len(all_records) + k] = added[k]
      <4>1. all_records \in Seq(RecordType) /\ added \in Seq(RecordType) /\ all_records' = all_records \o added
        BY <1>2, <2>5
      <4> QED BY <4>1, ConcatFacts
    <3>3. CASE r <= Len(all_records)
      <4>1. r \in 1 .. Len(all_records) /\ all_records'[r] = all_records[r] /\ all_records[r] \in RecordType
        BY <3>2, <3>3, <1>2
      <4>2. all_records[r].id[1] < steps /\ all_records[r].id[1] \in Int
        BY <3>1, <4>1, <1>3 DEF RecordType, Id
      <4> QED BY <4>1, <4>2, <1>2
    <3>4. CASE ~(r <= Len(all_records))
      <4>1. PICK k \in 1 .. Len(added) : all_records'[r] = added[k]
        <5>1. r - Len(all_records) \in 1 .. Len(added) /\ Len(all_records) + (r - Len(all_records)) = r
          BY <3>1, <3>2, <3>4
        <5> QED BY <5>1, <3>2
      <4>2. all_records'[r].id = <<step_index, Kept(Calls) + k>>
        BY <4>1, <2>3, <2>5
      <4> QED BY <4>2, <2>2, <1>2
    <3> QED BY <3>3, <3>4
  <2>7. PICK extra \in Seq(MessageType) : messages' = messages \o extra
    <3>1. ToolMessages \in Seq(MessageType) /\ Notice \in Seq(MessageType)
      <4>1. ASSUME NEW n \in 1 .. Len(feed) PROVE Message("tool", <<feed[n]>>) \in MessageType
        <5>1. <<feed[n]>> \in Seq(Id)
          BY <4>1 DEF ShapeInv
        <5> QED BY <5>1 DEF Message, MessageType, Kinds
      <4>2. Len(feed) \in Nat
        BY DEF ShapeInv
      <4>3. ToolMessages \in Seq(MessageType)
        BY <4>1, <4>2 DEF ToolMessages
      <4>4. Message("notice", Dropped) \in MessageType
        BY <2>3 DEF Message, MessageType, Kinds
      <4>5. Notice \in Seq(MessageType)
        BY <4>4 DEF Notice
      <4> QED BY <4>3, <4>5
    <3>2. ToolMessages \o Notice \in Seq(MessageType)
      BY <3>1, Concatenates
    <3>3. messages' = messages \o ToolMessages \/ messages' = messages \o ToolMessages \o Notice
      BY <1>15 DEF StepEnds
    <3> HIDE DEF ToolMessages, Notice
    <3>4. (messages \o ToolMessages) \o Notice = messages \o (ToolMessages \o Notice)
      BY <3>1, <1>2
    <3> QED BY <3>1, <3>2, <3>3, <3>4
  <2>8. DroppedAreTold /\ (terminal_fired => EndedByTool(Len(made)))
    BY <2>1, <1>3
  <2>9. Told'
    <3>1. SUFFICES ASSUME GoesOnFrom' PROVE DroppedAreTold'
      BY <1>15 DEF StepEnds, GoesOn, LoopEnds, CallPhases, Working
    <3>2. ASSUME NEW s \in 1 .. Len(made), NEW n \in 1 .. Len(made[s]), WasDropped(s, n)'
          PROVE  Named(<<s - 1, n>>)' \/ EndedByTool(s)'
      <4>1. CASE WasDropped(s, n)
        BY <4>1, <2>1, <2>11, <2>7, <2>8, <1>11, ToldStays
      <4>2. CASE ~WasDropped(s, n)
        <5>1. PICK k \in 1 .. Len(Dropped) : Dropped[k] = <<s - 1, n>>
          BY <4>2, <2>5, <2>11, <3>2 DEF WasDropped
        <5>2. s = Len(made)
          <6>1. <<step_index, Kept(Calls) + k>> = <<s - 1, n>>
            BY <5>1, <2>3
          <6>2. step_index = s - 1
            BY <6>1
          <6> QED BY <6>2, <2>2, <1>2
        <5>3. CASE terminal_fired
          BY <5>2, <5>3, <2>1, <2>11, <2>8, EndedStays
        <5>4. CASE ~terminal_fired
          <6>1. ~would_exceed_after
            <7>1. SUFFICES ASSUME would_exceed_after PROVE ~GoesOnFrom'
              BY <3>1
            <7>2. phase' \notin {"turn", "model", "parse"}
              BY <1>15, <5>4, <7>1 DEF StepEnds, LoopEnds
            <7> QED BY <7>2 DEF GoesOnFrom
          <6>2. messages' = messages \o ToolMessages \o Notice
            BY <1>15, <5>4, <6>1 DEF StepEnds
          <6>3. Notice = <<Message("notice", Dropped)>>
            <7>1. Dropped # <<>>
              BY <5>1, <2>3
            <7> QED BY <7>1 DEF Notice
          <6>4. Len(feed) \in Nat
            BY DEF ShapeInv
          <6>5. messages \o ToolMessages \in Seq(MessageType)
            <7>1. ASSUME NEW x \in 1 .. Len(feed) PROVE Message("tool", <<feed[x]>>) \in MessageType
              <8>1. <<feed[x]>> \in Seq(Id)
                BY <7>1 DEF ShapeInv
              <8> QED BY <8>1 DEF Message, MessageType, Kinds
            <7>2. ToolMessages \in Seq(MessageType)
              BY <6>4, <7>1 DEF ToolMessages
            <7> QED BY <7>2, <1>2, Concatenates
          <6> DEFINE before == messages \o ToolMessages
                     notice == Message("notice", Dropped)
          <6>6. notice \in MessageType /\ notice.kind = "notice" /\ notice.ids = Dropped
            BY <2>3 DEF Message, MessageType, Kinds
          <6>7. messages' = before \o <<notice>> /\ before \in Seq(MessageType)
            BY <6>2, <6>3, <6>5
          <6> HIDE DEF before, notice, Dropped
          <6>8. Len(messages') = Len(before) + 1 /\ messages'[Len(before) + 1] = notice /\ Len(before) \in Nat
            BY <6>6, <6>7
          <6>9. Len(messages') \in 1 .. Len(messages') /\ messages'[Len(messages')] = notice
            BY <6>8
          <6> QED BY <6>6, <6>9, <5>1 DEF Named
        <5> QED BY <5>3, <5>4
      <4> QED BY <4>1, <4>2
    <3> QED BY <3>2, <2>1 DEF DroppedAreTold
  <2>10. Ended'
    BY <1>15 DEF StepEnds, GoesOn, LoopEnds, CallPhases, Working
  <2> QED BY <1>4, <2>6, <2>9, <2>10
<1> QED BY StepKinds, <1>7, <1>8, <1>9, <1>10, <1>12, <1>13, <1>14, <1>15

----------------------------------------------------------------------------
(* What has run.                                                           *)

LEMMA NextApproval == ShapeInv /\ PlaceInv /\ ApprovalInv /\ [Next]_vars => ApprovalInv'
<1> SUFFICES ASSUME ShapeInv, PlaceInv, ApprovalInv, [Next]_vars PROVE ApprovalInv'
  OBVIOUS
<1> DEFINE NameOf(id) == made[id[1] + 1][id[2]]
           Within == \A k \in 1 .. Len(ran) : ran[k][1] + 1 <= Len(made) /\ ran[k][2] <= Len(made[ran[k][1] + 1])
           RanBehind == phase # "done" =>
             \A k \in 1 .. Len(ran) : Behind(ran[k]) \/ (phase = "execute" /\ ran[k] = CallId)
           AskedBehind == phase # "done" =>
             \A id \in asked : Behind(id) \/ (phase \in Working \ {"resolve"} /\ id = CallId)
           BehindThen(id) == id[1] < steps' \/ (id[1] = steps' /\ id[2] < next')
           MayRun == phase \in {"granted", "execute"} /\ (Call \in Gated \/ CallId \in asked) => CallId \in granted
<1>1. CASE UNCHANGED vars
  BY <1>1 DEF vars, turn, books, caller, ApprovalInv, RunsApproved, Behind, Call, Calls, CallId
<1> SUFFICES ASSUME Next PROVE ApprovalInv'
  BY <1>1
<1>2. /\ step_index \in Nat /\ steps \in Nat /\ next \in Nat /\ made \in Seq(CallLists(Names)) /\ ran \in Seq(Id)
      /\ asked \subseteq Id /\ granted \subseteq asked
  BY DEF ShapeInv
<1>3. Within /\ RunsApproved /\ RanBehind /\ AskedBehind /\ MayRun
  BY DEF ApprovalInv
<1>4. ASSUME Within', RunsApproved', RanBehind', AskedBehind', MayRun' PROVE ApprovalInv'
  BY <1>4 DEF ApprovalInv
<1>5. \A id \in Id : id[1] \in Nat /\ id[2] \in Nat \ {0} /\ id = <<id[1], id[2]>>
  BY DEF Id
<1>6. \A k \in 1 .. Len(ran) : ran[k] \in Id
  BY <1>2
<1>7. phase \in CallPhases => CallId = <<steps, next>> /\ ~Behind(CallId)
  BY <1>2 DEF PlaceInv, CallId, Behind
(* What ran before was as it should, unless a call that ran is asked about. *)
<1>8. ASSUME ran' = ran, granted \subseteq granted', made' = made,
             \A k \in 1 .. Len(ran) : ran[k] \in asked' => ran[k] \in asked
      PROVE  Within' /\ RunsApproved'
  BY <1>3, <1>8 DEF RunsApproved
(* A turn's calls are added to those of the turns before.                  *)
<1>9. ASSUME NEW calls, made' = Append(made, calls), UNCHANGED <<ran, asked, granted>>
      PROVE  Within' /\ RunsApproved'
  <2>1. Len(made') = Len(made) + 1 /\ Len(made) \in Nat
    BY <1>2, <1>9
  <2>2. ASSUME NEW k \in 1 .. Len(ran)
        PROVE  /\ ran[k][1] + 1 <= Len(made') /\ ran[k][2] <= Len(made'[ran[k][1] + 1])
               /\ made'[ran[k][1] + 1] = made[ran[k][1] + 1]
    <3>1. ran[k][1] \in Nat /\ ran[k][1] + 1 <= Len(made) /\ ran[k][2] <= Len(made[ran[k][1] + 1])
      BY <1>3, <1>5, <1>6
    <3>2. ran[k][1] + 1 \in 1 .. Len(made)
      BY <2>1, <3>1
    <3>3. made'[ran[k][1] + 1] = made[ran[k][1] + 1]
      BY <1>2, <1>9, <3>2
    <3> QED BY <2>1, <3>1, <3>3
  <2>3. Within'
    BY <2>2, <1>9
  <2>4. RunsApproved'
    BY <2>2, <1>3, <1>9 DEF RunsApproved
  <2> QED BY <2>3, <2>4
(* Nothing of a step is ahead of the next one.                             *)
<1>10. ASSUME phase \notin Working, phase # "done", phase' # "done", UNCHANGED <<ran, asked>>,
              \/ steps' = steps /\ next' = next
              \/ steps' = steps + 1
       PROVE  RanBehind' /\ AskedBehind'
  <2>1. ASSUME NEW id \in Id, Behind(id) PROVE BehindThen(id)
    BY <2>1, <1>2, <1>5, <1>10 DEF Behind
  <2>2. \A k \in 1 .. Len(ran) : Behind(ran[k])
    BY <1>3, <1>10 DEF Working
  <2>3. \A id \in asked : Behind(id)
    BY <1>3, <1>10
  <2>4. \A k \in 1 .. Len(ran) : BehindThen(ran[k])
    BY <2>1, <2>2, <1>6
  <2>5. \A id \in asked : BehindThen(id)
    BY <2>1, <2>3, <1>2
  <2> QED BY <2>4, <2>5, <1>10 DEF Behind
<1>11. CASE Stops
  <2>1. \A k \in 1 .. Len(ran) : ran[k] \in asked' => ran[k] \in asked
    <3>1. SUFFICES ASSUME phase = "resolve", NEW k \in 1 .. Len(ran) PROVE ran[k] # CallId
      BY <1>11 DEF Stops
    <3>2. Behind(ran[k]) /\ ~Behind(CallId)
      BY <3>1, <1>3, <1>7 DEF CallPhases, Working
    <3> QED BY <3>2
  <2>2. Within' /\ RunsApproved'
    BY <1>8, <1>11, <2>1 DEF Stops
  <2>3. phase' = "done"
    BY <1>11 DEF Stops
  <2> QED BY <1>4, <2>2, <2>3
<1>12. CASE Stays
  <2>1. /\ made' = made /\ steps' = steps /\ next' = next /\ step_index' = step_index
        /\ phase \in CallPhases /\ phase' \in CallPhases /\ phase # "done" /\ phase' # "done"
    BY <1>12 DEF Stays, CallPhases, Working
  <2>2. Call' = Call /\ CallId' = CallId /\ \A id : Behind(id)' <=> Behind(id)
    BY <2>1 DEF Call, Calls, CallId, Behind
  <2>3. CASE phase' = phase /\ UNCHANGED <<asked, granted, ran>>
    <3>1. Within' /\ RunsApproved'
      BY <1>8, <2>1, <2>3
    <3> QED BY <1>3, <1>4, <2>1, <2>2, <2>3, <3>1
  <2>4. CASE phase = "call" /\ phase' = "resolve" /\ UNCHANGED <<asked, granted, ran>>
    <3>1. Within' /\ RunsApproved'
      BY <1>8, <2>1, <2>4
    <3>2. RanBehind' /\ AskedBehind'
      BY <1>3, <2>2, <2>4 DEF Working
    <3> QED BY <1>4, <2>4, <3>1, <3>2
  <2>5. CASE phase = "resolve" /\ Call \notin Gated /\ phase' = "granted" /\ UNCHANGED <<asked, granted, ran>>
    <3>1. Within' /\ RunsApproved'
      BY <1>8, <2>1, <2>5
    <3>2. RanBehind' /\ AskedBehind'
      BY <1>3, <2>2, <2>5 DEF Working
    <3>3. CallId \notin asked
      BY <1>3, <1>7, <2>1, <2>5
    <3> QED BY <1>4, <2>2, <2>5, <3>1, <3>2, <3>3
  <2>6. CASE phase = "resolve" /\ phase' = "asking" /\ asked' = asked \cup {CallId} /\ UNCHANGED <<granted, ran>>
    <3>1. \A k \in 1 .. Len(ran) : ran[k] # CallId
      BY <1>3, <1>7, <2>1, <2>6
    <3>2. Within' /\ RunsApproved'
      BY <1>8, <2>1, <2>6, <3>1
    <3>3. RanBehind' /\ AskedBehind'
      BY <1>3, <2>2, <2>6 DEF Working
    <3> QED BY <1>4, <2>6, <3>2, <3>3
  <2>7. CASE phase = "asking" /\ phase' = "granted" /\ granted' = granted \cup {CallId} /\ UNCHANGED <<asked, ran>>
    <3>1. Within' /\ RunsApproved'
      BY <1>8, <2>1, <2>7
    <3>2. RanBehind' /\ AskedBehind'
      BY <1>3, <2>2, <2>7 DEF Working
    <3> QED BY <1>4, <2>2, <2>7, <3>1, <3>2
  <2>8. CASE phase = "granted" /\ phase' = "execute" /\ ran' = Append(ran, CallId) /\ UNCHANGED <<asked, granted>>
    <3>1. /\ Len(ran') = Len(ran) + 1 /\ ran'[Len(ran) + 1] = CallId
          /\ \A k \in 1 .. Len(ran) : ran'[k] = ran[k]
      BY <1>2, <2>8
    <3>2. ASSUME NEW k \in 1 .. Len(ran') PROVE (k \in 1 .. Len(ran) /\ ran'[k] = ran[k]) \/ ran'[k] = CallId
      <4>1. k \in 1 .. Len(ran) \/ k = Len(ran) + 1
        BY <3>1, <3>2, <1>2
      <4> QED BY <4>1, <3>1
    <3>3. /\ next \in 1 .. Kept(Calls) /\ Kept(Calls) \in 0 .. Len(Calls) /\ Len(Calls) \in Nat
          /\ Len(made) = step_index + 1 /\ CallId = <<step_index, next>>
      BY <2>1, <2>8, CallFacts DEF Working, CallId
    <3>4. /\ CallId[1] + 1 = Len(made) /\ CallId[2] <= Len(Calls) /\ made[CallId[1] + 1] = Calls
          /\ made[CallId[1] + 1][CallId[2]] = Call
      BY <3>3, <1>2 DEF Calls, Call
    <3>5. Within'
      <4>1. ASSUME NEW k \in 1 .. Len(ran')
            PROVE  ran'[k][1] + 1 <= Len(made) /\ ran'[k][2] <= Len(made[ran'[k][1] + 1])
        BY <3>2, <3>3, <3>4, <1>3, <4>1
      <4> QED BY <4>1, <2>1
    <3>6. RunsApproved'
      <4>1. ASSUME NEW k \in 1 .. Len(ran'), made[ran'[k][1] + 1][ran'[k][2]] \in Gated \/ ran'[k] \in asked
            PROVE  ran'[k] \in granted
        BY <3>2, <3>4, <1>3, <2>8, <4>1 DEF RunsApproved
      <4> QED BY <4>1, <2>1, <2>8 DEF RunsApproved
    <3>7. RanBehind'
      <4>1. ASSUME NEW k \in 1 .. Len(ran') PROVE Behind(ran'[k]) \/ ran'[k] = CallId
        BY <3>2, <4>1, <1>3, <2>8
      <4>2. \A k \in 1 .. Len(ran') : BehindThen(ran'[k]) \/ ran'[k] = CallId'
        BY <4>1, <2>1, <2>2 DEF Behind
      <4> QED BY <4>2, <2>8 DEF Behind
    <3>8. AskedBehind'
      BY <1>3, <2>2, <2>8 DEF Working
    <3> QED BY <1>3, <1>4, <2>2, <2>8, <3>5, <3>6, <3>7, <3>8
  <2> QED BY <1>12, <2>3, <2>4, <2>5, <2>6, <2>7, <2>8 DEF Stays, Approves
<1>13. ASSUME NEW fate, Passes(fate) PROVE ApprovalInv'
  <2>1. /\ phase \in CallPhases /\ phase' = "call" /\ made' = made /\ steps' = steps /\ next' = next + 1
        /\ UNCHANGED <<asked, granted, ran>>
    BY <1>13 DEF Passes, InCall, CallPhases
  <2>2. Within' /\ RunsApproved'
    BY <1>8, <2>1
  <2>3. ASSUME NEW id \in Id, Behind(id) \/ id = CallId PROVE BehindThen(id)
    BY <2>1, <2>3, <1>2, <1>5, <1>7 DEF Behind
  <2>4. phase # "done"
    BY <2>1 DEF CallPhases, Working
  <2>5. \A k \in 1 .. Len(ran) : BehindThen(ran[k])
    BY <2>3, <2>4, <1>3, <1>6
  <2>6. \A id \in asked : BehindThen(id)
    BY <2>3, <2>4, <1>3, <1>2
  <2> QED BY <1>4, <2>1, <2>2, <2>5, <2>6 DEF Behind
<1>14. CASE Rests
  <2>1. /\ made' = made /\ steps' = steps /\ next' = next /\ UNCHANGED <<asked, granted, ran>>
        /\ phase \notin Working /\ phase # "done" /\ phase' # "done" /\ phase' \notin {"granted", "execute"}
    BY <1>14 DEF Rests, Resting, Working
  <2>2. Within' /\ RunsApproved'
    BY <1>8, <2>1
  <2>3. RanBehind' /\ AskedBehind'
    BY <1>10, <2>1
  <2> QED BY <1>4, <2>1, <2>2, <2>3
<1>15. CASE Repairs
  <2>1. /\ made' = made /\ steps' = steps /\ next' = next /\ UNCHANGED <<asked, granted, ran>>
        /\ phase \notin Working /\ phase # "done" /\ phase' # "done" /\ phase' \notin {"granted", "execute"}
    BY <1>15 DEF Repairs, Working
  <2>2. Within' /\ RunsApproved'
    BY <1>8, <2>1
  <2>3. RanBehind' /\ AskedBehind'
    BY <1>10, <2>1
  <2> QED BY <1>4, <2>1, <2>2, <2>3
<1>16. ASSUME NEW extra, Says(extra) PROVE ApprovalInv'
  <2>1. /\ made' = Append(made, <<>>) /\ steps' = steps + 1 /\ UNCHANGED <<asked, granted, ran>>
        /\ phase \notin Working /\ phase # "done" /\ phase' \notin {"granted", "execute"}
    BY <1>16 DEF Says, StepRecorded, GoesOn, Working
  <2>2. Within' /\ RunsApproved'
    BY <1>9, <2>1
  <2>3. RanBehind' /\ AskedBehind'
    BY <1>10, <2>1
  <2> QED BY <1>4, <2>1, <2>2, <2>3
<1>17. CASE StepEnds
  <2>1. /\ made' = made /\ steps' = steps + 1 /\ UNCHANGED <<asked, granted, ran>>
        /\ phase \notin Working /\ phase # "done" /\ phase' \notin {"granted", "execute"}
    BY <1>17 DEF StepEnds, StepRecorded, GoesOn, LoopEnds, Working, caller
  <2>2. Within' /\ RunsApproved'
    BY <1>8, <2>1
  <2>3. RanBehind' /\ AskedBehind'
    BY <1>10, <2>1
  <2> QED BY <1>4, <2>1, <2>2, <2>3
<1>18. ASSUME NEW t \in TurnResults, AnswersWithCalls(t) PROVE ApprovalInv'
  <2>1. /\ made' = Append(made, ViewCalls(t)) /\ steps' = steps /\ next' = 1 /\ UNCHANGED <<asked, granted, ran>>
        /\ phase = "model" /\ phase' = "call"
    BY <1>18 DEF AnswersWithCalls, caller
  <2>2. Within' /\ RunsApproved'
    BY <1>9, <2>1
  <2>3. next' = next
    BY <2>1 DEF PlaceInv, Resting
  <2>4. RanBehind' /\ AskedBehind'
    BY <1>10, <2>1, <2>3 DEF Working
  <2> QED BY <1>4, <2>1, <2>2, <2>4
<1> QED BY StepKinds, <1>11, <1>12, <1>13, <1>14, <1>15, <1>16, <1>17, <1>18

----------------------------------------------------------------------------
(* The theorems.                                                           *)

(* The invariant holds of every loop: its parts are inductive together.    *)
THEOREM LoopInvariant == Spec => []LoopInv
<1>1. Init => LoopInv
  <2> SUFFICES ASSUME Init PROVE LoopInv
    OBVIOUS
  <2>1. ShapeInv
    BY InitialShape
  <2>2. PlaceInv
    BY DEF Init, PlaceInv, CallPhases, Working
  <2>3. HistoryInv
    BY DEF Init, HistoryInv, AnsweredUpTo, CallPhases, Working
  <2>4. DropInv
    BY DEF Init, DropInv, DroppedAreTold, CallPhases, Working
  <2>5. ApprovalInv
    BY DEF Init, ApprovalInv, RunsApproved, Working
  <2> QED BY <2>1, <2>2, <2>3, <2>4, <2>5 DEF LoopInv
<1>2. LoopInv /\ [Next]_vars => LoopInv'
  BY NextShape, NextPlace, NextHistory, NextDrop, NextApproval DEF LoopInv
<1> QED BY <1>1, <1>2, PTL DEF Spec

(* Every variable of the tool loop keeps its type.                         *)
THEOREM TypeCorrect == Spec => []TypeOK
<1>1. LoopInv => TypeOK
  <2> SUFFICES ASSUME ShapeInv PROVE TypeOK
    BY DEF LoopInv
  <2>1. ASSUME NEW i \in 1 .. Len(messages)
        PROVE  messages[i].kind \in Kinds /\ \A j \in 1 .. Len(messages[i].ids) : messages[i].ids[j] \in Id
    <3>1. messages[i] \in MessageType
      BY <2>1 DEF ShapeInv
    <3> QED BY <3>1 DEF MessageType
  <2>2. ASSUME NEW r \in 1 .. Len(all_records) PROVE all_records[r].id \in Id /\ all_records[r].fate \in Fates
    <3>1. all_records[r] \in RecordType
      BY <2>2 DEF ShapeInv
    <3> QED BY <3>1 DEF RecordType
  <2>3. /\ \A s \in 1 .. Len(made) : made[s] \in CallLists(Names)
        /\ \A n \in 1 .. Len(feed) : feed[n] \in Id
        /\ \A n \in 1 .. Len(ran) : ran[n] \in Id
    BY DEF ShapeInv
  <2>4. {terminal_fired, aborted} \subseteq BOOLEAN
    BY DEF ShapeInv
  <2>5. phase \in {"turn", "model", "call", "resolve", "asking", "granted", "execute", "parse", "done"}
    BY DEF ShapeInv, CallPhases, Working
  <2> QED BY <2>1, <2>2, <2>3, <2>4, <2>5 DEF ShapeInv, TypeOK
<1> QED BY <1>1, LoopInvariant, PTL

(* Whenever the model is asked, every call of the history has its result   *)
(* right behind it, every call that the cap dropped was named to the model *)
(* or was dropped in a step that a terminal tool ended, and nothing that   *)
(* needs approval ran without it: for any tools, options and answers.      *)
THEOREM LoopAccounts == Spec => []LoopIsAccounted
<1>1. LoopInv => LoopIsAccounted
  <2> SUFFICES ASSUME LoopInv PROVE LoopIsAccounted
    OBVIOUS
  <2>1. HistoryIsAnswered
    BY DEF LoopInv, HistoryInv, GoesOnFrom, AnsweredUpTo, HistoryIsAnswered
  <2>2. ToldOfDropped
    BY DEF LoopInv, DropInv, GoesOnFrom, DroppedAreTold, ToldOfDropped
  <2> QED BY <2>1, <2>2 DEF LoopInv, ApprovalInv, LoopIsAccounted
<1> QED BY <1>1, LoopInvariant, PTL

----------------------------------------------------------------------------
(* One turn of the loop with its retries, and what its consumer is shown   *)
(* (Turn).                                                                 *)
CONSTANTS TurnDialects, TurnAttempts, TurnRetryOn, TurnBlocks

VARIABLES tn_dialect, tn_consumer, tn_budget, tn_answer, tn_phase, tn_attempt, tn_user_aborted,
          tn_timed_out, tn_sent, tn_pending, tn_tail, tn_content, tn_closed, tn_stopped, tn_out,
          tn_stamped, tn_failed, tn_failure, tn_seen, tn_outcome

TheTurn == INSTANCE Turn WITH
  dialect <- tn_dialect, consumer <- tn_consumer, budget <- tn_budget, answer <- tn_answer,
  phase <- tn_phase, attempt <- tn_attempt, user_aborted <- tn_user_aborted,
  timed_out <- tn_timed_out, sent <- tn_sent, pending <- tn_pending, tail <- tn_tail,
  content <- tn_content, closed <- tn_closed, stopped <- tn_stopped, out <- tn_out,
  stamped <- tn_stamped, failed <- tn_failed, failure <- tn_failure, seen <- tn_seen,
  outcome <- tn_outcome, Dialects <- TurnDialects, MaxAttempts <- TurnAttempts,
  RetryOn <- TurnRetryOn, MaxBlocks <- TurnBlocks

(* A consumer is never shown two attempts of a turn.                       *)
OneAttemptIsSeen == TheTurn!OneAttemptIsSeen

(* The wire formats are those that the model has an aggregator for.        *)
TurnAssumption == TurnDialects \subseteq {"anthropic", "chat", "openrouter", "ollama", "ai_sdk"}

ASSUME TurnFits == TurnAssumption

----------------------------------------------------------------------------
(* The chunks of the attempt under way, and where a handler throws.        *)
ChunkKinds == {"start", "input_delta", "reasoning", "text", "end", "step_finish"}
TurnChunks(B) == [kind : ChunkKinds, block : B, attempt : {tn_attempt}]
TurnPieces(B) == TurnChunks(B) \union [kind : {"raise"}, block : {0}, what : {"permanent"}]

(* The chunks at hand, and those a consumer was given, are of this attempt *)
(* and about some blocks.                                                  *)
ChunkInv == \E B : tn_out \in Seq(TurnPieces(B)) /\ tn_seen \in Seq(TurnChunks(B))

TurnInv ==
  /\ tn_dialect \in TurnDialects /\ tn_consumer \in BOOLEAN /\ tn_answer \in TheTurn!Answers /\ tn_attempt \in Nat
  /\ ChunkInv
  /\ tn_out # <<>> => tn_phase \in {"handling", "consumer"}
  /\ tn_seen # <<>> => tn_consumer /\ tn_stamped /\ tn_phase \notin {"ready", "backoff"}

LEMMA SeqGrows == ASSUME NEW S, NEW T, S \subseteq T, NEW s \in Seq(S) PROVE s \in Seq(T)
OBVIOUS

LEMMA OpenCallsAreFinite == ASSUME tn_answer \in TheTurn!Answers
  PROVE TheTurn!Cardinality(TheTurn!OpenCalls) \in Nat
<1>1. PICK n \in 0 .. TurnBlocks : tn_answer \in [1 .. n -> {"text", "thinking", "bare", "call", "malformed"}]
  BY DEF TheTurn!Answers
<1>2. n \in Int /\ DOMAIN tn_answer = 1 .. n
  BY <1>1
<1>3. IsFiniteSet(1 .. n)
  BY <1>2, FS_Interval
<1>4. TheTurn!OpenCalls \subseteq 1 .. n
  BY <1>2 DEF TheTurn!OpenCalls
<1> QED BY <1>3, <1>4, FS_Subset, FS_CardinalityType
  DEF TheTurn!Cardinality, Cardinality, TheTurn!IsFiniteSet, IsFiniteSet

(* What a handler gives is of this attempt.                                *)
LEMMA EndIsPiece == ASSUME NEW b, NEW B, b \in B PROVE TheTurn!EndChunk(b) \in TurnPieces(B)
BY DEF TheTurn!EndChunk, TheTurn!Raise, TheTurn!Chunk, TurnPieces, TurnChunks, ChunkKinds

LEMMA ChunkIsPiece == ASSUME NEW b, NEW B, b \in B, NEW k \in ChunkKinds PROVE TheTurn!Chunk(k, b) \in TurnPieces(B)
BY DEF TheTurn!Chunk, TurnPieces, TurnChunks

LEMMA DeltaIsPiece == ASSUME NEW b, NEW B, b \in B PROVE TheTurn!DeltaChunk(b) \in TurnPieces(B)
BY DEF TheTurn!DeltaChunk, TheTurn!Chunk, TurnPieces, TurnChunks, ChunkKinds

LEMMA ClosingsArePieces ==
  ASSUME tn_answer \in TheTurn!Answers
  PROVE  \E B : TheTurn!close_tool_calls \in Seq(TurnPieces(B))
<1>1. PICK n : n = TheTurn!Cardinality(TheTurn!OpenCalls)
  OBVIOUS
<1>2. n \in Nat
  BY <1>1, OpenCallsAreFinite
<1>3. PICK nth : nth = [i \in 1 .. n |-> CHOOSE b \in TheTurn!OpenCalls : TheTurn!Cardinality({c \in TheTurn!OpenCalls : c <= b}) = i]
  OBVIOUS
<1>4. TheTurn!close_tool_calls = [i \in 1 .. n |-> TheTurn!EndChunk(nth[i])]
  BY <1>1, <1>3 DEF TheTurn!close_tool_calls
<1>5. PICK B : B = {nth[i] : i \in 1 .. n}
  OBVIOUS
<1>6. \A i \in 1 .. n : TheTurn!EndChunk(nth[i]) \in TurnPieces(B)
  BY <1>5, EndIsPiece
<1>7. [i \in 1 .. n |-> TheTurn!EndChunk(nth[i])] \in Seq(TurnPieces(B))
  BY <1>2, <1>6
<1> QED BY <1>4, <1>7

LEMMA FrameGivesPieces ==
  ASSUME TurnInv, TheTurn!Handle, tn_out' # <<>>
  PROVE  /\ UNCHANGED <<tn_phase, tn_attempt, tn_seen>>
         /\ \E B : tn_out' \in Seq(TurnPieces(B))
<1>1. PICK f : f = Head(tn_pending)
  OBVIOUS
<1>2. tn_out = <<>> /\ tn_phase = "handling" /\ UNCHANGED <<tn_attempt, tn_seen>>
  BY DEF TheTurn!Handle
<1>3. f.kind # "garbled" /\ UNCHANGED tn_phase
  BY <1>1 DEF TheTurn!Handle, TheTurn!Fail
<1>4. tn_dialect \in {"anthropic", "chat", "openrouter", "ollama", "ai_sdk"}
  BY TurnFits DEF TurnInv, TurnAssumption
<1>5. TheTurn!HandleAnthropic(f) \/ TheTurn!HandleChat(f) \/ TheTurn!HandleOllama(f) \/ TheTurn!HandleSdk(f)
  BY <1>1, <1>3, <1>4 DEF TheTurn!Handle
<1>6. PICK close : close = TheTurn!close_tool_calls
  OBVIOUS
<1>7. PICK C : close \in Seq(TurnPieces(C))
  BY <1>6, ClosingsArePieces DEF TurnInv
<1>8. PICK B : B = C \union {0, f.block}
  OBVIOUS
<1>9. close \in Seq(TurnPieces(B))
  <2>1. TurnPieces(C) \subseteq TurnPieces(B)
    BY <1>8 DEF TurnPieces, TurnChunks
  <2> QED BY <1>7, <2>1, SeqGrows
<1>10. PICK step : step = TheTurn!Chunk("step_finish", 0)
  OBVIOUS
<1>11. step \in TurnPieces(B)
  BY <1>8, <1>10, ChunkIsPiece DEF ChunkKinds
<1>12. PICK start : start = TheTurn!Chunk("start", f.block)
  OBVIOUS
<1>13. PICK delta : delta = TheTurn!DeltaChunk(f.block)
  OBVIOUS
<1>14. PICK end : end = TheTurn!EndChunk(f.block)
  OBVIOUS
<1>15. start \in TurnPieces(B) /\ delta \in TurnPieces(B) /\ end \in TurnPieces(B)
  BY <1>8, <1>12, <1>13, <1>14, ChunkIsPiece, DeltaIsPiece, EndIsPiece DEF ChunkKinds
<1>16. tn_out' \in {<<>>, <<start>>, <<delta>>, <<end>>, <<start, end>>, <<step>>, close, close \o <<step>>}
  <2>1. CASE TheTurn!HandleAnthropic(f)
    BY <2>1, <1>10, <1>12, <1>13, <1>14 DEF TheTurn!HandleAnthropic, TheTurn!Finish
  <2>2. CASE TheTurn!HandleChat(f)
    BY <2>2, <1>6, <1>10, <1>12, <1>13 DEF TheTurn!HandleChat, TheTurn!Finish
  <2>3. CASE TheTurn!HandleOllama(f)
    BY <2>3, <1>10, <1>12, <1>13, <1>14 DEF TheTurn!HandleOllama, TheTurn!Finish
  <2>4. CASE TheTurn!HandleSdk(f)
    BY <2>4, <1>10, <1>12, <1>13, <1>14 DEF TheTurn!HandleSdk, TheTurn!Finish
  <2> QED BY <1>5, <2>1, <2>2, <2>3, <2>4
<1>17. /\ <<>> \in Seq(TurnPieces(B)) /\ <<start>> \in Seq(TurnPieces(B)) /\ <<delta>> \in Seq(TurnPieces(B))
       /\ <<end>> \in Seq(TurnPieces(B)) /\ <<start, end>> \in Seq(TurnPieces(B)) /\ <<step>> \in Seq(TurnPieces(B))
  BY <1>11, <1>15
<1>18. close \o <<step>> \in Seq(TurnPieces(B))
  BY <1>9, <1>17
<1>19. tn_out' \in Seq(TurnPieces(B))
  BY <1>9, <1>16, <1>17, <1>18
<1> QED BY <1>2, <1>3, <1>19

LEMMA TurnStarts == TheTurn!Init => TurnInv
<1> SUFFICES ASSUME TheTurn!Init PROVE TurnInv
  OBVIOUS
<1>1. tn_out \in Seq(TurnPieces({})) /\ tn_seen \in Seq(TurnChunks({}))
  BY DEF TheTurn!Init
<1> QED BY <1>1 DEF TheTurn!Init, TurnInv, ChunkInv

(* A step that hands over nothing.                                         *)
LEMMA ChunksStay ==
  ASSUME TurnInv, tn_out' \in {tn_out, <<>>}, UNCHANGED tn_seen, tn_attempt' = tn_attempt
           \/ (tn_out = <<>> /\ tn_seen = <<>>)
  PROVE  ChunkInv'
<1>1. PICK B : tn_out \in Seq(TurnPieces(B)) /\ tn_seen \in Seq(TurnChunks(B))
  BY DEF TurnInv, ChunkInv
<1>2. CASE tn_attempt' = tn_attempt
  <2>1. TurnChunks(B)' = TurnChunks(B) /\ TurnPieces(B)' = TurnPieces(B)
    BY <1>2 DEF TurnChunks, TurnPieces
  <2>2. tn_out' \in Seq(TurnPieces(B)) /\ tn_seen' \in Seq(TurnChunks(B))
    <3>1. \A S : <<>> \in Seq(S)
      OBVIOUS
    <3>2. tn_seen' = tn_seen /\ (tn_out' = tn_out \/ tn_out' = <<>>)
      OBVIOUS
    <3> QED BY <1>1, <3>1, <3>2, Zenon
  <2> QED BY <2>1, <2>2 DEF ChunkInv
<1>3. CASE tn_out = <<>> /\ tn_seen = <<>>
  <2>1. tn_out' = <<>> /\ tn_seen' = <<>>
    BY <1>3
  <2>2. \A S : <<>> \in Seq(S)
    OBVIOUS
  <2> QED BY <2>1, <2>2, Zenon DEF ChunkInv
<1> QED BY <1>2, <1>3

LEMMA TurnSteps == TurnInv /\ [TheTurn!Next]_(TheTurn!vars) => TurnInv'
<1> SUFFICES ASSUME TurnInv, [TheTurn!Next]_(TheTurn!vars) PROVE TurnInv'
  OBVIOUS
<1>1. UNCHANGED TheTurn!options
  BY DEF TheTurn!Next, TheTurn!Engine, TheTurn!Server, TheTurn!vars, TheTurn!options, TheTurn!CallOnce,
       TheTurn!AbortedAtTheTop, TheTurn!Handle, TheTurn!dispatch_chunk, TheTurn!HandlerThrows, TheTurn!ReadsOn,
     TheTurn!complete, TheTurn!Caught, TheTurn!wait_with_abort, TheTurn!ConnectionFails, TheTurn!response_error,
       TheTurn!Responds, TheTurn!read_json_body, TheTurn!next_bytes, TheTurn!flush,
     TheTurn!stream_event_error, TheTurn!on_chunk_settles, TheTurn!TimesOut, TheTurn!UserAborts
<1>2. tn_dialect' \in TurnDialects /\ tn_consumer' \in BOOLEAN /\ (tn_answer \in TheTurn!Answers)'
  <2>1. tn_dialect' = tn_dialect /\ tn_consumer' = tn_consumer /\ tn_answer' = tn_answer
    BY <1>1 DEF TheTurn!options
  <2> QED BY <2>1 DEF TurnInv, TheTurn!Answers
<1>3. tn_consumer' = tn_consumer /\ tn_attempt \in Nat
  BY <1>1 DEF TheTurn!options, TurnInv
<1>4. CASE TheTurn!CallOnce
  <2>1. tn_out = <<>> /\ tn_seen = <<>>
    BY <1>4 DEF TheTurn!CallOnce, TurnInv
  <2>2. ChunkInv'
    BY <1>4, <2>1, ChunksStay DEF TheTurn!CallOnce
  <2> QED BY <1>2, <1>3, <1>4, <2>1, <2>2 DEF TheTurn!CallOnce, TurnInv
<1>5. CASE TheTurn!Handle
  <2>1. CASE tn_out' = <<>>
    <3>1. UNCHANGED <<tn_seen, tn_attempt, tn_stamped>> /\ tn_phase' \in {"handling", "failed"}
            /\ tn_phase = "handling"
      BY <1>5, <2>1 DEF TheTurn!Handle, TheTurn!Fail
    <3>2. ChunkInv'
      BY <2>1, <3>1, ChunksStay
    <3> QED BY <1>2, <1>3, <2>1, <3>1, <3>2 DEF TurnInv
  <2>2. CASE tn_out' # <<>>
    <3>1. UNCHANGED <<tn_phase, tn_attempt, tn_seen, tn_stamped>> /\ tn_phase = "handling"
      BY <1>5, <2>2, FrameGivesPieces DEF TheTurn!Handle
    <3>2. PICK C : tn_out' \in Seq(TurnPieces(C))
      BY <1>5, <2>2, FrameGivesPieces
    <3>3. PICK B : tn_seen \in Seq(TurnChunks(B))
      BY DEF TurnInv, ChunkInv
    <3>4. PICK D : D = B \union C
      OBVIOUS
    <3>5. TurnPieces(C) \subseteq TurnPieces(D) /\ TurnChunks(B) \subseteq TurnChunks(D)
      BY <3>4 DEF TurnPieces, TurnChunks
    <3>6. tn_out' \in Seq(TurnPieces(D)) /\ tn_seen \in Seq(TurnChunks(D))
      BY <3>2, <3>3, <3>5, SeqGrows
    <3>7. ChunkInv'
      BY <3>1, <3>6 DEF ChunkInv, TurnPieces, TurnChunks
    <3> QED BY <1>2, <1>3, <3>1, <3>7 DEF TurnInv
  <2> QED BY <2>1, <2>2
<1>6. CASE TheTurn!dispatch_chunk
  <2>1. PICK B : tn_out \in Seq(TurnPieces(B)) /\ tn_seen \in Seq(TurnChunks(B))
    BY DEF TurnInv, ChunkInv
  <2>2. /\ tn_phase = "handling" /\ tn_out # <<>> /\ Head(tn_out).kind # "raise" /\ tn_out' = Tail(tn_out)
             /\ tn_stamped'
        /\ UNCHANGED tn_attempt
    BY <1>6 DEF TheTurn!dispatch_chunk
  <2>3. \/ tn_consumer /\ tn_seen' = Append(tn_seen, Head(tn_out)) /\ tn_phase' = "consumer"
        \/ tn_seen' = tn_seen /\ tn_phase' = tn_phase
    BY <1>6 DEF TheTurn!dispatch_chunk
  <2>4. Head(tn_out) \in TurnPieces(B) /\ Tail(tn_out) \in Seq(TurnPieces(B))
    BY <2>1, <2>2
  <2>5. Head(tn_out) \in TurnChunks(B)
    BY <2>2, <2>4 DEF TurnPieces
  <2>6. tn_seen' \in Seq(TurnChunks(B))
    BY <2>1, <2>3, <2>5
  <2>7. ChunkInv'
    BY <2>2, <2>4, <2>6 DEF ChunkInv, TurnPieces, TurnChunks
  <2> QED BY <1>2, <1>3, <2>2, <2>3, <2>7 DEF TurnInv
<1>7. CASE TheTurn!Caught
  <2>1. tn_out' = tn_out /\ tn_seen' = tn_seen /\ tn_stamped' = tn_stamped /\ tn_attempt' = tn_attempt
          /\ tn_phase = "failed"
    BY <1>7 DEF TheTurn!Caught
  <2>2. tn_seen # <<>> => tn_phase' = "over"
    <3> SUFFICES ASSUME tn_seen # <<>> PROVE tn_phase' = "over"
      OBVIOUS
    <3>1. tn_consumer /\ tn_stamped
      BY DEF TurnInv
    <3>2. TheTurn!Thrown \in {"on_chunk_error", "aborted", "interrupted"}
      BY <3>1 DEF TheTurn!Thrown
    <3> QED BY <1>7, <3>2 DEF TheTurn!Caught, TheTurn!Classified
  <2>3. ChunkInv'
    BY <2>1, ChunksStay
  <2>4. tn_out = <<>>
    BY <2>1 DEF TurnInv
  <2> QED BY <1>2, <1>3, <2>1, <2>2, <2>3, <2>4 DEF TurnInv
<1>8. CASE \/ TheTurn!AbortedAtTheTop \/ TheTurn!HandlerThrows \/ TheTurn!ReadsOn \/ TheTurn!complete
             \/ TheTurn!wait_with_abort
           \/ TheTurn!Server \/ TheTurn!on_chunk_settles \/ TheTurn!TimesOut \/ TheTurn!UserAborts
                \/ UNCHANGED TheTurn!vars
  <2>1. /\ tn_out' \in {tn_out, <<>>} /\ tn_seen' = tn_seen /\ tn_stamped' = tn_stamped /\ tn_attempt' = tn_attempt
        /\ (tn_phase' = "ready" => tn_phase = "backoff") \/ tn_phase' = tn_phase
        /\ tn_phase' # "backoff" \/ tn_phase' = tn_phase
        /\ tn_out' # <<>> => tn_phase' \in {"handling", "consumer"}
    <3>1. CASE TheTurn!AbortedAtTheTop \/ TheTurn!HandlerThrows \/ TheTurn!ReadsOn \/ TheTurn!complete
                 \/ TheTurn!wait_with_abort
      BY <3>1 DEF TheTurn!AbortedAtTheTop, TheTurn!HandlerThrows, TheTurn!ReadsOn, TheTurn!complete,
           TheTurn!wait_with_abort, TheTurn!Fail, TurnInv
    <3>2. CASE TheTurn!Server
      BY <3>2 DEF TheTurn!Server, TheTurn!ConnectionFails, TheTurn!response_error, TheTurn!Responds,
           TheTurn!read_json_body, TheTurn!next_bytes, TheTurn!flush, TheTurn!stream_event_error,
         TheTurn!rethrow_network_failure, TheTurn!Fail, TurnInv
    <3>3. CASE TheTurn!on_chunk_settles \/ TheTurn!TimesOut \/ TheTurn!UserAborts \/ UNCHANGED TheTurn!vars
      BY <3>3 DEF TheTurn!on_chunk_settles, TheTurn!TimesOut, TheTurn!UserAborts, TheTurn!vars, TheTurn!Fail,
           TurnInv
    <3> QED BY <1>8, <3>1, <3>2, <3>3
  <2>2. ChunkInv'
    BY <2>1, ChunksStay
  <2> QED BY <1>2, <1>3, <2>1, <2>2 DEF TurnInv
<1> QED BY <1>4, <1>5, <1>6, <1>7, <1>8 DEF TheTurn!Next, TheTurn!Engine

(* Once a consumer has seen a chunk of one attempt of a turn, no other     *)
(* begins, whatever the first one failed of (retry_turn in                 *)
(* src/src/engine/generate.ts): for any of the dialects, any answer, any   *)
(* number of attempts and any kinds of failure to retry.                   *)
THEOREM OneAttempt == TheTurn!Spec => []OneAttemptIsSeen
<1>1. TurnInv => OneAttemptIsSeen
  <2> SUFFICES ASSUME TurnInv, tn_seen # <<>> PROVE tn_seen[1].attempt = tn_attempt
    BY DEF OneAttemptIsSeen, TheTurn!OneAttemptIsSeen
  <2>1. PICK B : tn_seen \in Seq(TurnChunks(B))
    BY DEF TurnInv, ChunkInv
  <2>2. tn_seen[1] \in TurnChunks(B)
    BY <2>1
  <2> QED BY <2>2 DEF TurnChunks
<1> QED BY <1>1, TurnStarts, TurnSteps, PTL DEF TheTurn!Spec
=============================================================================
