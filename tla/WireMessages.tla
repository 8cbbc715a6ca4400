---------------------------- MODULE WireMessages ----------------------------
(* What goes to a provider and comes back: the engine's transcript, which  *)
(* the tool loop grows turn by turn, and the messages that each native     *)
(* adapter and the AI SDK's write of it, src/src/engine/providers.  A flow *)
(* may fall back to another provider at any turn, so every transcript is   *)
(* written for every wire.                                                 *)
EXTENDS Naturals, Sequences, FiniteSets, SequencesExt

CONSTANTS
  Wires,      \* of "anthropic", "chat", "ollama" and "ai_sdk"
  Key(_),     \* the key a wire's provider data goes under
  MaxParts,   \* bound of the model: the blocks of a reply
  MaxTurns,   \* bound of the model: the turns of a transcript
  None

VARIABLES
  messages,   \* the transcript: Message[]
  owed,       \* the tool calls of the last turn that are not answered yet
  paused,     \* the provider that paused its turn, which goes on
  turns,
  replies     \* what the providers replied, in order

vars == <<messages, owed, paused, turns, replies>>

(* A block, a part and a wire's block are alike: what it is, the key that  *)
(* its data goes under, and the block of a reply that it was.              *)
Block(kind, key, id) == [kind |-> kind, key |-> key, id |-> id]

(* What a provider replies.  A "blank" is text with nothing but spaces,    *)
(* "unsigned" is reasoning that carries no data.                           *)
Kinds(w) ==
  {"text", "blank", "call"}
    \union (IF w = "ollama" THEN {} ELSE {"reasoning"})
    \union (IF w = "anthropic" THEN {"opaque", "unsigned"} ELSE {})

Replies(w) ==
  {[i \in 1..Len(kinds) |-> Block(kinds[i], IF kinds[i] = "unsigned" THEN None ELSE Key(w), <<turns + 1, i>>)] :
     kinds \in SeqOf(Kinds(w), MaxParts)}

Init ==
  /\ messages = <<[role |-> "user", parts |-> <<Block("text", None, <<0, 0>>)>>]>>
  /\ owed = <<>> /\ paused = None /\ turns = 0 /\ replies = <<>>

----------------------------------------------------------------------------
(* Reading a reply.                                                        *)

Of(parts, kinds) == SelectSeq(parts, LAMBDA b : b.kind \in kinds)

IsText == {"text", "blank"}

(* The text of a turn, as one part: of what is not blank, if any is.       *)
JoinedText(parts) ==
  LET said == Of(parts, {"text"})  blank == Of(parts, {"blank"}) IN
  IF said # <<>> THEN <<Head(said)>> ELSE IF blank # <<>> THEN <<Head(blank)>> ELSE <<>>

carries_provider_data(parts) == Of(parts, {"reasoning", "unsigned", "opaque"}) # <<>>

with_reasoning_content(reply) == Of(reply, {"reasoning"}) \o JoinedText(reply) \o Of(reply, {"call"})

to_turn_content(reply) == IF Of(reply, {"reasoning", "unsigned"}) = <<>> THEN <<>> ELSE reply

(* TurnResult.content, or nothing for a turn that is plain text and calls. *)
TurnContent(w, reply) ==
  CASE w = "anthropic" -> IF carries_provider_data(reply) THEN reply ELSE <<>>
    [] w = "chat" -> IF Of(reply, {"reasoning"}) # <<>> THEN with_reasoning_content(reply) ELSE <<>>
    [] w = "ollama" -> <<>>
    [] w = "ai_sdk" -> to_turn_content(reply)

build_assistant_message(w, reply) ==
  LET content == TurnContent(w, reply) IN
  [role |-> "assistant", parts |-> IF content # <<>> THEN content ELSE JoinedText(reply) \o Of(reply, {"call"})]

----------------------------------------------------------------------------
(* Writing the transcript for a wire.                                      *)

is_own_reasoning(part, w) == part.kind = "reasoning" /\ part.key = Key(w)

SplitParts(parts, w) ==
  SelectSeq(parts, LAMBDA b : is_own_reasoning(b, w)) \o JoinedText(parts) \o Of(parts, {"call"})

(* An assistant's message on each wire.                                    *)
to_assistant_blocks(parts) ==
  SelectSeq(parts, LAMBDA b :
    \/ b.kind \in {"text", "call"}
    \/ is_own_reasoning(b, "anthropic")
    \/ b.kind = "opaque" /\ b.key = Key("anthropic"))

to_assistant_message(parts) == SplitParts(parts, "chat")

to_ollama_message(parts) == Of(SplitParts(parts, "ollama"), IsText \union {"call"})

to_sdk_message(parts) == SelectSeq(parts, LAMBDA b : b.kind \in {"text", "blank", "call"} \/ is_own_reasoning(b, "ai_sdk"))

WireParts(w, parts) ==
  CASE w = "anthropic" -> to_assistant_blocks(parts)
    [] w = "chat" -> to_assistant_message(parts)
    [] w = "ollama" -> to_ollama_message(parts)
    [] w = "ai_sdk" -> to_sdk_message(parts)

(* The Messages API has no role of its own for tool results.               *)
WireRole(w, m) == IF w = "anthropic" /\ m.role = "tool" THEN "user" ELSE m.role

WireMessage(w, m) ==
  [role |-> WireRole(w, m), parts |-> IF m.role = "assistant" THEN WireParts(w, m.parts) ELSE m.parts]

(* Mutant: two messages of one role stay two.                              *)
push_each(out, m) == IF m.parts = <<>> THEN out ELSE Append(out, m)

(* Messages of one role that follow each other are merged, and an empty    *)
(* one is left out.                                                        *)
push_blocks(out, m) ==
  IF m.parts = <<>> THEN out
  ELSE IF out # <<>> /\ Last(out).role = m.role THEN [out EXCEPT ![Len(out)].parts = @ \o m.parts]
  ELSE Append(out, m)

ToWire(w) ==
  LET mapped == [i \in 1..Len(messages) |-> WireMessage(w, messages[i])] IN
  IF w = "anthropic" THEN FoldLeft(push_blocks, <<>>, mapped) ELSE mapped

----------------------------------------------------------------------------
(* The tool loop.                                                          *)

Calls(parts) == [i \in 1..Len(Of(parts, {"call"})) |-> Of(parts, {"call"})[i].id]

Replied(w, reply) ==
  /\ turns < MaxTurns /\ owed = <<>>
  /\ Last(messages).role # "assistant" \/ paused = w
  /\ turns' = turns + 1
  /\ replies' = Append(replies, [by |-> w, blocks |-> reply])

Turn(w, reply) ==
  /\ Replied(w, reply)
  /\ messages' = Append(messages, build_assistant_message(w, reply))
  /\ owed' = Calls(reply)
  /\ paused' = None

(* A turn without calls that its provider paused is sent back as it is.    *)
continue_paused_turn(w, reply) ==
  /\ w \in {"anthropic", "ai_sdk"} /\ Calls(reply) = <<>>
  /\ Replied(w, reply)
  /\ messages' = Append(messages, build_assistant_message(w, reply))
  /\ owed' = <<>>
  /\ paused' = w

(* A turn cut off before it made a call leaves its text and a notice.      *)
continue_truncated_turn(w, reply) ==
  /\ Calls(reply) = <<>>
  /\ Replied(w, reply)
  /\ messages' = messages
       \o (IF Of(reply, {"text"}) = <<>> THEN <<>> ELSE <<[role |-> "assistant", parts |-> JoinedText(reply)]>>)
       \o <<[role |-> "user", parts |-> <<Block("text", None, <<turns, 0>>)>>]>>
  /\ owed' = <<>> /\ paused' = None

AnswersCall ==
  /\ owed # <<>>
  /\ messages' = Append(messages, [role |-> "tool", parts |-> <<Block("result", None, Head(owed))>>])
  /\ owed' = Tail(owed)
  /\ UNCHANGED <<paused, turns, replies>>

UserSpeaks ==
  /\ owed = <<>> /\ paused = None /\ Last(messages).role # "user" /\ turns < MaxTurns
  /\ messages' = Append(messages, [role |-> "user", parts |-> <<Block("text", None, <<turns, 0>>)>>])
  /\ UNCHANGED <<owed, paused, turns, replies>>

Next ==
  \/ \E w \in Wires : \E reply \in Replies(w) : Turn(w, reply) \/ continue_paused_turn(w, reply) \/ continue_truncated_turn(w, reply)
  \/ AnswersCall \/ UserSpeaks

Spec == Init /\ [][Next]_vars

----------------------------------------------------------------------------
(* Properties.                                                             *)

AllParts(wire) == FlattenSeq([i \in 1..Len(wire) |-> wire[i].parts])

(* On the Messages API the roles alternate from the user's on, no message  *)
(* is empty, and the calls of a message are all answered at the start of   *)
(* the next one.                                                           *)
Alternates(wire) ==
  /\ \A i \in 1..Len(wire) : wire[i].parts # <<>> /\ wire[i].role = IF i % 2 = 1 THEN "user" ELSE "assistant"
  /\ \A i \in 1..Len(wire) : Calls(wire[i].parts) # <<>> =>
       /\ i < Len(wire)
       /\ [k \in 1..Len(Calls(wire[i].parts)) |-> wire[i + 1].parts[k].id] = Calls(wire[i].parts)

(* On the others the results of a message's calls follow it, in order,     *)
(* which is all that Ollama's, which have no ids, go by.                   *)
AnswersFollow(wire) ==
  \A i \in 1..Len(wire) : wire[i].role = "assistant" =>
    LET calls == Calls(wire[i].parts) IN
    \A k \in 1..Len(calls) : i + k <= Len(wire) /\ wire[i + k].role = "tool" /\ wire[i + k].parts[1].id = calls[k]

(* A provider gets back the reasoning and the opaque blocks of its turns   *)
(* as they were and where they were, before or after the calls they came   *)
(* with (on the Messages API), and none of another's.  (What a truncated   *)
(* turn reasoned is left out.)                                             *)
OwnDataComesBack(w, wire) ==
  LET Data(parts) == SelectSeq(parts, LAMBDA b : b.kind \in {"reasoning", "opaque", "call"})
      sent == Data(AllParts(wire))
      came == FlattenSeq([i \in 1..Len(replies) |-> IF replies[i].by = w THEN Data(replies[i].blocks) ELSE <<>>])
      kept == {AllParts(messages)[i].id : i \in 1..Len(AllParts(messages))}
  IN /\ \A i \in 1..Len(sent) : sent[i].kind \in {"reasoning", "opaque"} => sent[i].key = Key(w)
     /\ w = "anthropic" =>
          SelectSeq(sent, LAMBDA b : replies[b.id[1]].by = w) = SelectSeq(came, LAMBDA b : b.id \in kept)

(* Every request that the loop can send, on whatever wire the flow falls   *)
(* back to, is one that the wire's API takes, and carries back to a        *)
(* provider what is its own.                                               *)
RequestsAreWellFormed ==
  owed = <<>> =>
    \A w \in Wires :
      LET wire == ToWire(w) IN
      /\ IF w = "anthropic" THEN Alternates(wire) ELSE AnswersFollow(wire)
      /\ OwnDataComesBack(w, wire)
=============================================================================
