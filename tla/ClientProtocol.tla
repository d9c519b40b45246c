--------------------------- MODULE ClientProtocol ---------------------------
(***************************************************************************)
(* What a client may rely on in the events of a streamed message, whatever *)
(* the upstream model does: the message opens once; its content blocks are *)
(* numbered from zero, one after another, each opened, filled with deltas  *)
(* of its own kind and closed; a message that ends well says how it ended  *)
(* after its last block, and that a tool was called only if one was.       *)
(* transformStream (lib/transformers/stream.ts) and the stream around it   *)
(* (lib/runtime/agent/model-runtime.ts) are meant to keep to it.           *)
(***************************************************************************)
EXTENDS Naturals

VARIABLES
    phase,           \* how far the message is
    block,           \* the kind of the open block, or "none"
    delta,           \* the kind of the last delta in the open block, or "none"
    number,          \* the number of the block last heard of
    blocks,          \* how many blocks are closed
    tools,           \* whether a tool call was among them
    reason           \* stop_reason, or "none"

message == <<phase, block, delta, number, blocks, tools, reason>>

Phases  == {"silent", "open", "concluded", "failed", "stopped", "ended", "cut off"}
Kinds   == {"text", "thinking", "tool_use"}
Reasons == {"end_turn", "max_tokens", "tool_use", "content_filter"}

Init ==
    /\ phase = "silent" /\ block = "none" /\ delta = "none" /\ number = 0 /\ blocks = 0
    /\ tools = FALSE /\ reason = "none"

\* message_start
Greet ==
    /\ phase = "silent" /\ phase' = "open"
    /\ UNCHANGED <<block, delta, number, blocks, tools, reason>>

\* content_block_start
OpenBlock ==
    /\ phase = "open" /\ block = "none" /\ block' \in Kinds /\ number' = blocks
    /\ delta' = "none" /\ tools' = (tools \/ block' = "tool_use")
    /\ UNCHANGED <<phase, blocks, reason>>

\* content_block_delta
Fill ==
    /\ phase = "open" /\ block # "none" /\ delta' = block
    /\ UNCHANGED <<phase, block, number, blocks, tools, reason>>

\* content_block_stop
CloseBlock ==
    /\ phase = "open" /\ block # "none" /\ block' = "none" /\ blocks' = blocks + 1
    /\ UNCHANGED <<phase, delta, number, tools, reason>>

\* message_delta
Conclude ==
    /\ phase = "open" /\ block = "none" /\ phase' = "concluded"
    /\ reason' \in Reasons /\ (reason' = "tool_use" => tools)
    /\ UNCHANGED <<block, delta, number, blocks, tools>>

\* error, between blocks
Fail ==
    /\ phase \in {"open", "concluded"} /\ block = "none" /\ phase' = "failed"
    /\ UNCHANGED <<block, delta, number, blocks, tools, reason>>

\* message_stop, after an error or not
Stop ==
    /\ \/ phase = "concluded" /\ phase' = "stopped"
       \/ phase = "failed" /\ phase' = "ended"
    /\ UNCHANGED <<block, delta, number, blocks, tools, reason>>

\* The request is cancelled: an error at any place, and no more.
CutOff ==
    /\ phase \notin {"stopped", "ended"} /\ phase' = "cut off"
    /\ UNCHANGED <<block, delta, number, blocks, tools, reason>>

Next == Greet \/ OpenBlock \/ Fill \/ CloseBlock \/ Conclude \/ Fail \/ Stop \/ CutOff

Spec == Init /\ [][Next]_message
=============================================================================
