--------------------------- MODULE StreamTransform ---------------------------
(***************************************************************************)
(* A streamed message, from the request to the last event the client gets: *)
(* transformStream (lib/transformers/stream.ts), the retry engine it calls *)
(* (RetryEngine), and the stream of lib/runtime/agent/model-runtime.ts     *)
(* that passes its events on and looks for a cancellation at each of them. *)
(*                                                                         *)
(* Abstracted: pings; of text only whether some is held back, because it   *)
(* ends as a tag or an action marker begins; a chunk from upstream is one  *)
(* part or a finish reason.  A client that closes its end is not seen: the *)
(* generator runs on and its events go nowhere.                            *)
(***************************************************************************)
EXTENDS RetryEngine

CONSTANTS
    Routes,          \* the routes requests may come with
    ForcedRoute,     \* the gemma models, for an empty answer without a fallback
    GemmaModels,
    MaxParts         \* bound: how many chunks an answer has

ASSUME StreamAssumption == Routes \subseteq Route /\ ForcedRoute \in Route /\ MaxParts \in Nat

VARIABLES
    stage,           \* what transformStream does
    plan,            \* routePlan
    request,         \* geminiReq
    run,             \* which call of the engine is under way, or was last
    parts,           \* chunks of the answer so far
    open,            \* inContentBlock, inThinking, inToolCall: the kind of the open block
    index,           \* contentBlockIndex
    held,            \* outputTextLength < cleanedText.length
    signed,          \* pendingThinkingSignature # null
    sawAny, sawTool, \* sawAnyOutput, sawToolUse
    finish,          \* finalFinishReason
    fault,           \* history: how the last answer went wrong
    out,             \* events yielded and not yet passed on
    phase, block, delta, number, blocks, tools, reason    \* what the client was told

client == <<phase, block, delta, number, blocks, tools, reason>>
text   == <<open, index, held, signed, sawAny, sawTool, finish>>
vars   == <<engine, stage, plan, request, run, parts, text, fault, out, client>>

Client == INSTANCE ClientProtocol

Stages == {"start", "transforming", "searching", "ready", "waiting", "draining", "drained",
           "closing", "over", "rejected"}
Runs   == [of : {"first", "compacted", "extra", "empty"}, n : 0 .. 3]

-----------------------------------------------------------------------------
(* Events.                                                                 *)

Said(what)     == [what |-> what, kind |-> "none", index |-> 0]
Opens(k, i)    == [what |-> "block_start", kind |-> k, index |-> i]
Fills(k, i)    == [what |-> "block_delta", kind |-> k, index |-> i]
Closes(i)      == [what |-> "block_stop", kind |-> "none", index |-> i]
Concludes(why) == [what |-> "message_delta", kind |-> why, index |-> 0]

Gone == <<Said("error"), Said("message_stop")>>

\* The client's side of an event; it does not check what it is told.
Hear(e) ==
    /\ phase' = CASE e.what = "message_start" -> "open"
                  [] e.what = "message_delta" -> "concluded"
                  [] e.what = "error"         -> "failed"
                  [] e.what = "message_stop"  -> IF phase = "failed" THEN "ended" ELSE "stopped"
                  [] OTHER                    -> phase
    /\ block' = CASE e.what = "block_start" -> e.kind [] e.what = "block_stop" -> "none"
                  [] OTHER -> block
    /\ delta' = CASE e.what = "block_start" -> "none" [] e.what = "block_delta" -> e.kind
                  [] OTHER -> delta
    /\ number' = IF e.what \in {"block_start", "block_delta", "block_stop"} THEN e.index ELSE number
    /\ blocks' = IF e.what = "block_stop" THEN blocks + 1 ELSE blocks
    /\ tools' = (tools \/ (e.kind = "tool_use" /\ e.what = "block_start"))
    /\ reason' = IF e.what = "message_delta" THEN e.kind ELSE reason

Deliver ==
    /\ out # <<>> /\ Hear(Head(out)) /\ out' = Tail(out)
    /\ UNCHANGED <<engine, stage, plan, request, run, parts, text, fault>>

\* The consumer of the generator finds the request cancelled: what it holds is
\* dropped, an error is sent and the stream is closed.
Cancel ==
    /\ out # <<>> /\ out' = <<>> /\ stage' = "over" /\ phase' = "cut off"
    /\ UNCHANGED <<engine, plan, request, run, parts, text, fault, block, delta, number, blocks,
                   tools, reason>>

-----------------------------------------------------------------------------
(* Before the answer.                                                      *)

Quiet == UNCHANGED client /\ out = <<>>

Start ==
    /\ stage = "start" /\ Quiet /\ stage' = "transforming" /\ out' = <<Said("message_start")>>
    /\ UNCHANGED <<engine, plan, request, run, parts, text, fault>>

\* transformRequestToGemini fails.
Reject ==
    /\ stage = "transforming" /\ Quiet /\ stage' = "rejected" /\ out' = <<Said("error")>>
    /\ UNCHANGED <<engine, plan, request, run, parts, text, fault>>

Transform ==
    /\ stage = "transforming" /\ Quiet /\ stage' \in {"searching", "ready"}
    /\ UNCHANGED <<engine, plan, request, run, parts, text, fault, out>>

\* The web search loop ends with an answer, which is the message ...
AnswerFromSearch ==
    /\ stage = "searching" /\ Quiet /\ stage' = "over"
    /\ out' = <<Opens("text", index), Fills("text", index), Closes(index),
                Concludes("end_turn"), Said("message_stop")>>
    /\ sawAny' = TRUE /\ index' = index + 1
    /\ UNCHANGED <<engine, plan, request, run, parts, open, held, signed, sawTool, finish, fault>>

\* ... or without one.
SearchOnly ==
    /\ stage = "searching" /\ Quiet /\ stage' = "ready"
    /\ UNCHANGED <<engine, plan, request, run, parts, text, fault, out>>

\* What is in s other than m, each once.
Others(s, m) ==
    LET kept[i \in 0 .. Len(s)] ==
            IF i = 0 THEN <<>>
            ELSE IF s[i] = m \/ \E j \in DOMAIN kept[i - 1] : kept[i - 1][j] = s[i]
                   THEN kept[i - 1] ELSE Append(kept[i - 1], s[i])
    IN  kept[Len(s)]

\* Other models for a request whose answer was empty.
Candidates == Others(plan.fallback, plan.primary)

CanRetryEmpty == Candidates # <<>> \/ plan.primary \notin GemmaModels

EmptyRetryRoute(n) ==
    IF Candidates = <<>> THEN ForcedRoute
    ELSE LET i == Smaller(n, Len(Candidates))
         IN  [primary |-> Candidates[i], fallback |-> SubSeq(Candidates, i + 1, Len(Candidates))]

Submit ==
    /\ stage = "ready" /\ Quiet /\ stage' = "waiting" /\ parts' = 0 /\ fault' = "none"
    /\ LET r == IF run.of = "empty" THEN EmptyRetryRoute(run.n) ELSE plan
       IN  \E b \in IF run.of = "compacted" \/ run = [of |-> "extra", n |-> 1]
                      THEN Compactions(request) ELSE {request} : Begin(r, b)
    /\ UNCHANGED <<plan, request, run, text, out, client>>

Work ==
    /\ stage = "waiting" /\ Execute
    /\ UNCHANGED <<stage, plan, request, run, parts, text, fault, out, client>>

\* The engine has thrown.
GoOn(r) == run' = r /\ stage' = "ready" /\ UNCHANGED out

Thrown ==
    /\ stage = "waiting" /\ at \in {"overloaded", "failed"} /\ Quiet /\ Leave
    /\ \/ /\ run.of = "first" /\ at = "overloaded"
          /\ GoOn([of |-> "compacted", n |-> 0]) \/ GoOn([of |-> "extra", n |-> 1])
       \/ run.of = "compacted" /\ GoOn([of |-> "extra", n |-> 1])
       \/ run.of = "extra" /\ run.n < 3 /\ GoOn([of |-> "extra", n |-> run.n + 1])
       \/ /\ (run.of = "first" /\ at = "failed") \/ (run.of = "extra" /\ run.n = 3)
          /\ stage' = "over" /\ out' = Gone /\ UNCHANGED run
       \/ run.of = "empty" /\ stage' = "closing" /\ UNCHANGED <<run, out>>
    /\ UNCHANGED <<plan, request, parts, text, fault>>

Answered ==
    /\ stage = "waiting" /\ at = "ok" /\ Quiet /\ Leave /\ stage' = "draining"
    /\ UNCHANGED <<plan, request, run, parts, text, fault, out>>

-----------------------------------------------------------------------------
(* The answer: drainGeminiResponse, processLine.                           *)

\* What closes the open block: text held back, or a signature, and the stop.
Closing ==
    CASE open = "none"     -> <<>>
      [] open = "text"     -> (IF held THEN <<Fills("text", index)>> ELSE <<>>) \o <<Closes(index)>>
      [] open = "thinking" -> (IF signed THEN <<Fills("thinking", index)>> ELSE <<>>) \o <<Closes(index)>>
      [] open = "tool_use" -> <<Closes(index)>>

\* Mutant: a block does not count once it is closed.
SameIndex == index

\* The number of the block that opens next.
NextIndex == IF open = "none" THEN index ELSE index + 1

Chunk ==
    /\ stage = "draining" /\ Quiet /\ parts < MaxParts /\ parts' = parts + 1
    /\ UNCHANGED <<engine, stage, plan, request, run, fault>>

\* A part of thought.  A pending signature is dropped when thinking opens, and
\* stays when it is open already.
Thought ==
    /\ Chunk /\ \E s \in BOOLEAN :
       IF open = "thinking"
         THEN /\ out' = <<Fills("thinking", index)>> /\ signed' = (signed \/ s)
              /\ UNCHANGED <<index, open>>
         ELSE /\ out' = Closing \o <<Opens("thinking", NextIndex), Fills("thinking", NextIndex)>>
              /\ index' = NextIndex /\ open' = "thinking" /\ signed' = s
    /\ sawAny' = TRUE /\ UNCHANGED <<held, sawTool, finish>>

\* A part of text, in a text block, which opens for it if need be.
InText(i, events_) ==
    out' = (IF open = "text" THEN <<>> ELSE Closing \o <<Opens("text", NextIndex)>>) \o events_

TextIndex == IF open = "text" THEN index ELSE NextIndex

\* Text of which some is shown, and some perhaps held back ...
ShowText ==
    /\ Chunk /\ InText(TextIndex, <<Fills("text", TextIndex)>>)
    /\ open' = "text" /\ index' = TextIndex /\ held' \in BOOLEAN /\ sawAny' = TRUE
    /\ signed' = (signed /\ open # "thinking") /\ UNCHANGED <<sawTool, finish>>

\* ... or of which nothing is shown: it is held back, or hidden in a think tag.
HideText ==
    /\ Chunk /\ InText(TextIndex, <<>>)
    /\ open' = "text" /\ index' = TextIndex /\ held' \in BOOLEAN
    /\ signed' = (signed /\ open # "thinking") /\ UNCHANGED <<sawAny, sawTool, finish>>

\* Text with an action marker in full becomes a tool call between two blocks of
\* text; there may be text before it and after it.
RecoverAction ==
    /\ Chunk
    /\ \E before, after \in BOOLEAN :
       InText(TextIndex,
              (IF before THEN <<Fills("text", TextIndex)>> ELSE <<>>)
              \o <<Closes(TextIndex), Opens("tool_use", TextIndex + 1),
                   Fills("tool_use", TextIndex + 1), Closes(TextIndex + 1),
                   Opens("text", TextIndex + 2)>>
              \o (IF after THEN <<Fills("text", TextIndex + 2)>> ELSE <<>>))
    /\ open' = "text" /\ index' = TextIndex + 2 /\ held' \in BOOLEAN
    /\ sawAny' = TRUE /\ sawTool' = TRUE
    /\ signed' = (signed /\ open # "thinking") /\ UNCHANGED finish

\* A function call.
CallTool ==
    /\ Chunk
    /\ out' = Closing \o <<Opens("tool_use", NextIndex), Fills("tool_use", NextIndex)>>
    /\ open' = "tool_use" /\ index' = NextIndex /\ sawAny' = TRUE /\ sawTool' = TRUE
    /\ signed' = (signed /\ open # "thinking") /\ UNCHANGED <<held, finish>>

\* The last chunk usually brings a reason.
Finish ==
    /\ Chunk /\ finish' \in {"STOP", "MAX_TOKENS", "SAFETY"} /\ finish # finish'
    /\ UNCHANGED <<open, index, held, signed, sawAny, sawTool, out>>

\* The answer ends, or nothing came for 90 seconds.
EndAnswer ==
    /\ stage = "draining" /\ Quiet /\ stage' = "drained" /\ fault' \in {"none", "stalled"}
    /\ UNCHANGED <<engine, plan, request, run, parts, text, out>>

\* Mutant: the broken stream is closed like any other.
BreakQuietly ==
    /\ stage = "draining" /\ Quiet /\ fault' = "broken" /\ stage' = "closing"
    /\ UNCHANGED <<engine, plan, request, run, parts, text, out>>

\* There is no body, or reading it fails.  In a retry of an empty answer that is
\* caught, and the message closes as if the answer had ended; elsewhere the open
\* block is closed and the error told.
Break ==
    /\ stage = "draining" /\ Quiet /\ fault' = "broken"
    /\ IF run.of = "empty"
         THEN stage' = "closing" /\ UNCHANGED out
         ELSE /\ stage' = "over"
              /\ out' = (IF open = "none" THEN <<>> ELSE <<Closes(index)>>)
                        \o <<Concludes(IF sawTool THEN "tool_use" ELSE "end_turn")>> \o Gone
    /\ UNCHANGED <<engine, plan, request, run, parts, text>>

\* Mutant: nothing limits the retries of empty answers.
AgainForever ==
    /\ stage = "drained" /\ Quiet
    /\ IF ~sawAny /\ ~sawTool /\ CanRetryEmpty
         THEN /\ stage' = "ready" /\ run' = [of |-> "empty", n |-> 1]
              /\ finish' = "none" /\ held' = FALSE /\ signed' = FALSE
         ELSE stage' = "closing" /\ UNCHANGED <<run, finish, held, signed>>
    /\ UNCHANGED <<engine, plan, request, parts, open, index, sawAny, sawTool, fault, out>>

\* An answer without any content is asked for again, twice at most.
Again ==
    /\ stage = "drained" /\ Quiet
    /\ LET retries == IF run.of = "empty" THEN run.n ELSE 0
       IN  IF ~sawAny /\ ~sawTool /\ CanRetryEmpty /\ retries < 2
             THEN /\ stage' = "ready" /\ run' = [of |-> "empty", n |-> retries + 1]
                  /\ finish' = "none" /\ held' = FALSE /\ signed' = FALSE
             ELSE stage' = "closing" /\ UNCHANGED <<run, finish, held, signed>>
    /\ UNCHANGED <<engine, plan, request, parts, open, index, sawAny, sawTool, fault, out>>

\* Why the message ends.
StopReason ==
    CASE finish = "MAX_TOKENS" -> "max_tokens"
      [] finish # "MAX_TOKENS" /\ sawTool -> "tool_use"
      [] OTHER -> IF finish = "SAFETY" THEN "content_filter" ELSE "end_turn"

\* The closing events; a message with nothing in it gets a block that says so.
Close ==
    /\ stage = "closing" /\ Quiet /\ stage' = "over"
    /\ LET shown == sawAny \/ sawTool \/ (open = "text" /\ held)
       IN  /\ out' = Closing
                     \o (IF shown THEN <<>>
                         ELSE <<Opens("text", NextIndex), Fills("text", NextIndex), Closes(NextIndex)>>)
                     \o <<Concludes(StopReason), Said("message_stop")>>
           /\ sawAny' = (sawAny \/ (open = "text" /\ held))
    /\ UNCHANGED <<engine, plan, request, run, parts, open, index, held, signed, sawTool, finish, fault>>

Answer ==
    \/ Thought \/ ShowText \/ HideText \/ RecoverAction \/ CallTool \/ Finish
    \/ EndAnswer \/ Break \/ Again \/ Close

Progress ==
    \/ Deliver \/ Start \/ Reject \/ Transform \/ AnswerFromSearch \/ SearchOnly
    \/ Submit \/ Work \/ Thrown \/ Answered \/ Answer

Init ==
    /\ EngineInit /\ Client!Init
    /\ stage = "start" /\ plan \in Routes /\ request \in Bodies
    /\ run = [of |-> "first", n |-> 0] /\ parts = 0 /\ out = <<>> /\ fault = "none"
    /\ open = "none" /\ index = 0 /\ held = FALSE /\ signed = FALSE
    /\ sawAny = FALSE /\ sawTool = FALSE /\ finish = "none"

Next == Progress \/ Cancel

\* Calls time out, reads time out after 90 seconds, the consumer takes what is
\* yielded: nothing keeps the generator from going on.
Spec == Init /\ [][Next]_vars /\ WF_vars(Progress)

-----------------------------------------------------------------------------
(* Properties.                                                             *)

Over == stage \in {"over", "rejected"} /\ out = <<>>

\* Whatever calls, retries and chunks come, the events keep to the protocol:
\* blocks in order and of one kind, none left open before the end is told.
KeepsToProtocol == Client!Spec

\* "Always close the SSE protocol frame to prevent client-side hangs": every
\* request gets to the end of its message.
EveryRequestIsAnswered == <>Over

ReadToItsEnd == fault = "none"

\* A message that ends without an error has a block in it and was read to its
\* end, unless nothing came for 90 seconds, when it ends as if it were complete, or
\* the answer broke off in a retry of an empty one; only the request that could not
\* be transformed ends without a message_stop; and "emitting 'tool_use' would mislead
\* Claude Code into thinking tool execution completed normally" (stream.ts 756-757):
\* a message cut short for want of tokens says so, unless reading the answer failed
\* after that was known.
EndsAsItWent ==
    /\ Over => /\ (phase = "failed") <=> (stage = "rejected")
               /\ phase = "stopped" =>
                     blocks > 0 /\ (ReadToItsEnd \/ fault = "stalled" \/ run.of = "empty")
    /\ reason = "tool_use" /\ finish = "MAX_TOKENS" => fault = "broken"

\* "thoughtSignatures are only valid for the model that produced them" (retry-engine.ts
\* 415), which the code takes to be the primary of the request's plan.  No call of a
\* message, its compacted requests and extra rounds included, takes signatures or
\* thinking to another model, but for two ways: models race, or an empty answer is
\* asked for again, when the other model is the primary of a route of its own; and no
\* attempt parts thinking from the signatures of its function calls.
ThoughtStaysWithPrimary ==
    /\ ThinkingKeepsSignatures
    /\ CarriesThought /\ ~(Asked \subseteq {plan.primary}) =>
          at = "raced" \/ (run.of = "empty" /\ Asked = {route.primary})
=============================================================================
