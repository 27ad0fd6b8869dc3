------------------------------ MODULE Streams ------------------------------
(***************************************************************************)
(* What a client of the three streaming interfaces is sent: the chat       *)
(* completion chunks, the items of the Responses interface, the content    *)
(* blocks of the Messages interface.                                       *)
(*                                                                         *)
(* The upstream answer comes in frames: thoughts, pieces of text cut at    *)
(* any place, an end, an error.  When the request names tools, the sieve   *)
(* holds back what may be the beginning of a tool call.  The opening tag   *)
(* of a block of calls is two characters, which stand for any way to cut   *)
(* it in two: "lt", "tag", if the first part is "<" or in lower case, and  *)
(* "torn", "tag", if the first part has a capital and the rest comes in    *)
(* another piece.  The sieve finds a tag in any case but holds back only   *)
(* what is in lower case.                                                  *)
(*                                                                         *)
(* With features.thinking_summary the first thoughts may be held back, for *)
(* as long as their language is not known: those still held when upstream  *)
(* says that it stops are sent then, after the text.                       *)
(***************************************************************************)
EXTENDS Integers, Sequences, SequencesExt

CONSTANTS MaxChars,  \* bound on the text of an answer
          MaxFrames, \* bound on the frames of an answer
          Retries    \* selection_max_retries

ASSUME StreamsAssumption == {MaxChars, MaxFrames, Retries} \subseteq Nat

VARIABLES
    api,       \* the interface
    tools,     \* the request names tools
    phase,     \* of the generator
    tries,     \* attempt
    sieve,     \* the ToolSieve of this attempt
    started,   \* _content_started of the StreamAdapter
    held,      \* the ReasoningAggregator has pending events
    blocks,    \* blocks (items) begun in this attempt, by index
    marks,     \* what else the client was sent in this attempt
    forwarded, \* the text it was sent in this attempt
    fed        \* history: the text of this attempt's answer

streamVars == <<api, tools, phase, tries, sieve, started, held, blocks,
                marks, forwarded, fed>>

Api == {"chat", "responses", "messages"}
Char == {"word", "lt", "torn", "tag", "close"}
Chunk == {c \in BoundedSeq(Char, MaxChars) \ {<<>>} :
            \A i \in 1 .. Len(c) - 1 : c[i] # "torn"}

Block == [kind : {"think", "text", "calls"}, index : Nat, open : BOOLEAN]
Empty == [buf |-> <<>>, capturing |-> FALSE, done |-> FALSE]

StreamPhase == {"new", "streaming", "stopping", "ended", "failed"}
StreamMark == {"start", "think", "late", "calls", "final", "done"}

StreamsTypeOK ==
    /\ api \in Api /\ tools \in BOOLEAN /\ phase \in StreamPhase
    /\ tries \in 0 .. Retries
    /\ sieve \in [buf : Seq(Char), capturing : BOOLEAN, done : BOOLEAN]
    /\ started \in BOOLEAN /\ held \in BOOLEAN
    /\ blocks \in Seq(Block) /\ marks \in Seq(StreamMark)
    /\ forwarded \in Seq(Char) /\ fed \in Seq(Char)

StreamsInit ==
    /\ api \in Api
    /\ tools \in BOOLEAN
    /\ phase = "new" /\ tries = 0
    /\ sieve = Empty
    /\ started = FALSE /\ held = FALSE
    /\ blocks = <<>> /\ marks = <<>>
    /\ forwarded = <<>> /\ fed = <<>>

-----------------------------------------------------------------------------
(* The sieve.                                                              *)

OpensAt(text, i) == text[i] = "lt" /\ text[i + 1] = "tag"
Openings(text) == {i \in 1 .. Len(text) - 1 : OpensAt(text, i)}
Opens(text) == Openings(text) # {}
FirstOpening(text) == CHOOSE i \in Openings(text) :
                         \A j \in Openings(text) : i <= j

(* A slip: the end of a chunk is not looked at.                            *)
LeftoverNone(text) == <<>>

(* _split_at_boundary: what may be the first part of an opening tag, as it *)
(* is written in lower case.  A "torn" one is not held back.               *)
Leftover(text) == IF text # <<>> /\ Last(text) = "lt" THEN <<"lt">> ELSE <<>>

Closes(text) == \E i \in 1 .. Len(text) : text[i] = "close"

(* feed: the sieve after a chunk, the text that is safe, and whether a     *)
(* whole block has been found.                                             *)
Feed(chunk) ==
    LET all == sieve.buf \o chunk
        cut == IF sieve.capturing THEN 1 ELSE FirstOpening(all)
        block == SubSeq(all, cut, Len(all))
    IN IF ~sieve.capturing /\ ~Opens(all)
       THEN [sieve |-> [sieve EXCEPT !.buf = Leftover(all)],
             safe |-> SubSeq(all, 1, Len(all) - Len(Leftover(all))),
             found |-> FALSE]
       ELSE [sieve |-> IF Closes(block) THEN [Empty EXCEPT !.done = TRUE]
                       ELSE [Empty EXCEPT !.buf = block, !.capturing = TRUE],
             safe |-> SubSeq(all, 1, cut - 1),
             found |-> Closes(block)]

(* What flush may find: calls in a block that has not been closed.         *)
Flushable == tools /\ sieve.capturing

-----------------------------------------------------------------------------
(* Blocks.  The chat interface has none.                                   *)

Framed == api # "chat"
Has(bs, kind) == \E i \in 1 .. Len(bs) : bs[i].kind = kind

(* msg_idx, base_idx: 1 once there is a block of thoughts; block_index: 1  *)
(* once it is closed.                                                      *)
Index(bs) ==
    IF \E i \in 1 .. Len(bs) : /\ bs[i].kind = "think"
                               /\ api = "messages" => ~bs[i].open
    THEN 1 ELSE 0

Begun(bs, kind, index) ==
    IF Framed THEN Append(bs, [kind |-> kind, index |-> index, open |-> TRUE])
    ELSE bs

Shut(bs, kind) ==
    [i \in 1 .. Len(bs) |-> IF bs[i].kind = kind THEN [bs[i] EXCEPT !.open = FALSE]
                            ELSE bs[i]]

Ensured(bs, kind) == IF Has(bs, kind) THEN bs ELSE Begun(bs, kind, Index(bs))

(* The blocks once the text safe is sent: an empty text begins none.       *)
WithText(bs, safe) == IF safe = <<>> THEN bs ELSE Ensured(bs, "text")

(* The calls found, at the given index.                                    *)
WithCalls(bs, index) == Shut(Begun(bs, "calls", index), "calls")

(* parse_tool_calls: a whole block may hold calls that can be read, or     *)
(* none.                                                                   *)
Parsed(bs) == {bs, WithCalls(bs, Index(bs))}

-----------------------------------------------------------------------------
(* An attempt.                                                             *)

(* An account is reserved; there may be none left.                         *)
BeginAttempt ==
    /\ phase = "new"
    /\ \/ phase' = "streaming" /\ marks' = IF Framed THEN <<"start">> ELSE <<>>
       \/ phase' = "failed" /\ UNCHANGED marks
    /\ UNCHANGED <<api, tools, tries, sieve, started, held, blocks, forwarded,
                   fed>>

(* _dispatch: thoughts are held back until their language is known; then   *)
(* all of them are passed on.                                              *)
HoldBack ==
    /\ ~Contains(marks, "think")
    /\ held' = TRUE
    /\ UNCHANGED <<blocks, marks>>

PassOn ==
    /\ held' = FALSE
    /\ blocks' = Ensured(blocks, "think")
    /\ marks' = Append(marks, "think")

(* A thought, or a tool the model uses: none is passed on after text.      *)
Think ==
    /\ phase = "streaming"
    /\ ~started
    /\ Len(marks) < MaxFrames
    /\ HoldBack \/ PassOn
    /\ UNCHANGED <<api, tools, phase, tries, sieve, started, forwarded, fed>>

(* A soft stop or the final metadata: thoughts held back are sent, whether *)
(* there has been text or not.                                             *)
SoftStop ==
    /\ phase = "streaming"
    /\ held
    /\ held' = FALSE
    /\ phase' = "stopping"
    /\ blocks' = Ensured(blocks, "think")
    /\ marks' = Append(marks, "late")
    /\ UNCHANGED <<api, tools, tries, sieve, started, forwarded, fed>>

Reading == phase \in {"streaming", "stopping"}

(* Calls are the last thing sent.                                          *)
EndWithCalls(bs) ==
    /\ phase' = "ended"
    /\ blocks' = bs
    /\ marks' = marks \o <<"calls", "final", "done">>

(* A final token that is empty, or of which nothing is left once it is     *)
(* cleaned: the adapter counts it as text and sends none.                  *)
EmptyToken ==
    /\ phase = "streaming"
    /\ started' = TRUE
    /\ UNCHANGED <<api, tools, phase, tries, sieve, held, blocks, marks,
                   forwarded, fed>>

(* A piece of text without a block of calls.                               *)
TextChunk(chunk) ==
    /\ phase = "streaming"
    /\ Len(fed) + Len(chunk) <= MaxChars
    /\ started' = TRUE
    /\ fed' = fed \o chunk
    /\ LET safe == IF tools THEN Feed(chunk).safe ELSE chunk
       IN /\ tools => ~Feed(chunk).found
          /\ sieve' = IF tools THEN Feed(chunk).sieve ELSE sieve
          /\ blocks' = WithText(Shut(blocks, "think"), safe)
          /\ forwarded' = forwarded \o safe
    /\ UNCHANGED <<api, tools, phase, tries, held, marks>>

(* A slip: the calls do not end the answer.                                *)
ToolChunkGoesOn(chunk) ==
    /\ phase = "streaming" /\ tools
    /\ Len(fed) + Len(chunk) <= MaxChars
    /\ Feed(chunk).found
    /\ started' = TRUE
    /\ fed' = fed \o chunk
    /\ sieve' = Feed(chunk).sieve
    /\ forwarded' = forwarded \o IF Framed THEN <<>> ELSE Feed(chunk).safe
    /\ marks' = marks \o <<"calls", "final", "done">>
    /\ UNCHANGED <<api, tools, phase, tries, held, blocks>>

(* The piece that completes a block of calls.  The safe text before the    *)
(* block is sent by the chat interface and dropped by the others, which    *)
(* leave a block of text open.                                             *)
ToolChunk(chunk) ==
    /\ phase = "streaming" /\ tools
    /\ Len(fed) + Len(chunk) <= MaxChars
    /\ Feed(chunk).found
    /\ started' = TRUE
    /\ fed' = fed \o chunk
    /\ sieve' = Feed(chunk).sieve
    /\ forwarded' = forwarded \o IF Framed THEN <<>> ELSE Feed(chunk).safe
    /\ \E bs \in Parsed(Shut(blocks, "think")) : EndWithCalls(bs)
    /\ UNCHANGED <<api, tools, tries, held>>

(* A slip: the block of text is left as it is, as in the other interface.  *)
FlushCallsBehind ==
    /\ Reading
    /\ Flushable
    /\ EndWithCalls(WithCalls(blocks, Index(blocks)))
    /\ sieve' = [Empty EXCEPT !.done = TRUE]
    /\ UNCHANGED <<api, tools, tries, started, held, forwarded, fed>>

(* The answer ends with calls in a block that was never closed.  Only the  *)
(* Messages interface closes its block of text first.                      *)
FlushCalls ==
    /\ Reading
    /\ Flushable
    /\ LET text == api = "messages" /\ Has(blocks, "text")
           bs == IF text THEN Shut(blocks, "text") ELSE blocks
       IN EndWithCalls(WithCalls(bs, Index(bs) + IF text THEN 1 ELSE 0))
    /\ sieve' = [Empty EXCEPT !.done = TRUE]
    /\ UNCHANGED <<api, tools, tries, started, held, forwarded, fed>>

(* The answer ends without calls, stopped or not.  Thoughts without text   *)
(* are closed by the Messages interface only.                              *)
EndTurn ==
    /\ Reading
    /\ phase' = "ended"
    /\ sieve' = IF tools /\ sieve.buf # <<>> THEN [sieve EXCEPT !.buf = <<>>,
                                                              !.done = TRUE]
                ELSE sieve
    /\ blocks' = IF api = "messages" THEN Shut(Shut(blocks, "think"), "text")
                 ELSE Shut(blocks, "text")
    /\ marks' = marks \o <<"final", "done">>
    /\ UNCHANGED <<api, tools, tries, started, held, forwarded, fed>>

(* An UpstreamError: another attempt from the beginning, whatever the      *)
(* client has been sent, or the end.                                       *)
BreakOff ==
    /\ Reading
    /\ \/ /\ tries < Retries
          /\ tries' = tries + 1
          /\ phase' = "new"
          /\ sieve' = Empty /\ started' = FALSE /\ held' = FALSE
          /\ blocks' = <<>> /\ marks' = <<>>
          /\ forwarded' = <<>> /\ fed' = <<>>
       \/ /\ phase' = "failed"
          /\ UNCHANGED <<tries, sieve, started, held, blocks, marks, forwarded,
                         fed>>
    /\ UNCHANGED <<api, tools>>

StreamsNext ==
    \/ BeginAttempt \/ Think \/ SoftStop \/ EmptyToken \/ FlushCalls \/ EndTurn
    \/ BreakOff
    \/ \E chunk \in Chunk : TextChunk(chunk) \/ ToolChunk(chunk)

StreamsSpec == StreamsInit /\ [][StreamsNext]_streamVars

-----------------------------------------------------------------------------
(* Properties.                                                             *)

(* The text of the answer that is to be shown: all of it, or what comes    *)
(* before the first block of calls whose opening tag the sieve can see.    *)
Shown == IF tools /\ Opens(fed) THEN SubSeq(fed, 1, FirstOpening(fed) - 1)
         ELSE fed

Called == Contains(marks, "calls")

(* However the answer is cut into pieces, the client has been sent the     *)
(* text before the first opening tag and no part of that tag, short of     *)
(* what may still become a tag (which is lost if the answer ends there)    *)
(* and, in the Responses and Messages interfaces, of the text that came in *)
(* one piece with the end of a block of calls (ToolSieve.feed).  A torn    *)
(* tag is no opening tag: it is sent, with its block, as text.             *)
TextFaithful ==
    /\ IsPrefix(forwarded, Shown)
    /\ forwarded # Shown =>
          \/ Shown = forwarded \o <<"lt">>
          \/ Framed /\ Called

(* A stream that has ended has sent its end once, as the last thing, with  *)
(* calls directly before it, if there are any; a stream that has not ended *)
(* has sent none of them ("already sent [DONE], drop remaining events").   *)
EndsOnce ==
    LET end == IF phase # "ended" THEN <<>>
               ELSE IF Called THEN <<"calls", "final", "done">>
               ELSE <<"final", "done">>
        before == Len(marks) - Len(end)
    IN /\ before >= 0
       /\ \A i \in 1 .. before : marks[i] \in {"start", "think", "late"}
       /\ \A i \in 1 .. Len(end) : marks[before + i] = end[i]

(* The answer ended within a block of calls.                               *)
CutOff == /\ tools /\ Opens(fed)
          /\ ~Closes(SubSeq(fed, FirstOpening(fed), Len(fed)))

(* Calls after text, where the block of text is not closed first.          *)
CallsBehindText ==
    Called /\ Has(blocks, "text") /\ ~(api = "messages" /\ CutOff)

(* At the end of an answer every block that was begun is closed, no two    *)
(* have the same index and none is left out, whether it ends with thoughts,*)
(* text or calls, but for three flaws of the code.  Calls after text leave *)
(* the text open and have its index, in the Responses interface always, in *)
(* the Messages interface where the block of calls is whole.  Thoughts     *)
(* stay open in the Responses interface if no text is passed on after      *)
(* them, empty tokens or not.  Of an answer in which thoughts held back    *)
(* come after text nothing is claimed (their index is that of the text).   *)
BlocksClose ==
    phase = "ended" /\ (Contains(marks, "late") => fed = <<>>) =>
       \A i \in 1 .. Len(blocks) :
          LET b == blocks[i]
          IN /\ \/ b.index = i - 1
                \/ b.kind = "calls" /\ CallsBehindText
             /\ b.open => \/ b.kind = "text" /\ CallsBehindText
                          \/ b.kind = "think" /\ api = "responses" /\ fed = <<>>
=============================================================================
