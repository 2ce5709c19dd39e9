----------------------------- MODULE StreamPipe -----------------------------
(***************************************************************************)
(* One stream on its way from llama-server to the client: the body that    *)
(* httpx reads (app/backends/llama_cpp.py, _stream_chat_completion_impl),  *)
(* the parser that cuts it into events (app/core/sse.py) and the generator *)
(* that writes a chunk for every event (app/api/chat.py), which holds an   *)
(* admission slot meanwhile.                                               *)
(*                                                                         *)
(* The body is a sequence of symbols: the line ends "nl" and "crlf", and   *)
(* what a line can hold that the code treats differently.  The parser's    *)
(* buffer is always a stretch of the body, so two positions stand for it.  *)
(***************************************************************************)
EXTENDS Integers, Sequences, FiniteSets, FiniteSetsExt, SequencesExt

CONSTANTS Symbols,    \* the symbols the upstream may send
          MaxBody     \* bound: the length of the body

LineEnds == {"nl", "crlf"}
Payloads == {"delta",   \* a chunk object
             "odd",     \* JSON, but no chunk object
             "warped",  \* a chunk object whose `created' is not a number
             "junk",    \* not JSON
             "done"}    \* [DONE]
Others == {"comment"}   \* a comment, or a field other than `data:'

ASSUME PipeAssumption ==
  /\ Symbols \subseteq LineEnds \cup Payloads \cup Others
  /\ MaxBody \in Nat

VARIABLES
  stage,   \* where the generator of the stream is
  conn,    \* the connection to the upstream
  body,    \* what the upstream has sent
  start,   \* the parser's buffer is body[start + 1 .. seen]
  seen,
  chunks,  \* the positions of the payloads written to the client
  result,  \* how the backend's iteration ended
  slot     \* is the admission slot held?

vars == <<stage, conn, body, start, seen, chunks, result, slot>>

Results == {"none", "whole", "invalid", "unexpected", "protocol", "timeout",
            "unavailable", "gone"}

TypeOK ==
  /\ stage \in {"connecting", "posting", "parsing", "sending", "lastsend",
                "abandoned", "over"}
  /\ conn \in {"none", "open", "whole", "broken"}
  /\ body \in Seq(Symbols) /\ Len(body) <= MaxBody
  /\ seen \in 0 .. Len(body) /\ start \in 0 .. seen
  /\ chunks \in Seq(1 .. Len(body))
  /\ result \in Results
  /\ slot \in BOOLEAN

(* `async with admission.acquire()' has begun.                             *)
Init ==
  /\ stage = "connecting" /\ conn = "none" /\ body = <<>>
  /\ start = 0 /\ seen = 0 /\ chunks = <<>> /\ result = "none" /\ slot = TRUE

(* The iteration ends with r and leaves the `async with'.                  *)
Leave(r) == stage' = "over" /\ result' = r /\ slot' = FALSE

-----------------------------------------------------------------------------
(* client.post: it returns with the whole body, or not at all.             *)

Connect ==
  /\ stage = "connecting"
  /\ stage' = "posting" /\ conn' = "open"
  /\ UNCHANGED <<body, start, seen, chunks, result, slot>>

(* The short connect timeout, or nobody listens.                           *)
ConnectFails ==
  /\ stage = "connecting"
  /\ \E r \in {"timeout", "unavailable"} : Leave(r)
  /\ UNCHANGED <<conn, body, start, seen, chunks>>

(* A line holds one thing.                                                 *)
MayFollow(s) ==
  s \in LineEnds \/ (body # <<>> => body[Len(body)] \in LineEnds)

UpstreamSends ==
  /\ conn = "open" /\ Len(body) < MaxBody
  /\ \E s \in Symbols : MayFollow(s) /\ body' = Append(body, s)
  /\ UNCHANGED <<stage, conn, start, seen, chunks, result, slot>>

(* Wrong: the body is read while it arrives, and nothing else changes.     *)
PostReturnsEarly ==
  /\ stage = "posting" /\ stage' = "parsing"
  /\ conn' \in {"open", "whole"}
  /\ UNCHANGED <<body, start, seen, chunks, result, slot>>

PostReturns ==
  /\ stage = "posting" /\ stage' = "parsing"
  /\ conn' = "whole"
  /\ UNCHANGED <<body, start, seen, chunks, result, slot>>

(* A status other than 200; its body is read and dropped.                  *)
BadStatus ==
  /\ stage = "posting" /\ conn' = "whole"
  /\ Leave("protocol")
  /\ UNCHANGED <<body, start, seen, chunks>>

(* Wrong: a broken connection passes for the end of the body.              *)
UpstreamBreaksQuietly ==
  /\ stage = "posting" /\ conn' = "broken"
  /\ stage' = "parsing"
  /\ UNCHANGED <<body, start, seen, chunks, result, slot>>

UpstreamBreaks ==
  /\ stage = "posting" /\ conn' = "broken"
  /\ Leave("unavailable")
  /\ UNCHANGED <<body, start, seen, chunks>>

(* The task is cancelled while it waits for the body.                      *)
PostCancelled ==
  /\ stage \in {"connecting", "posting"}
  /\ conn' = IF conn = "open" THEN "broken" ELSE conn
  /\ Leave("gone")
  /\ UNCHANGED <<body, start, seen, chunks>>

-----------------------------------------------------------------------------
(* parse_sse.                                                              *)

(* Where "\n\n" stands in the buffer; a "\r\n" ends in "\n".               *)
Cuts == {i \in start + 1 .. seen - 1 : body[i] \in LineEnds /\ body[i + 1] = "nl"}

(* _parse_event_block: the data lines of a block make one payload, and two *)
(* payloads on two lines are not JSON.  "none" for an event without data   *)
(* too, which the backend skips.                                           *)
EventOf(block) ==
  LET data == {i \in block : body[i] \in Payloads}
  IN  CASE data = {}             -> "none"
        [] Cardinality(data) > 1 -> "junk"
        [] OTHER                 -> body[CHOOSE i \in data : TRUE]

(* The backend's loop over the events.  Only a yield suspends.             *)
Handle(block, atend) ==
  LET e == EventOf(block)
  IN  \/ /\ e \in {"none", "odd"}
         /\ stage' = IF atend THEN "lastsend" ELSE "parsing"
         /\ result' = IF atend THEN "whole" ELSE "none"
         /\ UNCHANGED <<chunks, slot>>
      \/ /\ e = "delta"
         /\ stage' = "sending"
         /\ chunks' = Append(chunks, CHOOSE i \in block : body[i] = "delta")
         /\ UNCHANGED <<result, slot>>
      \/ /\ e = "done"
         /\ stage' = "lastsend" /\ result' = "whole"
         /\ UNCHANGED <<chunks, slot>>
      \/ e = "junk" /\ Leave("invalid") /\ UNCHANGED chunks
      \/ e = "warped" /\ Leave("unexpected") /\ UNCHANGED chunks

(* Wrong: a chunk of the transport replaces the buffer.                    *)
ReadMoreForgets ==
  /\ stage = "parsing" /\ Cuts = {} /\ seen < Len(body)
  /\ seen' \in seen + 1 .. Len(body)
  /\ start' = seen
  /\ UNCHANGED <<stage, conn, body, chunks, result, slot>>

(* Wrong: one symbol too many is taken for read.                           *)
ReadMoreBeyond ==
  /\ stage = "parsing" /\ Cuts = {} /\ seen < Len(body)
  /\ seen' \in seen + 1 .. Len(body) + 1
  /\ UNCHANGED <<stage, conn, body, start, chunks, result, slot>>

(* aiter_bytes gives the body in pieces of any size.                       *)
ReadMore ==
  /\ stage = "parsing" /\ Cuts = {} /\ seen < Len(body)
  /\ seen' \in seen + 1 .. Len(body)
  /\ UNCHANGED <<stage, conn, body, start, chunks, result, slot>>

(* Wrong: a block without an event stays in the buffer.                    *)
TakeBlockLeavesEmpty ==
  /\ stage = "parsing" /\ Cuts # {}
  /\ LET cut   == Min(Cuts)
         block == start + 1 .. cut - 1
     IN  /\ Handle(block, FALSE)
         /\ start' = IF EventOf(block) = "none" THEN start ELSE cut + 1
  /\ UNCHANGED <<conn, body, seen>>

TakeBlock ==
  /\ stage = "parsing" /\ Cuts # {}
  /\ LET cut == Min(Cuts)
     IN  Handle(start + 1 .. cut - 1, FALSE) /\ start' = cut + 1
  /\ UNCHANGED <<conn, body, seen>>

(* The body is read: what is left in the buffer is a block too.            *)
Flush ==
  /\ stage = "parsing" /\ Cuts = {} /\ seen = Len(body)
  /\ Handle(start + 1 .. seen, TRUE) /\ start' = seen
  /\ UNCHANGED <<conn, body, seen>>

-----------------------------------------------------------------------------
(* stream_generator: the writes to the client.                             *)

ChunkSent ==
  /\ stage = "sending" /\ stage' = "parsing"
  /\ UNCHANGED <<conn, body, start, seen, chunks, result, slot>>

(* [DONE] is written, the slot still held.                                 *)
DoneSent ==
  /\ stage = "lastsend" /\ stage' = "over" /\ slot' = FALSE
  /\ UNCHANGED <<conn, body, start, seen, chunks, result>>

ClientGone ==
  /\ stage \in {"sending", "lastsend"} /\ stage' = "abandoned"
  /\ UNCHANGED <<conn, body, start, seen, chunks, result, slot>>

(* The generator is finalised at its yield.  The backend's own generator   *)
(* is dropped with it and closes the response at some later time.          *)
Finalise ==
  /\ stage = "abandoned" /\ Leave("gone")
  /\ UNCHANGED <<conn, body, start, seen, chunks>>

Parse == ReadMore \/ TakeBlock \/ Flush
Write == ChunkSent \/ DoneSent \/ ClientGone
Post == PostReturns \/ BadStatus \/ UpstreamBreaks

Next ==
  \/ Connect \/ ConnectFails \/ UpstreamSends \/ Post \/ PostCancelled
  \/ Parse \/ Write \/ Finalise

Spec == Init /\ [][Next]_vars

(* The loop runs what is ready and finalises what nobody iterates; clients *)
(* read or go.  Nothing is assumed of the upstream: its body may never end.*)
FairSpec ==
  /\ Spec
  /\ WF_vars(Parse) /\ WF_vars(Write) /\ WF_vars(Finalise)

-----------------------------------------------------------------------------
(* What the body says, without a parser: two lines belong to one event     *)
(* when no blank line stands between them, whichever its line end.         *)

BlankBetween(i, j) ==
  \E k \in i + 1 .. j - 2 : body[k] \in LineEnds /\ body[k + 1] \in LineEnds

(* The blank lines the parser does not see: those that end in CRLF.        *)
Misread == {k \in 1 .. Len(body) - 1 : body[k] \in LineEnds /\ body[k + 1] = "crlf"}

SameEvent(i, j) == ~BlankBetween(Min({i, j}), Max({i, j}))

Lines == {i \in 1 .. Len(body) : body[i] \in Payloads}

Says(i) ==
  IF \E j \in Lines \ {i} : SameEvent(i, j) THEN "junk" ELSE body[i]

Stops == {i \in Lines : Says(i) \in {"done", "junk", "warped"}}

Deltas == {i \in Lines : Says(i) = "delta" /\ \A j \in Stops : i < j}

-----------------------------------------------------------------------------
(* Properties.                                                             *)

(* Whatever the body, a chunk object of it is written once at most, and    *)
(* all in the order they came in.                                          *)
OnceInOrder ==
  /\ \A k \in 1 .. Len(chunks) - 1 : chunks[k] < chunks[k + 1]
  /\ \A k \in 1 .. Len(chunks) : body[chunks[k]] = "delta"

(* "A single SSE event split across transport reads is reassembled         *)
(* correctly": no chunk object of the body before [DONE] or the first      *)
(* error is passed over and nothing else is written, whatever pieces the   *)
(* body comes in; when the end is reached none is left.                    *)
ChunksAsSent ==
  /\ \A k \in 1 .. Len(chunks) :
       \A i \in 1 .. chunks[k] : i \in Deltas <=> \E n \in 1 .. k : chunks[n] = i
  /\ result \in {"whole", "invalid", "unexpected"}
       => Cardinality(Deltas) = Len(chunks)

(* The client sees [DONE] for a body that came to its end and has no       *)
(* error before its own [DONE]; an error is one the body has.              *)
EndTellsBody ==
  LET stop == IF Stops = {} THEN "done" ELSE Says(Min(Stops))
  IN  /\ result = "whole" => conn = "whole" /\ stop = "done"
      /\ result = "invalid" => conn = "whole" /\ stop = "junk"
      /\ result = "unexpected" => conn = "whole" /\ stop = "warped"

(* What the client is given is what the body has in it: its chunks, and    *)
(* its end.  Bodies with a blank line that ends in CRLF are excepted:      *)
(* sse.py:18 and ARCHITECTURE.md:574 promise to handle them, but parse_sse *)
(* looks for "\n\n", and two chunks on the sides of such a line are one    *)
(* event to it, which is not JSON.  Of these bodies OnceInOrder is left.   *)
DeliveredAsSent == OnceInOrder /\ (Misread = {} => ChunksAsSent /\ EndTellsBody)

(* "The upstream HTTP connection is closed" before the slot is released:   *)
(* however a stream ends, the one admitted next finds no connection of its *)
(* predecessor open.                                                       *)
UpstreamWithinSlot == conn = "open" => slot

(* Once the body is there the slot comes back, whatever the body holds and *)
(* whether the client reads or goes.                                       *)
ParsingEnds == stage = "parsing" ~> ~slot

(* "SSE chunks forwarded incrementally": a chunk that has come whole is     *)
(* written, or the stream ends, however long the upstream takes for what   *)
(* follows.  The code does not keep this: client.post waits for the body.  *)
(* Blank lines in CRLF, which have another reason, are left out.           *)
PromptDelivery ==
  \A i \in 1 .. MaxBody :
    (Misread = {} /\ i \in Deltas /\ BlankBetween(i, Len(body) + 1))
      ~> (i \in ToSet(chunks) \/ ~slot)
=============================================================================
