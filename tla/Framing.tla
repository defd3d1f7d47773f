------------------------------- MODULE Framing -------------------------------
(***************************************************************************)
(* SseDecoder of codex/wire.rs: the bytes of an upstream's stream, cut     *)
(* into chunks anywhere, to the data of its events.  Blocks are handed to  *)
(* the crate eventsource-stream one at a time, so that the limit holds for *)
(* each event and not for the stream.                                      *)
(*                                                                         *)
(* A byte is "cr", "lf", ":" which begins a comment, or text, to which the *)
(* bytes of the byte order mark belong behind the beginning; a line of     *)
(* text is a line of data.  The data [DONE], which push drops, and what is *)
(* no UTF-8 are left out.                                                  *)
(***************************************************************************)
EXTENDS Integers, Sequences, SequencesExt

CONSTANTS
  Byte,      \* what a stream may consist of
  Mark,      \* the byte order mark, three bytes in UTF-8
  Limit,     \* upstream_max_event_bytes
  MaxBytes   \* bound on the length of a stream

FramingAssumption ==
  {"cr", "lf"} \subseteq Byte /\ Limit \in Nat /\ MaxBytes \in Nat

VARIABLES
  received,  \* the whole stream so far
  prefix, started, skip, line, buffer,  \* fields of SseDecoder
  pushed,    \* events of the chunk that is being pushed
  events,    \* what earlier calls have returned
  failed

vars == <<received, prefix, started, skip, line, buffer, pushed, events, failed>>

TypeOK ==
  /\ received \in Seq(Byte) /\ prefix \in Seq(Byte) /\ buffer \in Seq(Byte)
  /\ {started, skip, failed} \subseteq BOOLEAN
  /\ line \in 0..MaxBytes

-----------------------------------------------------------------------------
(* The crate eventsource-stream. *)

Places(seq) == [i \in DOMAIN seq |-> i]

\* The line that begins at a place, without its end.
LineAt(block, i) ==
  LET end == CHOOSE j \in i..Len(block) :
               block[j] = "lf" /\ \A k \in i..(j - 1) : block[k] # "lf"
  IN SubSeq(block, i, end - 1)

\* An event for a block with data, none for blank lines and comments.
Parsed(block) ==
  LET IsData(i) == (i = 1 \/ block[i - 1] = "lf") /\ block[i] \notin {"lf", ":"}
      lines == SelectSeq(Places(block), IsData)
  IN IF lines = <<>> THEN <<>> ELSE << [n \in DOMAIN lines |-> LineAt(block, lines[n])] >>

-----------------------------------------------------------------------------
(* push, one byte after the other. *)

\* The decoder after some bytes; "over" is the error of an event that is too large.
Decoder == [skip |-> skip, line |-> line, buffer |-> buffer, found |-> pushed, over |-> FALSE]

\* MUTANT: a line end of two bytes is two line ends.
Counted(d, b) == FALSE

Skipped(d, b) == d.skip /\ b = "lf"

\* SseDecoder::byte
ByteOf(d, b) ==
  LET added == Append(d.buffer, IF b = "cr" THEN "lf" ELSE b)
      next == [d EXCEPT !.skip = (b = "cr"), !.buffer = added]
  IN CASE d.over -> d
       [] ~d.over /\ Skipped(d, b) -> [d EXCEPT !.skip = FALSE]
       [] ~d.over /\ ~Skipped(d, b) /\ Len(added) > Limit -> [next EXCEPT !.over = TRUE]
       [] OTHER ->
            IF b \notin {"cr", "lf"} THEN [next EXCEPT !.line = @ + 1]
            ELSE IF d.line > 0 THEN [next EXCEPT !.line = 0]
            ELSE [next EXCEPT !.buffer = <<>>, !.found = @ \o Parsed(added)]

Take(bytes) ==
  LET d == FoldLeft(ByteOf, Decoder, bytes) IN
  /\ skip' = d.skip /\ line' = d.line /\ buffer' = d.buffer
  /\ pushed' = IF d.over THEN <<>> ELSE d.found
  /\ failed' = d.over

\* Bytes are withheld as long as they may be the byte order mark.
Push(b) ==
  /\ ~failed /\ Len(received) < MaxBytes
  /\ received' = Append(received, b)
  /\ LET first == Append(prefix, b) IN
     CASE started -> Take(<<b>>) /\ UNCHANGED <<prefix, started>>
       [] ~started /\ first = Mark ->
            prefix' = <<>> /\ started' = TRUE /\ UNCHANGED <<skip, line, buffer, pushed, failed>>
       [] ~started /\ first # Mark /\ IsPrefix(first, Mark) ->
            prefix' = first /\ UNCHANGED <<started, skip, line, buffer, pushed, failed>>
       [] OTHER -> Take(first) /\ prefix' = <<>> /\ started' = TRUE
  /\ UNCHANGED events

\* The chunk ends, and push returns.
Return ==
  /\ pushed # <<>>
  /\ events' = events \o pushed /\ pushed' = <<>>
  /\ UNCHANGED <<received, prefix, started, skip, line, buffer, failed>>

Init ==
  /\ received = <<>> /\ prefix = <<>> /\ buffer = <<>> /\ pushed = <<>> /\ events = <<>>
  /\ started = FALSE /\ skip = FALSE /\ failed = FALSE /\ line = 0

Next == Return \/ \E b \in Byte : Push(b)

Spec == Init /\ [][Next]_vars

-----------------------------------------------------------------------------
(* What a stream means, without a decoder: the standard's line ends and blocks. *)

\* The stream without its mark, each line end one "lf".
Text ==
  LET bare == IF IsPrefix(Mark, received) THEN SubSeq(received, Len(Mark) + 1, Len(received))
              ELSE received
      IsKept(i) == ~(bare[i] = "lf" /\ i > 1 /\ bare[i - 1] = "cr")
      kept == SelectSeq(Places(bare), IsKept)
  IN [n \in DOMAIN kept |-> IF bare[kept[n]] = "cr" THEN "lf" ELSE bare[kept[n]]]

\* A blank line ends a block; the rest behind the last one is a block that has begun.
Blocks(text) ==
  LET IsBlank(i) == text[i] = "lf" /\ (i = 1 \/ text[i - 1] = "lf")
      ends == SelectSeq(Places(text), IsBlank) \o <<Len(text)>>
  IN [n \in DOMAIN ends |-> SubSeq(text, IF n = 1 THEN 1 ELSE ends[n - 1] + 1, ends[n])]

Meaning(blocks) == FlattenSeq([n \in DOMAIN Front(blocks) |-> Parsed(blocks[n])])

\* wire.rs: wherever a stream is cut into chunks, and with whichever line ends, what
\* push has returned are the events of the stream so far, each as soon as its chunk
\* has ended; only the end of the stream is withheld, and the limit is exceeded
\* exactly if a block of the stream is longer.
EventsExact ==
  LET text == Text
      blocks == Blocks(text)
      begun == Last(blocks)
  IN /\ ~IsPrefix(received, Mark) =>
          failed = \E n \in DOMAIN blocks : Len(blocks[n]) > Limit
     /\ ~failed => /\ events \o pushed = Meaning(blocks)
                   /\ Len(prefix) + Len(buffer) = (IF received = Mark THEN 0 ELSE Len(begun))
     /\ IsPrefix(events, Meaning(blocks))

=============================================================================
