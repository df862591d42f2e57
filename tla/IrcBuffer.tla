----------------------------- MODULE IrcBuffer ------------------------------
(***************************************************************************)
(* How sites/twitch/irc_transport.py and irc_diagnostics.py put the lines  *)
(* of an IRC connection together again, whatever pieces they arrive in:    *)
(* the read buffer and the PING counter of one connection, over all that   *)
(* Twitch may send and all the ways in which it may be received.           *)
(*                                                                         *)
(* A line is cut where the code can tell the difference: a message (a line *)
(* that MESSAGE_REGEX matches) into the part before a match is possible,   *)
(* the part that completes a shortest match, the rest, CR and LF; a PING,  *)
(* which the expression never matches, into its text, CR and LF.           *)
(***************************************************************************)
EXTENDS Integers, SequencesExt

CONSTANTS
    BufferLimit,  \* _READBUFFER_MAX_BYTES, in pieces
    MaxSent       \* bound: lines that are sent

ASSUME BufferAssumption == BufferLimit \in Nat /\ MaxSent \in Nat

VARIABLES
    stream,       \* what Twitch has sent, in pieces
    received,     \* how much of it was received
    readbuffer,
    frame,        \* the diagnostics' _frame_prefix and _previous_character_was_cr
    parsed,       \* the items that were yielded
    pongs,        \* the PINGs that were answered
    drained       \* history: the buffer was cut down

ircVars == <<stream, received, readbuffer, frame, parsed, pongs, drained>>

NoFrame == [prefix |-> "", cr |-> FALSE]

IrcInit ==
    /\ stream = <<>> /\ received = 0 /\ readbuffer = <<>> /\ frame = NoFrame
    /\ parsed = <<>> /\ pongs = 0 /\ drained = FALSE

-----------------------------------------------------------------------------
(* Twitch.                                                                 *)

Piece(line, kind, part) == [line |-> line, kind |-> kind, part |-> part]

First == [message |-> "start", ping |-> "ping"]
Following == [start |-> "match", match |-> "rest", rest |-> "cr", ping |-> "cr", cr |-> "lf"]

LineSent == IF stream = <<>> THEN 0 ELSE Last(stream).line
AtLineStart == stream # <<>> => Last(stream).part = "lf"

\* The next piece of a line, or the first of the next line.
Send ==
    /\ \/ /\ AtLineStart /\ LineSent < MaxSent
          /\ \E kind \in DOMAIN First : stream' = Append(stream, Piece(LineSent + 1, kind, First[kind]))
       \/ /\ ~AtLineStart
          /\ stream' = Append(stream, [Last(stream) EXCEPT !.part = Following[@]])
    /\ UNCHANGED <<received, readbuffer, frame, parsed, pongs, drained>>

-----------------------------------------------------------------------------
(* _process_irc_buffer, _drain_readbuffer.                                 *)

IsCrlf(buffer, i) == i < Len(buffer) /\ buffer[i].part = "cr" /\ buffer[i + 1].part = "lf"

EndsWithCrlf(buffer) == Len(buffer) >= 2 /\ IsCrlf(buffer, Len(buffer) - 1)

\* Where the expression matches: at the beginning of a line.
MatchStarts(buffer) ==
    {i \in DOMAIN buffer :
        /\ buffer[i].part = "start"
        /\ i = 1 \/ buffer[i - 1].part = "lf"
        /\ i < Len(buffer) /\ buffer[i + 1].part = "match"}

HasRest(buffer, i) == i + 2 <= Len(buffer) /\ buffer[i + 2].part = "rest"

MatchEnd(buffer, i) == IF HasRest(buffer, i) THEN i + 2 ELSE i + 1

\* What is parsed from a match: its line, and whether it is all there.
Item(buffer, i) == [line |-> buffer[i].line, whole |-> HasRest(buffer, i)]

\* The matches, one after the other.
Items(buffer, starts) ==
    FoldLeft(LAMBDA found, i : IF i \in starts THEN Append(found, Item(buffer, i)) ELSE found,
             <<>>, [i \in 1..Len(buffer) |-> i])

\* The last match is never taken for incomplete.
ProcessIrcBuffer_KeepsNothing(buffer) == [remaining |-> <<>>, items |-> Items(buffer, MatchStarts(buffer))]

\* (remaining, matches): without a final CRLF the last match may be incomplete.
ProcessIrcBuffer(buffer) ==
    LET starts == MatchStarts(buffer)
        last == Max(starts)
        From(i) == SubSeq(buffer, i, Len(buffer))
    IN  IF EndsWithCrlf(buffer) THEN [remaining |-> <<>>, items |-> Items(buffer, starts)]
        ELSE IF starts = {} THEN [remaining |-> buffer, items |-> <<>>]
        ELSE IF \E i \in last..Len(buffer) : IsCrlf(buffer, i)
        THEN [remaining |-> From(MatchEnd(buffer, last) + 1), items |-> Items(buffer, starts)]
        ELSE [remaining |-> From(last), items |-> Items(buffer, starts \ {last})]

Oversized(buffer) == Len(buffer) > BufferLimit

\* An oversized buffer is cut down to what follows its last CRLF, or to nothing.
DrainReadbuffer(buffer) ==
    LET ends == {i \in DOMAIN buffer : IsCrlf(buffer, i)}
    IN  IF ends = {} THEN <<>> ELSE SubSeq(buffer, Max(ends) + 2, Len(buffer))

-----------------------------------------------------------------------------
(* _TwitchLiveDiagnostics.record_received_data: counts lines by a state of *)
(* its own that survives from one chunk to the next.                       *)

\* One more piece; the first one of a line tells a PING.
Record(count, piece) ==
    IF piece.part = "lf" /\ count.frame.cr
    THEN [frame |-> NoFrame, pings |-> count.pings + (IF count.frame.prefix = "ping" THEN 1 ELSE 0)]
    ELSE [frame |-> [prefix |-> IF count.frame.prefix = "" THEN piece.part ELSE count.frame.prefix,
                     cr |-> piece.part = "cr"],
          pings |-> count.pings]

\* The frame's state after a chunk, and the PINGs completed in it.
RecordReceivedData(before, chunk) == FoldLeft(Record, [frame |-> before, pings |-> 0], chunk)

-----------------------------------------------------------------------------
(* The loop of get_chat_messages_by_stream_id.                             *)

\* One chunk: all of it is counted before the buffer may be cut down.
ReceiveChunk ==
    \E n \in 1..(Len(stream) - received) :
      LET chunk == SubSeq(stream, received + 1, received + n)
          counted == RecordReceivedData(frame, chunk)
          joined == readbuffer \o chunk
          done == ProcessIrcBuffer(IF Oversized(joined) THEN DrainReadbuffer(joined) ELSE joined)
      IN  /\ received' = received + n
          /\ frame' = counted.frame /\ pongs' = pongs + counted.pings
          /\ readbuffer' = done.remaining /\ parsed' = parsed \o done.items
          /\ drained' = (drained \/ Oversized(joined))
          /\ UNCHANGED stream

\* TimeoutError: what was received so far is kept.
NothingYet == received = Len(stream) /\ UNCHANGED ircVars

IrcNext == Send \/ ReceiveChunk \/ NothingYet

IrcSpec == IrcInit /\ [][IrcNext]_ircVars

-----------------------------------------------------------------------------
(* Properties.                                                             *)

\* The ends of the lines of a kind that were received.
Ends(kind) == {k \in 1..received : stream[k].kind = kind /\ stream[k].part = "lf"}

LinesParsed == {parsed[k].line : k \in DOMAIN parsed}

\* It does not matter into which chunks a connection's lines are cut: after every
\* chunk exactly the complete messages have been parsed, whole and in order, and
\* exactly the complete PINGs answered.  If the buffer grew beyond its limit some
\* messages may be missing, but none is torn, doubled or out of order.
ChunksDoNotMatter ==
    /\ pongs = Cardinality(Ends("ping"))
    /\ \A k \in DOMAIN parsed : parsed[k].whole
    /\ \A j, k \in DOMAIN parsed : j < k => parsed[j].line < parsed[k].line
    /\ LinesParsed \subseteq {stream[k].line : k \in Ends("message")}
    /\ ~drained => \A k \in Ends("message") : stream[k].line \in LinesParsed
=============================================================================
