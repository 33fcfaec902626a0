------------------------------ MODULE LogStream ------------------------------
(***************************************************************************)
(* LogStream (daemon/logs.go) sends the lines of the log file from an      *)
(* offset on, in buffers, while the daemon goes on writing to the file; a  *)
(* client polls with the offset it got last.  The file is the sequence of  *)
(* bytes of the lines written; a byte is a newline, NUL, or belongs to the *)
(* line with that number.                                                  *)
(***************************************************************************)
EXTENDS Naturals, Sequences, SequencesExt

CONSTANTS
    MaxLineLengthBytes,            \* length of a buffer; 300 in the code
    MaxLinesToReturnInSingleCall,  \* 5000 in the code
    Lengths,       \* the lengths lines may have
    MaxLines,      \* bound: lines written
    MaxTruncations, MaxFaults      \* bounds

ASSUME LogAssumption ==
    /\ MaxLineLengthBytes \in Nat \ {0} /\ MaxLinesToReturnInSingleCall \in Nat
    /\ Lengths \subseteq Nat
    /\ MaxLines \in Nat /\ MaxTruncations \in Nat /\ MaxFaults \in Nat

VARIABLES
    file,           \* the bytes of the log file
    offset,         \* of the client: where the next call begins
    delivered,      \* of the client: the lines up to its offset, but blank ones
    stale,          \* history: offset is a place of a file that was truncated
    pc, fileLen, currOffset, remnantBuf, linesReturned,  \* of the call
    restart,        \* of the call: it begins the file again
    startingOffset, startingLines,  \* where the call began, and delivered then
    staleRead,      \* history: so is currOffset
    lines, truncations, faults

start  == <<startingOffset, startingLines>>
local  == <<fileLen, currOffset, remnantBuf, linesReturned, restart, start, staleRead>>
client == <<offset, delivered, stale>>
counts == <<lines, truncations, faults>>
vars   == <<file, client, pc, local, counts>>

Newline == 0
Nul == 1

Blank(line) == \A i \in DOMAIN line : line[i] = Nul
Keep(line, kept) == IF Blank(line) THEN kept ELSE <<line>> \o kept

\* The lines of ls that are not blank, in their order.
NotBlank(ls) ==
    LET Kept[n \in 0..Len(ls)] ==  \* of the last n lines
            IF n = 0 THEN <<>> ELSE Keep(ls[Len(ls) - n + 1], Kept[n - 1])
    IN  Kept[Len(ls)]

Init ==
    /\ file = <<>> /\ offset = 0 /\ delivered = <<>> /\ stale = FALSE
    /\ pc = "idle" /\ fileLen = 0 /\ currOffset = 0 /\ remnantBuf = <<>>
    /\ linesReturned = 0 /\ restart = FALSE
    /\ startingOffset = 0 /\ startingLines = <<>> /\ staleRead = FALSE
    /\ lines = 0 /\ truncations = 0 /\ faults = 0

-----------------------------------------------------------------------------
(* The log file *)

\* log.Println writes a line in one call.
WriteLine(n) ==
    /\ lines < MaxLines /\ lines' = lines + 1
    /\ file' = file \o [i \in 1..n |-> lines + 2] \o <<Newline>>
    /\ UNCHANGED <<client, pc, local, truncations, faults>>

TruncateLog ==
    /\ truncations < MaxTruncations /\ truncations' = truncations + 1
    /\ file' = <<>>
    /\ stale' = (offset > 0) /\ staleRead' = (currOffset > 0)
    /\ UNCHANGED <<offset, delivered, pc, fileLen, currOffset, remnantBuf,
                   linesReturned, restart, start, lines, faults>>

-----------------------------------------------------------------------------
(* readFileIntoLines *)

\* Mutant: the partial line of an interrupted call is still there at the next.
DoneKeepsRemnant ==
    /\ pc' = "idle" /\ fileLen' = 0 /\ currOffset' = 0 /\ linesReturned' = 0
    /\ restart' = FALSE /\ startingOffset' = 0 /\ startingLines' = <<>>
    /\ staleRead' = FALSE /\ UNCHANGED remnantBuf

Done == /\ pc' = "idle" /\ fileLen' = 0 /\ currOffset' = 0 /\ remnantBuf' = <<>>
        /\ linesReturned' = 0 /\ restart' = FALSE
        /\ startingOffset' = 0 /\ startingLines' = <<>> /\ staleRead' = FALSE

\* Mutant: a shorter file is taken for one without news.
AnythingBeyond(len) == len > offset

HasNews(len) == len # offset

\* Lstat
LogStream ==
    /\ pc = "idle"
    /\ HasNews(Len(file))
    /\ fileLen' = Len(file)
    /\ pc' = "open"
    /\ UNCHANGED <<file, client, currOffset, remnantBuf, linesReturned, restart, start, staleRead,
                   counts>>

Open ==
    /\ pc = "open"
    /\ restart' = (fileLen < offset)
    /\ startingOffset' = IF fileLen < offset THEN 0 ELSE offset
    /\ startingLines' = IF fileLen < offset THEN <<>> ELSE delivered
    /\ currOffset' = startingOffset'
    /\ staleRead' = (fileLen >= offset /\ stale)
    /\ pc' = "read"
    /\ UNCHANGED <<file, client, fileLen, remnantBuf, linesReturned, counts>>

\* What ReadAt finds, nothing beyond the end of a file that was truncated, and
\* the buffer: the rest of it stays zero.
Bytes == SubSeq(file, currOffset + 1, Min({Len(file), currOffset + MaxLineLengthBytes}))
Eof   == Len(Bytes) < MaxLineLengthBytes
Buf   == [i \in 1..MaxLineLengthBytes |-> IF i <= Len(Bytes) THEN Bytes[i] ELSE Nul]

\* What a byte in front adds to the pieces of a text: a newline begins another.
Cut(byte, pieces) ==
    IF byte = Newline THEN << <<>> >> \o pieces
    ELSE [pieces EXCEPT ![1] = <<byte>> \o @]

\* strings.Split at newlines: one piece more than there are newlines.
Split(s) ==
    LET Pieces[n \in 0..Len(s)] ==  \* of the last n bytes
            IF n = 0 THEN << <<>> >> ELSE Cut(s[Len(s) - n + 1], Pieces[n - 1])
    IN  Pieces[Len(s)]

\* Mutant: the partial line at the end of a buffer is dropped.
SplitDropsRemnant(buf, isEof) ==
    LET pieces == Split(buf)
    IN  [lines |-> IF Blank(Last(pieces)) \/ ~isEof THEN Front(pieces) ELSE pieces,
         remnant |-> <<>>]

\* The last, partial line is kept for the next buffer; then a last line that
\* is empty or only padding is stripped.
SplitToLines(buf, isEof) ==
    LET pieces == Split(buf)
        whole  == IF isEof THEN pieces ELSE Front(pieces)
    IN  [lines |-> IF whole # <<>> /\ Blank(Last(whole)) THEN Front(whole) ELSE whole,
         remnant |-> IF isEof THEN <<>> ELSE Last(pieces)]

\* The client takes a response: the lines and the next offset.
Receive(ls, next) ==
    /\ offset' = next
    /\ delivered' = IF restart THEN NotBlank(ls) ELSE delivered \o NotBlank(ls)
    /\ stale' = staleRead

\* Mutant: the next call begins after the partial line.
NextOffsetAfterRemnant(remnant) == currOffset + Len(Bytes)

NextOffset(remnant) == currOffset + Len(Bytes) - Len(remnant)

\* The loop goes round, with what is left of the buffer.
Continue(remnant) ==
    /\ remnantBuf' = remnant /\ currOffset' = currOffset + Len(Bytes)
    /\ UNCHANGED <<pc, fileLen, start, staleRead>>

\* ReadAt, splitToLines and returnSome
ReadAndReturnSome ==
    /\ pc = "read" /\ ~Eof
    /\ \E s \in {SplitToLines(remnantBuf \o Bytes, FALSE)} :
         \/ /\ s.lines = <<>>
            /\ Continue(s.remnant)
            /\ UNCHANGED <<restart, linesReturned, client>>
         \/ /\ s.lines # <<>>
            /\ Receive(s.lines, NextOffset(s.remnant))
            /\ \/ /\ linesReturned + Len(s.lines) <= MaxLinesToReturnInSingleCall
                  /\ Continue(s.remnant)
                  /\ linesReturned' = linesReturned + Len(s.lines) /\ restart' = FALSE
               \/ /\ linesReturned + Len(s.lines) > MaxLinesToReturnInSingleCall
                  /\ Done
    /\ UNCHANGED <<file, counts>>

ReadToEof ==
    /\ pc = "read" /\ Eof
    /\ \E s \in {SplitToLines(remnantBuf \o Buf, TRUE)} : Receive(s.lines, NextOffset(<<>>))
    /\ Done
    /\ UNCHANGED <<file, counts>>

\* A call fails: open with a response at the client's own offset, Send without
\* one, ReadAt with one at the offset where the call began, which takes the
\* client back, so that it gets the lines of this call again, or is ignored.
Fail ==
    /\ pc # "idle" /\ faults < MaxFaults /\ faults' = faults + 1
    /\ \/ UNCHANGED client
       \/ /\ pc = "read" /\ offset' = startingOffset /\ delivered' = startingLines
          /\ stale' = (staleRead /\ startingOffset > 0)
    /\ Done
    /\ UNCHANGED <<file, lines, truncations>>

-----------------------------------------------------------------------------
Call == LogStream \/ Open \/ ReadAndReturnSome \/ ReadToEof

Next == Call \/ Fail \/ TruncateLog \/ \E n \in Lengths : WriteLine(n)

Spec == Init /\ [][Next]_vars

(* The client polls, and a call goes on.                                   *)
FairSpec == Spec /\ WF_vars(Call)

-----------------------------------------------------------------------------
(* A call that has ended leaves nothing behind; what is kept of a buffer   *)
(* is part of one line, and was read in this call.                         *)
TypeOK ==
    /\ file \in Seq(Nat) /\ delivered \in Seq(Seq(Nat)) /\ remnantBuf \in Seq(Nat)
    /\ offset \in Nat /\ currOffset \in Nat /\ fileLen \in Nat /\ linesReturned \in Nat
    /\ startingOffset \in Nat /\ startingLines \in Seq(Seq(Nat))
    /\ restart \in BOOLEAN /\ stale \in BOOLEAN /\ staleRead \in BOOLEAN
    /\ lines \in Nat /\ truncations \in Nat /\ faults \in Nat
    /\ \A i \in DOMAIN remnantBuf : remnantBuf[i] \notin {Newline, Nul}
    /\ pc \in {"idle", "open", "read"}
    /\ pc # "read" => remnantBuf = <<>> /\ ~restart
    /\ startingOffset + Len(remnantBuf) <= currOffset
    /\ (stale => offset > 0) /\ (staleRead => currOffset > 0)

\* Where a line may begin, and the lines before.
LineStart(n) == n = 0 \/ file[n] = Newline
LinesBefore(n) == NotBlank(Split(SubSeq(file, 1, n)))

\* Who has come to place n of the file has had the lines before it.
UpTo(n, ls) == n <= Len(file) /\ LineStart(n) /\ ls = LinesBefore(n)

(* The lines the client got are, blank ones apart, exactly the lines of    *)
(* the file before its offset: none is lost, repeated, cut or padded,      *)
(* wherever buffers end, calls end or fail, lines are written and the file *)
(* is truncated.  Only a client whose offset is a place of the file before *)
(* a truncation may hold other lines, until a call begins the file again.  *)
LinesExact == ~stale => UpTo(offset, delivered)

\* A call has read up to currOffset: the last line so far is in remnantBuf, and
\* the lines before have been sent, but for blank ones.
ReadExact ==
    LET begin == currOffset - Len(remnantBuf)
    IN  /\ begin >= 0 /\ currOffset <= Len(file) /\ LineStart(begin)
        /\ remnantBuf = SubSeq(file, begin + 1, currOffset)
        /\ LinesBefore(begin) = IF restart THEN <<>> ELSE delivered

(* The inductive invariant: the file is made of whole lines; a call begins *)
(* the file again only after a truncation; at each buffer what was sent is *)
(* what was read, unless the file was truncated below it; and a failing    *)
(* ReadAt takes the client back to a place where its lines are exact.      *)
LogInv ==
    /\ LineStart(Len(file)) /\ \A i \in DOMAIN file : file[i] # Nul
    /\ pc = "open" /\ fileLen < offset => stale
    /\ restart => stale
    /\ pc = "read" /\ ~staleRead => ReadExact
    /\ (staleRead /\ startingOffset > 0) \/ UpTo(startingOffset, startingLines)
    /\ LinesExact

(* A client that polls comes to the end of the file, a new one included.   *)
EverythingArrives == []<>(offset = Len(file))

(* "currOffset should >= fileLen at EOF" (logs.go:112): ReadAt finds the   *)
(* end of the file where it was when the call looked, or further on.       *)
EofAtFileLen == pc = "read" /\ Eof => currOffset + Len(Bytes) >= fileLen

(* "file size is either greater than startingOffset (meaning new bytes     *)
(* appended) or ..." (logs.go:74): a file longer than the client's offset  *)
(* is the one the client has read up to there.                             *)
LongerMeansAppended == pc = "open" /\ fileLen > offset => ~stale
=============================================================================
