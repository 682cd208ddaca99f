------------------------------ MODULE RangedReader ------------------------------
(***************************************************************************)
(* The io.ReadSeekCloser over a B2 object, and the requests net/http's     *)
(* ServeContent makes of it to answer one download: the size, and then the *)
(* bytes of every range the client asked for, in the client's order.       *)
(***************************************************************************)
EXTENDS Integers, Sequences
LOCAL INSTANCE Functions

CONSTANTS
    ObjectSize,  \* bytes in the object
    MaxRanges,   \* bound on the ranges of one download
    NoStream

\* What the theorem supposes: an object has a byte, and no stream is no position.
ReaderAssumption ==
    /\ ObjectSize \in Nat \ {0}
    /\ MaxRanges \in Nat
    /\ NoStream \notin Int

VARIABLES
    offset,    \* where the last Seek went
    body,      \* position of the open GetObject stream, or NoStream
    download,  \* the ranges asked for
    current,   \* which of them is being served
    left,      \* bytes of it that io.CopyN has yet to copy
    phase,     \* "size", "rewind", "seek", "copy" or "closed"
    wrong      \* the ranges of which a wrong byte was sent, or too few

readerVars == <<offset, body, download, current, left, phase, wrong>>

Ranges == {r \in [first : 0 .. ObjectSize - 1, length : 1 .. ObjectSize] :
              r.first + r.length <= ObjectSize}

Downloads == UNION {[1 .. n -> Ranges] : n \in 1 .. MaxRanges}

\* Ranges whose lengths add up to more than the object are not served as such.
Served(asked) ==
    FoldFunction(LAMBDA range, sum : range.length + sum, 0, asked) <= ObjectSize

\* The byte that is next in the answer.
Wanted == download[current].first + (download[current].length - left)

ReaderTypeOK ==
    /\ offset \in 0 .. ObjectSize
    /\ body \in 0 .. ObjectSize \cup {NoStream}
    /\ download \in Seq(Ranges)
    /\ current \in 1 .. Len(download) + 1
    /\ left \in 0 .. ObjectSize
    /\ phase \in {"size", "rewind", "seek", "copy", "closed"}
    /\ wrong \subseteq 1 .. Len(download)

ReaderInit ==
    /\ offset = 0
    /\ body = NoStream
    /\ download \in {asked \in Downloads : Served(asked)}
    /\ current = 1
    /\ left = 0
    /\ phase = "size"
    /\ wrong = {}

\* A mutated form: a seek forgets to close the stream.
SeekKeepingStream(absolute) ==
    /\ offset' = absolute
    /\ UNCHANGED body

\* Seek: a stream is closed when the offset is not that of the last seek, and
\* Read will open a new one.  Where the stream stands is not asked.
Seek(absolute) ==
    /\ body' = IF absolute # offset THEN NoStream ELSE body
    /\ offset' = absolute

\* ServeContent seeks to the end for the size, and back.
FindSize ==
    /\ phase = "size"
    /\ Seek(ObjectSize)
    /\ phase' = "rewind"
    /\ UNCHANGED <<download, current, left, wrong>>

Rewind ==
    /\ phase = "rewind"
    /\ Seek(0)
    /\ phase' = "seek"
    /\ UNCHANGED <<download, current, left, wrong>>

SeekRange ==
    /\ phase = "seek"
    /\ current <= Len(download)
    /\ Seek(download[current].first)
    /\ left' = download[current].length
    /\ phase' = "copy"
    /\ UNCHANGED <<download, current, wrong>>

\* Read opens a ranged GET at offset unless a stream is open.  It does not
\* move offset.
ReadPosition == IF body = NoStream THEN offset ELSE body

\* One Read of io.CopyN: some of the bytes that are left of the range.
Read ==
    /\ phase = "copy"
    /\ offset < ObjectSize
    /\ \E n \in 1 .. left :
        /\ ReadPosition + n <= ObjectSize
        /\ body' = ReadPosition + n
        /\ wrong' = IF ReadPosition = Wanted THEN wrong ELSE wrong \cup {current}
        /\ left' = left - n
        /\ IF n = left THEN phase' = "seek" /\ current' = current + 1
           ELSE UNCHANGED <<phase, current>>
    /\ UNCHANGED <<offset, download>>

\* A Read at the end of the stream: io.CopyN fails, no further range is served,
\* and the reader is closed.
CutShort ==
    /\ phase = "copy"
    /\ ReadPosition = ObjectSize
    /\ wrong' = wrong \cup {current}
    /\ body' = NoStream
    /\ offset' = ObjectSize
    /\ phase' = "closed"
    /\ UNCHANGED <<download, current, left>>

\* Close, at the end of the download or when the client goes away.
Close ==
    /\ phase # "closed"
    /\ body' = NoStream
    /\ offset' = IF body = NoStream THEN offset ELSE ObjectSize
    /\ phase' = "closed"
    /\ UNCHANGED <<download, current, left, wrong>>

ReaderNext == FindSize \/ Rewind \/ SeekRange \/ Read \/ CutShort \/ Close

ReaderSpec == ReaderInit /\ [][ReaderNext]_readerVars

-------------------------------------------------------------------------------
(* Properties.                                                               *)

\* Every range is answered with the bytes the client asked for, one seek per
\* range, as the comment on rangedReader has it.
DeliversWhatIsAsked == wrong = {}

\* Does range i begin where the one before it began?
BeginsAgain(i) == i > 1 /\ download[i].first = download[i - 1].first

\* A range that begins elsewhere than the range before it is answered with its
\* bytes and all of them, whatever was served before it (a wrong range too),
\* although the reader's offset stands still while its stream moves on.
SeeksAreEnough == ReaderTypeOK /\ \A i \in wrong : BeginsAgain(i)

===============================================================================
