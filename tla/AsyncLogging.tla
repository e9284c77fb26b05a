---------------------------- MODULE AsyncLogging ----------------------------
(***************************************************************************)
(* AsyncLogging (Log/asynclogging.cc): the threads that append lines, the  *)
(* writer thread with its two spare buffers, and the owner that starts and *)
(* stops it.  A line is a number, its place in the order in which append   *)
(* got the mutex; its length is that of the pieces its Logger streamed.    *)
(*                                                                         *)
(* The writer's wait releases the mutex, and it ends with a notification,  *)
(* at its timeout, or for no reason: it is not tested for which.  Between  *)
(* two waits the writer needs the mutex only for the exchange of buffers.  *)
(***************************************************************************)
EXTENDS Integers, Sequences, SequencesExt

CONSTANTS
    Heading,          \* the pieces in front of a message: time, thread, level,
                      \* source file and line
    Messages,         \* what is streamed into a Logger, as sequences of pieces
    kSmallBuffer,     \* the room for one line
    kMaxNumericSize,  \* the room a number must find
    kLargeBuffer,     \* the room of a buffer of lines
    MaxBacklog,       \* 16: with more buffers than this to write ...
    KeptBuffers,      \* 2: ... only the first of them are written
    Null,
    MaxLines,         \* how many lines are appended
    MaxErrors         \* how many writes to the file fail

ASSUME SizeAssumption ==
    /\ {kSmallBuffer, kMaxNumericSize, kLargeBuffer} \subseteq Nat \ {0}
    /\ {MaxLines, MaxErrors} \subseteq Nat
    /\ kSmallBuffer <= kLargeBuffer

ASSUME SpareAssumption ==
    {KeptBuffers, MaxBacklog} \subseteq Nat /\ KeptBuffers >= 2 /\ MaxBacklog >= KeptBuffers

VARIABLES
    current_buffer_, next_buffer_, buffers_,
    running_,
    owner,             \* "created", "starting", "started", "stopping", "joining", "stopped"
    pc,                \* where the writer thread is
    new_buffer1, new_buffer2,
    buffers_to_write,
    written,           \* how many of them it has gone through
    file,              \* the lines written, in order
    appended,          \* how many lines append has been called with
    errors,            \* how many writes have failed
    lost,              \* history: the lines dropped for want of room or by an error
    promised           \* history: the lines appended when stop() found the
                       \* writer before an exchange

frontVars == <<current_buffer_, next_buffer_, buffers_, appended>>
spareVars == <<new_buffer1, new_buffer2>>
ownerVars == <<owner, running_, promised>>
writeVars == <<buffers_to_write, written>>
vars == <<frontVars, spareVars, ownerVars, pc, writeVars, file, errors, lost>>

-----------------------------------------------------------------------------
(* LogBuffer, and the line a Logger makes of a message in a small one.     *)

BufferType == [lines : Seq(1..MaxLines), len : 0..kLargeBuffer]

ASSUME NullAssumption == Null \notin BufferType

Empty == [lines |-> <<>>, len |-> 0]

Avail(buffer) == kLargeBuffer - buffer.len

\* Mutant: a line is copied when there is any room.
FitsSome(buffer, len) == Avail(buffer) > 0

Fits(buffer, len) == Avail(buffer) >= len

AppendLine(buffer, line, len) ==
    IF Fits(buffer, len)
    THEN [lines |-> Append(buffer.lines, line), len |-> buffer.len + len]
    ELSE buffer

\* convert: one character for each digit of a number.
Convert[value \in Nat] == IF value < 10 THEN 1 ELSE 1 + Convert[value \div 10]

\* operator<<: a text that does not fit is left out, a number when it might not
\* fit.  What comes after it is still streamed.
Stream(used, piece) ==
    LET len == IF piece.kind = "number" THEN Convert[piece.value] ELSE piece.len
    IN  IF kSmallBuffer - used >= IF piece.kind = "number" THEN kMaxNumericSize ELSE len
        THEN used + len
        ELSE used

Newline == [kind |-> "text", len |-> 1]

\* Logger::Impl puts the heading into the empty stream, the destructor of Logger
\* ends the line.
Impl == FoldLeft(Stream, 0, Heading)

LineLength(message) == Stream(FoldLeft(Stream, Impl, message), Newline)

Lengths == {LineLength(message) : message \in Messages}

\* A Logger's stream takes nothing that does not fit.
ASSUME LengthAssumption == Lengths \subseteq 0..kSmallBuffer

-----------------------------------------------------------------------------
Init ==
    /\ current_buffer_ = Empty
    /\ next_buffer_ = Empty
    /\ buffers_ = <<>>
    /\ running_ = FALSE
    /\ owner = "created"
    /\ pc = "none"
    /\ new_buffer1 = Null
    /\ new_buffer2 = Null
    /\ buffers_to_write = <<>>
    /\ written = 0
    /\ file = <<>>
    /\ appended = 0
    /\ errors = 0
    /\ lost = {}
    /\ promised = {}

\* append(), under the mutex: also before start() and after stop().
AppendToCurrent(line, len) ==
    /\ Avail(current_buffer_) > 0
    /\ current_buffer_' = AppendLine(current_buffer_, line, len)
    /\ lost' = IF Fits(current_buffer_, len) THEN lost ELSE lost \union {line}
    /\ UNCHANGED <<next_buffer_, buffers_>>

AppendToNext(line, len) ==
    /\ Avail(current_buffer_) = 0
    /\ buffers_' = Append(buffers_, current_buffer_)
    /\ current_buffer_' = AppendLine(IF next_buffer_ # Null THEN next_buffer_ ELSE Empty, line, len)
    /\ next_buffer_' = Null
    /\ UNCHANGED lost

AppendMessage ==
    /\ appended < MaxLines
    /\ appended' = appended + 1
    /\ \E len \in Lengths :
          AppendToCurrent(appended + 1, len) \/ AppendToNext(appended + 1, len)
    /\ UNCHANGED <<spareVars, ownerVars, pc, writeVars, file, errors>>

Start ==
    /\ owner = "created"
    /\ running_' = TRUE
    /\ owner' = "starting"
    /\ pc' = "begin"
    /\ UNCHANGED <<frontVars, spareVars, promised, writeVars, file, errors, lost>>

\* start() returns when the writer has counted the latch down.
StartReturns ==
    /\ owner = "starting"
    /\ pc # "begin"
    /\ owner' = "started"
    /\ UNCHANGED <<frontVars, spareVars, running_, promised, pc, writeVars, file,
                   errors, lost>>

StopRunning ==
    /\ owner = "started"
    /\ running_' = FALSE
    /\ owner' = "stopping"
    /\ promised' = IF pc \in {"enter", "wait"} THEN 1..appended ELSE {}
    /\ UNCHANGED <<frontVars, spareVars, pc, writeVars, file, errors, lost>>

\* cond_.notify() of stop(): a writer that waits may wake up anyway.
StopNotifies ==
    /\ owner = "stopping"
    /\ owner' = "joining"
    /\ UNCHANGED <<frontVars, spareVars, running_, promised, pc, writeVars, file,
                   errors, lost>>

Joined ==
    /\ owner = "joining"
    /\ pc = "finished"
    /\ owner' = "stopped"
    /\ UNCHANGED <<frontVars, spareVars, running_, promised, pc, writeVars, file,
                   errors, lost>>

-----------------------------------------------------------------------------
(* writeThread().                                                          *)

WriterBegins ==
    /\ pc = "begin"
    /\ new_buffer1' = Empty
    /\ new_buffer2' = Empty
    /\ pc' = "test"
    /\ UNCHANGED <<frontVars, ownerVars, writeVars, file, errors, lost>>

TestRunning ==
    /\ pc = "test"
    /\ pc' = IF running_ THEN "enter" ELSE "finished"
    /\ UNCHANGED <<frontVars, spareVars, ownerVars, writeVars, file, errors, lost>>

\* buffers_to_write is empty here whatever buffers_ holds, so it always waits.
Wait ==
    /\ pc = "enter"
    /\ pc' = "wait"
    /\ UNCHANGED <<frontVars, spareVars, ownerVars, writeVars, file, errors, lost>>

\* Mutant: the writer waits for a full buffer, without a timeout.
WakesWhenFull == pc = "wait" /\ buffers_ # <<>>

Wakes == pc = "wait"

Swap ==
    /\ buffers_to_write' = Append(buffers_, current_buffer_)
    /\ buffers_' = <<>>
    /\ current_buffer_' = new_buffer1
    /\ new_buffer1' = Null
    /\ IF next_buffer_ = Null
       THEN next_buffer_' = new_buffer2 /\ new_buffer2' = Null
       ELSE UNCHANGED <<next_buffer_, new_buffer2>>
    /\ pc' = "drop"

\* Mutant: the writer looks at running_ when it wakes up.
ExchangeIfRunning ==
    /\ Wakes
    /\ IF running_ THEN Swap
       ELSE pc' = "finished" /\ UNCHANGED <<frontVars, spareVars, buffers_to_write>>
    /\ UNCHANGED <<appended, ownerVars, written, file, errors, lost>>

Exchange ==
    /\ Wakes
    /\ Swap
    /\ UNCHANGED <<appended, ownerVars, written, file, errors, lost>>

LinesIn(buffers) == UNION {Range(buffers[i].lines) : i \in DOMAIN buffers}

\* Mutant: one buffer is kept of a backlog.
KeptOne ==
    IF Len(buffers_to_write) > MaxBacklog
    THEN SubSeq(buffers_to_write, 1, 1)
    ELSE buffers_to_write

Kept ==
    IF Len(buffers_to_write) > MaxBacklog
    THEN SubSeq(buffers_to_write, 1, KeptBuffers)
    ELSE buffers_to_write

DropBacklog ==
    /\ pc = "drop"
    /\ buffers_to_write' = Kept
    /\ lost' = lost \union (LinesIn(buffers_to_write) \ LinesIn(Kept))
    /\ pc' = "write"
    /\ UNCHANGED <<frontVars, spareVars, ownerVars, written, file, errors>>

\* FileWritter::append gives up on the rest of a buffer when fwrite fails.
Cuts(lines) == {Len(lines)} \union IF errors < MaxErrors THEN 0..Len(lines) ELSE {}

WriteBuffer ==
    /\ pc = "write"
    /\ written < Len(buffers_to_write)
    /\ LET lines == buffers_to_write[written + 1].lines
       IN  \E cut \in Cuts(lines) :
              /\ errors' = IF cut = Len(lines) THEN errors ELSE errors + 1
              /\ file' = file \o SubSeq(lines, 1, cut)
              /\ lost' = lost \union Range(SubSeq(lines, cut + 1, Len(lines)))
    /\ written' = written + 1
    /\ UNCHANGED <<frontVars, spareVars, ownerVars, pc, buffers_to_write>>

\* back() of an empty vector is no buffer at all.
Back(buffers) == IF buffers = <<>> THEN Null ELSE Last(buffers)

\* Mutant: a buffer taken back keeps its lines.
NoReset(buffer) == buffer

Reset(buffer) == IF buffer = Null THEN Null ELSE Empty

\* The first two of the list are left, and from their end the spare buffers that
\* were given away are taken back.
Recover ==
    /\ pc = "write"
    /\ written = Len(buffers_to_write)
    /\ LET two == SubSeq(buffers_to_write, 1, IF written > 2 THEN 2 ELSE written)
           rest == IF new_buffer1 = Null THEN SubSeq(two, 1, Len(two) - 1) ELSE two
       IN  /\ new_buffer1' = IF new_buffer1 = Null THEN Reset(Back(two)) ELSE new_buffer1
           /\ new_buffer2' = IF new_buffer2 = Null THEN Reset(Back(rest)) ELSE new_buffer2
    /\ buffers_to_write' = <<>>
    /\ written' = 0
    /\ pc' = "test"
    /\ UNCHANGED <<frontVars, ownerVars, file, errors, lost>>

Writer ==
    \/ WriterBegins \/ TestRunning \/ Wait \/ Exchange
    \/ DropBacklog \/ WriteBuffer \/ Recover

Owner == Start \/ StartReturns \/ StopRunning \/ StopNotifies \/ Joined

Next == AppendMessage \/ Owner \/ Writer

\* The writer is scheduled and its wait ends at its timeout at the latest; the
\* owner finishes the calls it has begun, and need not make any.
Fairness == WF_vars(Writer) /\ WF_vars(StartReturns \/ StopNotifies \/ Joined)

Spec == Init /\ [][Next]_vars /\ Fairness

-----------------------------------------------------------------------------
(* Properties.                                                             *)

\* The fields keep their types, and no buffer holds more than its room.
TypeOK ==
    /\ {current_buffer_, next_buffer_, new_buffer1, new_buffer2}
          \subseteq BufferType \union {Null}
    /\ buffers_ \in Seq(BufferType) /\ buffers_to_write \in Seq(BufferType)
    /\ running_ \in BOOLEAN
    /\ owner \in {"created", "starting", "started", "stopping", "joining", "stopped"}
    /\ pc \in {"none", "begin", "test", "enter", "wait", "drop", "write", "finished"}
    /\ written \in 0..Len(buffers_to_write)
    /\ file \in Seq(1..MaxLines)
    /\ appended \in 0..MaxLines
    /\ errors \in 0..MaxErrors
    /\ lost \subseteq 1..appended
    /\ promised \subseteq 1..appended

\* append and the exchange never find a null buffer: on every path the writer
\* gets two empty buffers back from the list it wrote before it gives them to
\* the appenders again (asynclogging.cc:75-83, :101-117).
BuffersAtHand ==
    /\ current_buffer_ # Null
    /\ next_buffer_ \in {Null, Empty}
    /\ pc \in {"test", "enter", "wait"} => new_buffer1 = Empty /\ new_buffer2 = Empty

Increasing(lines) == \A i, j \in DOMAIN lines : i < j => lines[i] < lines[j]

Before(earlier, later) == \A m \in earlier, n \in later : m < n

InOrder(buffers) ==
    /\ \A i \in DOMAIN buffers : Increasing(buffers[i].lines)
    /\ \A i, j \in DOMAIN buffers :
          i < j => Before(Range(buffers[i].lines), Range(buffers[j].lines))

\* The buffers on their way to the file.
NotWritten ==
    SubSeq(buffers_to_write, written + 1, Len(buffers_to_write))
        \o buffers_ \o <<current_buffer_>>

\* Lines are written in the order in which they were appended, none twice; a
\* line not written yet is in exactly one buffer, on its way behind the earlier
\* ones, unless it was dropped at a full buffer, with a backlog, or by an error.
OnceInOrder ==
    /\ Increasing(file) /\ InOrder(NotWritten)
    /\ Before(Range(file), LinesIn(NotWritten))
    /\ Range(file) \union LinesIn(NotWritten) = 1..appended \ lost

\* A stop that comes before the writer's exchange of buffers loses nothing that
\* was appended before it.  One that comes during a write may: the writer does
\* not look at the buffers again (asynclogging.cc:69).
StopKeepsLines ==
    owner = "stopped" => promised \subseteq Range(file) \union lost

\* A line appended to a running logger is written within a round or is one of
\* the dropped ones, unless the logger is stopped; no later line is needed.
LineIsWritten ==
    \A n \in 1..MaxLines :
        (n <= appended /\ owner = "started") ~>
            (n \in Range(file) \union lost \/ owner # "started")

\* stop() returns: the join ends also when the notification came at a time when
\* the writer was not waiting for it.
StopReturns == owner = "stopping" ~> owner = "stopped"
=============================================================================
