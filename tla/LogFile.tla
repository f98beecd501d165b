------------------------------- MODULE LogFile -------------------------------
(***************************************************************************)
(* muduo's logging: a Logger composes a line in a LogStream of fixed size, *)
(* with the time of day cached per thread, and hands it to a LogFile,      *)
(* which rolls the file by size and by day and flushes it now and then.    *)
(* The clock is the wall clock, which may be set back.                     *)
(***************************************************************************)
EXTENDS Integers, SequencesExt, FiniteSetsExt

CONSTANTS
    LogThreads,
    rollSize_, flushInterval_, checkEveryN_,
    kRollPerSeconds_,   \* the length of a day
    SIZE,               \* of the FixedBuffer
    kMaxNumericSize,
    Numbers,            \* the values of the integer type that is printed
    LineLens,           \* bound: lengths of log lines
    MaxNow,             \* bound: the clock
    MaxLines,           \* bound: lines logged
    MaxClockBack        \* bound: how often the clock is set back

ASSUME LogConstants ==
    /\ {rollSize_, flushInterval_, MaxNow, MaxLines, MaxClockBack} \subseteq Nat
    /\ {checkEveryN_, kRollPerSeconds_, SIZE, kMaxNumericSize} \subseteq Nat \ {0}
    /\ Numbers \subseteq Int

VARIABLES
    now,     \* time(NULL), gettimeofday()
    back,    \* how often the clock was set back
    log,     \* count_, startOfPeriod_, lastRoll_, lastFlush_, file_ (its name)
    files,   \* every file, by the second in its name: lines, writtenBytes_
    unflushed, \* lines in the stdio buffer of file_
    lines,   \* lines logged so far
    cached,  \* t_lastSecond and what t_time shows, per thread
    stream   \* a LogStream: cur_, the end of what was written, the numbers last put in

logVars == <<now, back, log, files, unflushed, lines, cached, stream>>
NewStream == [cur |-> 0, top |-> 0, number |-> {}]
streamIdle == stream = NewStream

Period(t) == (t \div kRollPerSeconds_) * kRollPerSeconds_

-----------------------------------------------------------------------------
(* LogFile *)

\* rollFile: a new file, unless the clock has not moved on since the last one.
\* The old one is closed, which writes out its buffer; fopen with "a" would go
\* on with a file of the same name.
MayRollAlways == TRUE  \* mutant
MayRoll == now > log.lastRoll_

NewFile == [lines |-> <<>>, written |-> 0]
Opened(fs) == [f \in DOMAIN fs \cup {now} |-> IF f \in DOMAIN fs THEN fs[f] ELSE NewFile]

Rolled(fs, count) ==
    IF MayRoll
    THEN /\ log' = [count_ |-> count, startOfPeriod_ |-> Period(now), lastRoll_ |-> now,
                    lastFlush_ |-> now, file_ |-> now]
         /\ files' = Opened(fs) /\ unflushed' = <<>>
    ELSE /\ log' = [log EXCEPT !.count_ = count] /\ files' = fs

\* AppendFile::append, without a failing disk; the bytes are counted either way.
Written(f, line, len) ==
    [lines |-> Append(f.lines, line), written |-> f.written + len]

\* append_unlocked, in the lock: AppendFile::append, then the checks.
CheckDue == log.count_ + 1 >= checkEveryN_
FlushDue == now - log.lastFlush_ > flushInterval_
TooLarge(written) == written > rollSize_

appendLine(line, len) ==
    LET f == Written(files[log.file_], line, len)
        fs == [files EXCEPT ![log.file_] = f]
        more == Append(unflushed, line)
    IN  IF TooLarge(f.written)
        THEN Rolled(fs, log.count_) /\ (MayRoll \/ unflushed' = more)
        ELSE IF CheckDue /\ Period(now) # log.startOfPeriod_
        THEN Rolled(fs, 0) /\ (MayRoll \/ unflushed' = more)
        ELSE /\ files' = fs
             /\ IF CheckDue /\ FlushDue
                THEN log' = [log EXCEPT !.count_ = 0, !.lastFlush_ = now] /\ unflushed' = <<>>
                ELSE /\ log' = [log EXCEPT !.count_ = IF CheckDue THEN 0 ELSE @ + 1]
                     /\ unflushed' = more

\* formatTime: the text is made anew when the second is another one.
SameSecond(c) == now = c.t_lastSecond
Cache(c) == IF SameSecond(c) THEN c ELSE [t_lastSecond |-> now, t_time |-> now]

\* A Logger from its constructor to ~Logger with append() as the output.
LogLine(t) ==
    /\ Len(lines) < MaxLines /\ streamIdle
    /\ cached' = [cached EXCEPT ![t] = Cache(@)]
    /\ \E len \in LineLens :
         LET line == [id |-> Len(lines) + 1, at |-> now, shown |-> cached'[t].t_time]
         IN  appendLine(line, len) /\ lines' = Append(lines, line)
    /\ UNCHANGED <<now, back, stream>>

\* flush(), by whoever wants it; lastFlush_ is not touched.
Flush ==
    /\ unflushed # <<>> /\ streamIdle /\ unflushed' = <<>>
    /\ UNCHANGED <<now, back, log, files, lines, cached, stream>>

\* rollFile(), which is public.
RollFile ==
    /\ MayRoll /\ streamIdle /\ Rolled(files, log.count_)
    /\ UNCHANGED <<now, back, lines, cached, stream>>

LogTick ==
    /\ now < MaxNow /\ streamIdle /\ now' = now + 1
    /\ UNCHANGED <<back, log, files, unflushed, lines, cached, stream>>

ClockBack ==
    /\ now > 1 /\ back < MaxClockBack /\ streamIdle
    /\ back' = back + 1 /\ \E t \in 1 .. now - 1 : now' = t
    /\ UNCHANGED <<log, files, unflushed, lines, cached, stream>>

-----------------------------------------------------------------------------
(* LogStream.  C's remainder has the sign of the number, and the table of   *)
(* digits (9876543210123456789) works in both directions from its middle.  *)

AbsDigit(d) == IF d < 0 THEN -d ELSE d
TruncDiv(a, b) == IF a < 0 THEN -((-a) \div b) ELSE a \div b
TruncMod(a, b) == a - TruncDiv(a, b) * b

\* The number left after k digits: the loop ends when it is 0.
Left(v, base) ==
    LET left[k \in 0 .. kMaxNumericSize] == IF k = 0 THEN v ELSE TruncDiv(left[k - 1], base)
    IN  left
Ends(v, base) == {k \in 1 .. kMaxNumericSize : Left(v, base)[k] = 0}
NumDigits(v, base) == Min(Ends(v, base))

\* convert (base 10), convertHex (base 16): least digit first, "-" (-1 here)
\* last, then reversed.
convert(v, base) ==
    Reverse([i \in 1 .. NumDigits(v, base) |-> AbsDigit(TruncMod(Left(v, base)[i - 1], base))]
            \o (IF v < 0 THEN <<-1>> ELSE <<>>))

Avail == SIZE - stream.cur

\* FixedBuffer::append: all of it or nothing.
AppendFits(len) == Avail > len
\* formatInteger writes at cur_ itself, with a 0 behind the digits.
NumberFitsLen(v) == Avail >= Len(convert(v, 10))  \* mutant
NumberFits(v) == Avail >= kMaxNumericSize

PutText ==
    /\ lines = <<>>
    /\ \E len \in 1 .. SIZE :
         IF AppendFits(len)
         THEN stream' = [cur |-> stream.cur + len, top |-> stream.cur + len, number |-> {}]
         ELSE UNCHANGED stream
    /\ UNCHANGED <<now, back, log, files, unflushed, lines, cached>>

\* A pointer is "0x" and its hexadecimal digits.
NumberLen(v, base) == Len(convert(v, base)) + (IF base = 16 THEN 2 ELSE 0)

\* staticCheck(): kMaxNumericSize is more than the digits of any number of the
\* type, with the sign or the "0x" in front and the 0 behind them.
ASSUME NumbersHaveRoom ==
    \A v \in Numbers, base \in {10, 16} :
        (base = 16 => v >= 0) => \E k \in Ends(v, base) :
            k + (IF base = 16 THEN 2 ELSE 1) + 1 <= kMaxNumericSize

PutNumber ==
    /\ lines = <<>>
    /\ \E v \in Numbers, base \in {10, 16} :
         /\ base = 16 => v >= 0
         /\ IF NumberFits(v)
            THEN stream' = [cur |-> stream.cur + NumberLen(v, base),
                            top |-> stream.cur + NumberLen(v, base) + 1, number |-> {v}]
            ELSE UNCHANGED stream
    /\ UNCHANGED <<now, back, log, files, unflushed, lines, cached>>

-----------------------------------------------------------------------------
\* LogFile's constructor rolls to the first file.
LogInit ==
    /\ now = 1 /\ back = 0 /\ lines = <<>> /\ unflushed = <<>>
    /\ log = [count_ |-> 0, startOfPeriod_ |-> Period(1), lastRoll_ |-> 1, lastFlush_ |-> 1,
              file_ |-> 1]
    /\ files = [f \in {1} |-> NewFile]
    /\ cached = [t \in LogThreads |-> [t_lastSecond |-> 0, t_time |-> 0]]
    /\ stream = NewStream

StreamNext == now = 1 /\ (PutText \/ PutNumber)
LogNext ==
    \/ \E t \in LogThreads : LogLine(t)
    \/ Flush \/ RollFile \/ LogTick \/ ClockBack \/ StreamNext

LogSpec == LogInit /\ [][LogNext]_logVars

-----------------------------------------------------------------------------
(* Properties. *)

\* The k-th line of file f is read before the l-th of file g.
ReadBefore(f, k, g, l) == f < g \/ (f = g /\ k < l)

\* The files read in the order of their names have every line, once and in the
\* order logged, even if the clock was set back: no file is continued after a
\* later one was begun.  (A line's id is its place in the order logged.)
ReadsInOrder ==
    /\ \A f \in DOMAIN files : \A k \in DOMAIN files[f].lines :
         /\ files[f].lines[k].id \in DOMAIN lines
         /\ files[f].lines[k] = lines[files[f].lines[k].id]
         /\ \A g \in DOMAIN files : \A l \in DOMAIN files[g].lines :
              ReadBefore(f, k, g, l) => files[f].lines[k].id < files[g].lines[l].id
    /\ \A i \in DOMAIN lines : \E f \in DOMAIN files : \E k \in DOMAIN files[f].lines :
         files[f].lines[k].id = i

\* At most checkEveryN_ lines of a later day go into a file, as long as the clock
\* is not set back between them.
DayBounded ==
    back = 0 => \A f \in DOMAIN files :
        Cardinality({i \in DOMAIN files[f].lines :
                        Period(files[f].lines[i].at) > Period(f)}) <= checkEveryN_

\* Fewer than checkEveryN_ lines logged later than flushInterval_ after the last
\* flush can be lost in a crash, as long as the clock is not set back.
OverdueBounded ==
    back = 0 => Cardinality({i \in DOMAIN unflushed :
                    unflushed[i].at > log.lastFlush_ + flushInterval_}) < checkEveryN_

\* Every line shows the second it was logged in, whatever thread it is from and
\* wherever the clock has been.
TimeShown == \A i \in DOMAIN lines : lines[i].shown = lines[i].at

\* What can be read in the files, now and after a crash.
LogExact == ReadsInOrder /\ DayBounded /\ OverdueBounded /\ TimeShown

\* What is written to the buffer of a line stays inside it.
StreamInside == stream.top <= SIZE

\* The number that digits show, the first being the highest.
ValueOf(digits, base) ==
    LET value[i \in 0 .. Len(digits)] == IF i = 0 THEN 0 ELSE value[i - 1] * base + digits[i]
    IN  value[Len(digits)]

\* What is printed of v is a sign if it is negative, and then digits that show
\* it, without a 0 in front.
PrintedExact(v, base) ==
    LET s == convert(v, base)
        digits == IF v < 0 THEN Tail(s) ELSE s
    IN  /\ v < 0 => s[1] = -1
        /\ \A i \in DOMAIN digits : digits[i] \in 0 .. base - 1
        /\ v = (IF v < 0 THEN -ValueOf(digits, base) ELSE ValueOf(digits, base))
        /\ Len(digits) >= 1 /\ (Len(digits) > 1 => digits[1] # 0)

\* Integers are printed exactly, the most negative one included, and fit into
\* the room formatInteger() asks for.
NumbersExact ==
    \A v \in stream.number :
        /\ PrintedExact(v, 10) /\ (v >= 0 => PrintedExact(v, 16))
        /\ Len(convert(v, 10)) + 1 <= kMaxNumericSize

\* A line is composed exactly and inside its buffer.
StreamExact == StreamInside /\ NumbersExact
=============================================================================
