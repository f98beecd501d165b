-------------------------------- MODULE Buffer --------------------------------
(***************************************************************************)
(* muduo's Buffer (mucgi/muduo_net/Buffer.h, copied in cocgi/muduo_lib): a *)
(* vector with a reader and a writer index.  Space is made by moving the   *)
(* content to the front when that is enough and by resizing when it is     *)
(* not; readFd() lets the kernel fill the free part and an overflow area   *)
(* on the stack, which it then appends.                                    *)
(***************************************************************************)
EXTENDS Naturals, Sequences

CONSTANTS
    Bytes,
    Zero,           \* the value resize() fills with
    kCheapPrepend,
    kInitialSize,
    ExtraSize,      \* sizeof extrabuf
    MaxData,        \* bound: bytes per operation
    MaxContent      \* bound: bytes in the buffer

ASSUME BufferConstants ==
    /\ Zero \in Bytes
    /\ kCheapPrepend \in Nat /\ kInitialSize \in Nat /\ ExtraSize \in Nat
    /\ MaxData \in Nat /\ MaxContent \in Nat

VARIABLES
    buf,  \* [buffer_, readerIndex_, writerIndex_]
    call  \* the last call, with its argument

vars == <<buf, call>>

ReadableBytes(b) == b.writerIndex_ - b.readerIndex_
WritableBytes(b) == Len(b.buffer_) - b.writerIndex_
PrependableBytes(b) == b.readerIndex_
Content(b) == SubSeq(b.buffer_, b.readerIndex_ + 1, b.writerIndex_)

\* The members together.
Buf(v, r, w) == [buffer_ |-> v, readerIndex_ |-> r, writerIndex_ |-> w]

\* Buffer(initialSize)
NewBuffer ==
    Buf([i \in 1 .. kCheapPrepend + kInitialSize |-> Zero], kCheapPrepend, kCheapPrepend)

Init == buf = NewBuffer /\ call = <<"create", 0>>

\* std::copy of d to the offset at of the vector v; vector::resize.
CopyTo(v, at, d) ==
    [i \in 1 .. Len(v) |-> IF at < i /\ i <= at + Len(d) THEN d[i - at] ELSE v[i]]
Resize(v, n) == [i \in 1 .. n |-> IF i <= Len(v) THEN v[i] ELSE Zero]

-----------------------------------------------------------------------------
(* The operations, from one buffer to the next. *)

\* makeSpace
MustGrow(b, len) == WritableBytes(b) + PrependableBytes(b) < len + kCheapPrepend

MakeSpace(b, len) ==
    IF MustGrow(b, len)
    THEN Buf(Resize(b.buffer_, b.writerIndex_ + len), b.readerIndex_, b.writerIndex_)
    ELSE Buf(CopyTo(b.buffer_, kCheapPrepend, Content(b)),
             kCheapPrepend, kCheapPrepend + ReadableBytes(b))

EnsureWritableBytes(b, len) == IF WritableBytes(b) < len THEN MakeSpace(b, len) ELSE b

\* Bytes written at beginWrite(), then hasWritten.
Fill(b, d) ==
    Buf(CopyTo(b.buffer_, b.writerIndex_, d), b.readerIndex_, b.writerIndex_ + Len(d))

\* append
AppendTo(b, d) == Fill(EnsureWritableBytes(b, Len(d)), d)

\* retrieveAll, retrieve
RetrieveAllFrom(b) == Buf(b.buffer_, kCheapPrepend, kCheapPrepend)

RetrieveFrom(b, len) ==
    IF len < ReadableBytes(b) THEN Buf(b.buffer_, b.readerIndex_ + len, b.writerIndex_)
    ELSE RetrieveAllFrom(b)

UnwriteFrom(b, len) == Buf(b.buffer_, b.readerIndex_, b.writerIndex_ - len)

\* prepend
PrependTo(b, d) ==
    LET r == b.readerIndex_ - Len(d) IN Buf(CopyTo(b.buffer_, r, d), r, b.writerIndex_)

\* shrink: a new buffer, swapped with this one.
ShrunkTo(b, reserve) ==
    AppendTo(EnsureWritableBytes(NewBuffer, ReadableBytes(b) + reserve), Content(b))

\* readFd: readv() filled the free part, and what it had left is in extrabuf;
\* writerIndex_ goes to the end of the vector before extrabuf is appended.
MostReadable(b) ==
    WritableBytes(b) + (IF WritableBytes(b) < ExtraSize THEN ExtraSize ELSE 0)

ReadIntoStaleIndex(b, d) ==  \* mutant: writerIndex_ is not moved to the end first
    LET writable == WritableBytes(b)
        filled == Fill(b, SubSeq(d, 1, writable))
    IN  IF Len(d) <= writable THEN Fill(b, d)
        ELSE AppendTo(Buf(filled.buffer_, b.readerIndex_, b.writerIndex_),
                      SubSeq(d, writable + 1, Len(d)))

ReadInto(b, d) ==
    LET writable == WritableBytes(b)
    IN  IF Len(d) <= writable THEN Fill(b, d)
        ELSE AppendTo(Fill(b, SubSeq(d, 1, writable)), SubSeq(d, writable + 1, Len(d)))

-----------------------------------------------------------------------------
\* What callers may pass: any bytes, as long as the bounds allow.
Data == UNION {[1 .. n -> Bytes] : n \in 0 .. MaxData}
Fits(d) == ReadableBytes(buf) + Len(d) <= MaxContent

Append_ ==
    \E d \in Data : Fits(d) /\ buf' = AppendTo(buf, d) /\ call' = <<"addBack", d>>

ReadFd ==
    \E d \in Data :
        /\ Fits(d) /\ Len(d) <= MostReadable(buf)
        /\ buf' = ReadInto(buf, d)
        /\ call' = <<"addBack", d>>

Prepend ==
    \E d \in Data :
        /\ Fits(d) /\ Len(d) <= PrependableBytes(buf)
        /\ buf' = PrependTo(buf, d)
        /\ call' = <<"addFront", d>>

Retrieve ==
    \E len \in 0 .. ReadableBytes(buf) :
        buf' = RetrieveFrom(buf, len) /\ call' = <<"takeFront", len>>

RetrieveAll == buf' = RetrieveAllFrom(buf) /\ call' = <<"takeFront", ReadableBytes(buf)>>

Unwrite ==
    \E len \in 0 .. ReadableBytes(buf) :
        buf' = UnwriteFrom(buf, len) /\ call' = <<"takeBack", len>>

Shrink ==
    \E reserve \in 0 .. MaxData : buf' = ShrunkTo(buf, reserve) /\ call' = <<"tidy", 0>>

Next == Append_ \/ ReadFd \/ Prepend \/ Retrieve \/ RetrieveAll \/ Unwrite \/ Shrink

Spec == Init /\ [][Next]_vars

-----------------------------------------------------------------------------
(* Properties. *)

\* The layout of Buffer.h: 0 <= readerIndex_ <= writerIndex_ <= size, with room
\* for the reserved head, where retrieveAll() puts both indices.
Valid(b) ==
    /\ b \in [buffer_ : Seq(Bytes), readerIndex_ : Nat, writerIndex_ : Nat]
    /\ b.readerIndex_ <= b.writerIndex_
    /\ b.writerIndex_ <= Len(b.buffer_)
    /\ kCheapPrepend <= Len(b.buffer_)

\* Whatever the order of operations, the indices keep the layout: no copy runs
\* past the end of the vector and the content never has a negative length.
TypeOK == Valid(buf)

\* The buffer is a byte queue: moving, resizing, shrinking and the detour of
\* readFd() over the stack neither lose, double nor reorder a byte.
Queue == INSTANCE ByteQueue WITH content <- Content(buf)
ImplementsQueue == Queue!Spec

=============================================================================
