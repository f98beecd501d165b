----------------------------- MODULE Base_proofs -----------------------------
(***************************************************************************)
(* Proofs about the parts that one thread uses by itself:                  *)
(*   - Buffer: the layout of the indices is invariant and the buffer       *)
(*     implements ByteQueue, for every size of the reserved head, the      *)
(*     initial vector and the overflow area, and for any bytes;            *)
(*   - Pollers: PollPoller's array and map and EPollPoller's registrations *)
(*     agree with the channels, for any channels and descriptors;          *)
(*   - LogFile: every line is written once, in order, under the right      *)
(*     second and period, for any sizes, intervals and clock;              *)
(*   - Calendar: dates, UTC and local time in both directions, for every   *)
(*     year of the formulas and every zone file.                           *)
(***************************************************************************)
EXTENDS Buffer, Calendar, LogFile, Pollers, SequenceTheorems, FiniteSetTheorems,
        NaturalsInduction, TLAPS

-----------------------------------------------------------------------------
(* The vector. *)

\* std::copy changes the bytes it covers and nothing else.
LEMMA CopyToProps ==
    ASSUME NEW v \in Seq(Bytes), NEW at \in Nat, NEW d \in Seq(Bytes)
    PROVE  /\ CopyTo(v, at, d) \in Seq(Bytes)
           /\ Len(CopyTo(v, at, d)) = Len(v)
           /\ \A i \in 1 .. Len(v) :
                CopyTo(v, at, d)[i] = IF at < i /\ i <= at + Len(d) THEN d[i - at] ELSE v[i]
<1>1. Len(v) \in Nat /\ Len(d) \in Nat
  BY LenProperties
<1>2. \A i \in 1 .. Len(v) : (IF at < i /\ i <= at + Len(d) THEN d[i - at] ELSE v[i]) \in Bytes
  BY <1>1, ElementOfSeq
<1>3. CopyTo(v, at, d) \in [1 .. Len(v) -> Bytes]
  BY <1>2 DEF CopyTo
<1> QED
  BY <1>1, <1>3, LenProperties, SeqDef DEF CopyTo

\* vector::resize keeps the bytes there were.
LEMMA ResizeProps ==
    ASSUME NEW v \in Seq(Bytes), NEW n \in Nat
    PROVE  /\ Resize(v, n) \in Seq(Bytes)
           /\ Len(Resize(v, n)) = n
           /\ \A i \in 1 .. n : i <= Len(v) => Resize(v, n)[i] = v[i]
<1>1. Len(v) \in Nat
  BY LenProperties
<1>2. \A i \in 1 .. n : (IF i <= Len(v) THEN v[i] ELSE Zero) \in Bytes
  BY <1>1, ElementOfSeq, BufferConstants
<1>3. Resize(v, n) \in [1 .. n -> Bytes]
  BY <1>2 DEF Resize
<1> QED
  BY <1>1, <1>3, LenProperties, SeqDef DEF Resize

\* The bytes m + 1 .. n of a sequence.
LEMMA PieceProps ==
    ASSUME NEW s \in Seq(Bytes), NEW m \in Nat, NEW n \in Nat, m <= n, n <= Len(s)
    PROVE  /\ SubSeq(s, m + 1, n) \in Seq(Bytes)
           /\ Len(SubSeq(s, m + 1, n)) = n - m
           /\ n - m \in Nat
           /\ \A i \in 1 .. n - m : SubSeq(s, m + 1, n)[i] = s[m + i]
<1>1. Len(s) \in Nat
  BY LenProperties
<1>2. \A i \in m + 1 .. n : s[i] \in Bytes
  BY <1>1, ElementOfSeq
<1>3. m + 1 \in Int /\ n \in Int
  OBVIOUS
<1>4. /\ SubSeq(s, m + 1, n) \in Seq(Bytes)
      /\ Len(SubSeq(s, m + 1, n)) = IF m + 1 <= n THEN n - (m + 1) + 1 ELSE 0
      /\ \A i \in 1 .. n - (m + 1) + 1 : SubSeq(s, m + 1, n)[i] = s[(m + 1) + i - 1]
  BY ONLY <1>2, <1>3, SubSeqProperties
<1>5. ASSUME NEW i \in 1 .. n - m
      PROVE  SubSeq(s, m + 1, n)[i] = s[m + i]
  <2>1. i \in 1 .. n - (m + 1) + 1
    OBVIOUS
  <2>2. (m + 1) + i - 1 = m + i
    OBVIOUS
  <2> QED
    BY ONLY <1>4, <2>1, <2>2
<1>6. Len(SubSeq(s, m + 1, n)) = n - m /\ n - m \in Nat
  BY <1>4
<1> QED
  BY ONLY <1>4, <1>5, <1>6

\* The fields of a valid buffer.
LEMMA ValidFields ==
    ASSUME NEW b, Valid(b)
    PROVE  /\ b.buffer_ \in Seq(Bytes) /\ Len(b.buffer_) \in Nat
           /\ b.readerIndex_ \in Nat /\ b.writerIndex_ \in Nat
           /\ b.readerIndex_ <= b.writerIndex_ /\ b.writerIndex_ <= Len(b.buffer_)
           /\ kCheapPrepend <= Len(b.buffer_) /\ kCheapPrepend \in Nat
BY LenProperties, BufferConstants DEF Valid

\* ... and what makes one.
LEMMA MakeValid ==
    ASSUME NEW v \in Seq(Bytes), NEW r \in Nat, NEW w \in Nat, r <= w, w <= Len(v),
           kCheapPrepend <= Len(v)
    PROVE  /\ Valid(Buf(v, r, w))
           /\ Buf(v, r, w).buffer_ = v
           /\ Buf(v, r, w).readerIndex_ = r
           /\ Buf(v, r, w).writerIndex_ = w
           /\ ReadableBytes(Buf(v, r, w)) = w - r
           /\ WritableBytes(Buf(v, r, w)) = Len(v) - w
BY DEF Valid, Buf, ReadableBytes, WritableBytes

\* The content of a buffer, byte by byte.
LEMMA ContentProps ==
    ASSUME NEW b, Valid(b)
    PROVE  /\ Content(b) \in Seq(Bytes)
           /\ Len(Content(b)) = ReadableBytes(b)
           /\ ReadableBytes(b) \in Nat
           /\ \A i \in 1 .. ReadableBytes(b) : Content(b)[i] = b.buffer_[b.readerIndex_ + i]
<1>1. /\ b.buffer_ \in Seq(Bytes) /\ b.readerIndex_ \in Nat /\ b.writerIndex_ \in Nat
      /\ b.readerIndex_ <= b.writerIndex_ /\ b.writerIndex_ <= Len(b.buffer_)
  BY ValidFields
<1> QED
  BY ONLY <1>1, PieceProps DEF Content, ReadableBytes

\* The content is s when it has the length of s and its bytes.
LEMMA ContentIs ==
    ASSUME NEW b, Valid(b), NEW s \in Seq(Bytes), Len(s) = ReadableBytes(b),
           \A i \in 1 .. Len(s) : s[i] = b.buffer_[b.readerIndex_ + i]
    PROVE  Content(b) = s
<1>1. /\ Content(b) \in Seq(Bytes)
      /\ Len(Content(b)) = Len(s)
      /\ \A i \in 1 .. Len(Content(b)) : Content(b)[i] = s[i]
  BY ContentProps
<1> QED
  BY ONLY <1>1, SeqEqual, s \in Seq(Bytes)

-----------------------------------------------------------------------------
(* The operations. *)

\* The constructor makes an empty buffer.
LEMMA NewBufferProps == Valid(NewBuffer) /\ Content(NewBuffer) = <<>>
<1> DEFINE n == kCheapPrepend + kInitialSize
           v == [i \in 1 .. n |-> Zero]
<1>1. n \in Nat /\ v \in [1 .. n -> Bytes]
  BY BufferConstants
<1>2. v \in Seq(Bytes) /\ Len(v) = n
  BY <1>1, SeqDef, LenProperties
<1>3. NewBuffer = Buf(v, kCheapPrepend, kCheapPrepend)
  BY DEF NewBuffer
<1>4. kCheapPrepend \in Nat /\ kCheapPrepend <= kCheapPrepend /\ kCheapPrepend <= n
  BY BufferConstants
<1> HIDE DEF v, n
<1>5. Valid(NewBuffer) /\ ReadableBytes(NewBuffer) = kCheapPrepend - kCheapPrepend
  BY ONLY <1>2, <1>3, <1>4, MakeValid
<1>6. ReadableBytes(NewBuffer) = 0
  BY <1>4, <1>5
<1>7. Content(NewBuffer) = <<>>
  BY ONLY <1>5, <1>6, ContentProps, EmptySeq
<1> QED
  BY <1>5, <1>7

\* makeSpace: when the vector is not resized there is more than the reserved
\* head in front (its assert), the content moves there unharmed and the free
\* part is large enough.
LEMMA EnsureProps ==
    ASSUME NEW b, Valid(b), NEW len \in Nat
    PROVE  /\ Valid(EnsureWritableBytes(b, len))
           /\ WritableBytes(EnsureWritableBytes(b, len)) >= len
           /\ Content(EnsureWritableBytes(b, len)) = Content(b)
<1> DEFINE e == EnsureWritableBytes(b, len)
           n == ReadableBytes(b)
<1>0. /\ b.buffer_ \in Seq(Bytes) /\ Len(b.buffer_) \in Nat
      /\ b.readerIndex_ \in Nat /\ b.writerIndex_ \in Nat
      /\ b.readerIndex_ <= b.writerIndex_ /\ b.writerIndex_ <= Len(b.buffer_)
      /\ kCheapPrepend \in Nat /\ kCheapPrepend <= Len(b.buffer_)
  BY ValidFields
<1>c. /\ Content(b) \in Seq(Bytes) /\ Len(Content(b)) = n /\ n \in Nat
      /\ \A i \in 1 .. n : Content(b)[i] = b.buffer_[b.readerIndex_ + i]
  BY ContentProps
<1>n. n = b.writerIndex_ - b.readerIndex_
  BY DEF ReadableBytes
<1> HIDE DEF n
<1>1. CASE ~(WritableBytes(b) < len)
  <2>1. e = b
    BY <1>1 DEF EnsureWritableBytes
  <2>2. WritableBytes(b) >= len
    BY <1>0, <1>1 DEF WritableBytes
  <2> QED
    BY <2>1, <2>2
<1>2. CASE WritableBytes(b) < len /\ MustGrow(b, len)
  <2> DEFINE m == b.writerIndex_ + len
             v == Resize(b.buffer_, m)
  <2>1. e = Buf(v, b.readerIndex_, b.writerIndex_)
    BY <1>2 DEF EnsureWritableBytes, MakeSpace
  <2>2. m \in Nat /\ Len(b.buffer_) <= m /\ b.writerIndex_ <= m /\ m - b.writerIndex_ >= len
        /\ kCheapPrepend <= m
    BY <1>0, <1>2 DEF WritableBytes
  <2> HIDE DEF m
  <2>3. /\ v \in Seq(Bytes) /\ Len(v) = m
        /\ \A i \in 1 .. m : i <= Len(b.buffer_) => v[i] = b.buffer_[i]
    BY ONLY <1>0, <2>2, ResizeProps
  <2> HIDE DEF v, e
  <2>4. /\ Valid(e) /\ e.buffer_ = v /\ e.readerIndex_ = b.readerIndex_
        /\ ReadableBytes(e) = n /\ WritableBytes(e) = m - b.writerIndex_
    <3>1. /\ v \in Seq(Bytes) /\ b.readerIndex_ \in Nat /\ b.writerIndex_ \in Nat
          /\ b.readerIndex_ <= b.writerIndex_
          /\ b.writerIndex_ <= Len(v) /\ kCheapPrepend <= Len(v)
      BY ONLY <1>0, <2>2, <2>3
    <3>2. /\ Valid(e) /\ e.buffer_ = v /\ e.readerIndex_ = b.readerIndex_
          /\ ReadableBytes(e) = b.writerIndex_ - b.readerIndex_
          /\ WritableBytes(e) = Len(v) - b.writerIndex_
      BY ONLY <2>1, <3>1, MakeValid
    <3> QED
      BY ONLY <1>n, <2>3, <3>2
  <2>5. \A i \in 1 .. n : Content(b)[i] = e.buffer_[e.readerIndex_ + i]
    <3> SUFFICES ASSUME NEW i \in 1 .. n
                 PROVE  Content(b)[i] = v[b.readerIndex_ + i]
      BY <2>4
    <3>1. b.readerIndex_ + i \in 1 .. m /\ b.readerIndex_ + i <= Len(b.buffer_)
      BY <1>0, <1>n, <2>2
    <3> QED
      BY ONLY <1>c, <2>3, <3>1, i \in 1 .. n
  <2>6. Content(e) = Content(b)
    BY ONLY <1>c, <2>4, <2>5, ContentIs
  <2> QED
    BY <2>2, <2>4, <2>6 DEF e
<1>3. CASE WritableBytes(b) < len /\ ~MustGrow(b, len)
  <2> DEFINE v == CopyTo(b.buffer_, kCheapPrepend, Content(b))
             w == kCheapPrepend + n
  <2>1. e = Buf(v, kCheapPrepend, w)
    BY <1>3 DEF EnsureWritableBytes, MakeSpace, n
  <2>2. /\ v \in Seq(Bytes) /\ Len(v) = Len(b.buffer_)
        /\ \A i \in 1 .. Len(b.buffer_) :
             v[i] = IF kCheapPrepend < i /\ i <= kCheapPrepend + n
                    THEN Content(b)[i - kCheapPrepend] ELSE b.buffer_[i]
    BY <1>0, <1>c, CopyToProps
  <2>3. /\ kCheapPrepend < b.readerIndex_
        /\ w \in Nat /\ kCheapPrepend <= w /\ w <= Len(b.buffer_)
        /\ w - kCheapPrepend = n
        /\ Len(b.buffer_) - w >= len
    <3>1. ~((Len(b.buffer_) - b.writerIndex_) + b.readerIndex_ < len + kCheapPrepend)
          /\ Len(b.buffer_) - b.writerIndex_ < len
      BY ONLY <1>3 DEF MustGrow, WritableBytes, PrependableBytes
    <3> HIDE DEF e, v
    <3>2. n \in Nat
      BY ONLY <1>c
    <3>3. kCheapPrepend < b.readerIndex_
      BY ONLY <1>0, <3>1, len \in Nat
    <3>4. w \in Nat /\ kCheapPrepend <= w /\ w - kCheapPrepend = n
      BY ONLY <1>0, <3>2
    <3>5. w <= b.writerIndex_
      BY ONLY <1>0, <1>n, <3>2, <3>3
    <3>6. Len(b.buffer_) - w >= len
      BY ONLY <1>0, <1>n, <3>1, <3>2, len \in Nat
    <3> HIDE DEF w
    <3> QED
      BY ONLY <1>0, <3>3, <3>4, <3>5, <3>6
  <2> HIDE DEF v, e, w
  <2>4. /\ Valid(e) /\ e.buffer_ = v /\ e.readerIndex_ = kCheapPrepend
        /\ ReadableBytes(e) = n /\ WritableBytes(e) = Len(b.buffer_) - w
    <3>1. v \in Seq(Bytes) /\ w <= Len(v) /\ kCheapPrepend <= Len(v)
      BY ONLY <1>0, <2>2, <2>3
    <3>2. /\ Valid(e) /\ e.buffer_ = v /\ e.readerIndex_ = kCheapPrepend
          /\ ReadableBytes(e) = w - kCheapPrepend /\ WritableBytes(e) = Len(v) - w
      BY ONLY <1>0, <2>1, <2>3, <3>1, MakeValid
    <3> QED
      BY ONLY <2>2, <2>3, <3>2
  <2>5. \A i \in 1 .. n : Content(b)[i] = e.buffer_[e.readerIndex_ + i]
    <3> SUFFICES ASSUME NEW i \in 1 .. n
                 PROVE  v[kCheapPrepend + i] = Content(b)[i]
      BY <2>4
    <3>1. kCheapPrepend + i \in 1 .. Len(b.buffer_)
      BY <1>0, <1>c, <2>3
    <3>2. kCheapPrepend < kCheapPrepend + i /\ kCheapPrepend + i <= kCheapPrepend + n
      BY <1>0, <1>c
    <3>3. (kCheapPrepend + i) - kCheapPrepend = i
      BY <1>0
    <3> QED
      BY ONLY <2>2, <3>1, <3>2, <3>3
  <2>6. Content(e) = Content(b)
    BY ONLY <1>c, <2>4, <2>5, ContentIs
  <2> QED
    BY <2>3, <2>4, <2>6 DEF e
<1> QED
  BY <1>1, <1>2, <1>3

\* Writing d into the free part adds d at the end.
LEMMA FillProps ==
    ASSUME NEW b, Valid(b), NEW d \in Seq(Bytes), Len(d) <= WritableBytes(b)
    PROVE  Valid(Fill(b, d)) /\ Content(Fill(b, d)) = Content(b) \o d
<1> DEFINE f == Fill(b, d)
           v == CopyTo(b.buffer_, b.writerIndex_, d)
           w == b.writerIndex_ + Len(d)
           n == ReadableBytes(b)
           s == Content(b) \o d
<1>0. /\ b.buffer_ \in Seq(Bytes) /\ Len(b.buffer_) \in Nat
      /\ b.readerIndex_ \in Nat /\ b.writerIndex_ \in Nat
      /\ b.readerIndex_ <= b.writerIndex_ /\ b.writerIndex_ <= Len(b.buffer_)
      /\ kCheapPrepend <= Len(b.buffer_)
      /\ Len(d) \in Nat
  BY ValidFields, LenProperties
<1>1. f = Buf(v, b.readerIndex_, w)
  BY DEF Fill
<1>2. /\ v \in Seq(Bytes) /\ Len(v) = Len(b.buffer_)
      /\ \A i \in 1 .. Len(b.buffer_) :
            v[i] = IF b.writerIndex_ < i /\ i <= b.writerIndex_ + Len(d)
                   THEN d[i - b.writerIndex_] ELSE b.buffer_[i]
  BY <1>0, CopyToProps
<1>3. w \in Nat /\ b.readerIndex_ <= w /\ w <= Len(b.buffer_)
  BY <1>0 DEF WritableBytes
<1>6. /\ Content(b) \in Seq(Bytes) /\ Len(Content(b)) = n /\ n \in Nat
      /\ \A i \in 1 .. n : Content(b)[i] = b.buffer_[b.readerIndex_ + i]
  BY ContentProps
<1>7. n = b.writerIndex_ - b.readerIndex_ /\ w - b.readerIndex_ = n + Len(d)
  BY <1>0 DEF ReadableBytes
<1> HIDE DEF v, f, n, w
<1>4. /\ Valid(f) /\ f.buffer_ = v /\ f.readerIndex_ = b.readerIndex_
      /\ ReadableBytes(f) = w - b.readerIndex_
  <2>1. w <= Len(v) /\ kCheapPrepend <= Len(v)
    BY ONLY <1>0, <1>2, <1>3
  <2> QED
    BY ONLY <1>0, <1>1, <1>2, <1>3, <2>1, MakeValid
<1>8. /\ s \in Seq(Bytes) /\ Len(s) = n + Len(d)
      /\ \A i \in 1 .. n + Len(d) : s[i] = IF i <= n THEN Content(b)[i] ELSE d[i - n]
  BY <1>6, ConcatProperties
<1> HIDE DEF s
<1>10. \A i \in 1 .. n + Len(d) : s[i] = f.buffer_[f.readerIndex_ + i]
  <2> SUFFICES ASSUME NEW i \in 1 .. n + Len(d)
               PROVE  s[i] = v[b.readerIndex_ + i]
    BY <1>4
  <2>1. b.readerIndex_ + i \in 1 .. Len(b.buffer_)
    <3>1. i \in 1 .. w - b.readerIndex_
      BY ONLY <1>7, i \in 1 .. n + Len(d)
    <3> QED
      BY ONLY <1>0, <1>3, <3>1
  <2>2. CASE i <= n
    <3>1. ~(b.writerIndex_ < b.readerIndex_ + i)
      BY <1>0, <1>6, <1>7, <2>2
    <3>2. v[b.readerIndex_ + i] = b.buffer_[b.readerIndex_ + i]
      BY ONLY <1>2, <2>1, <3>1
    <3>3. i \in 1 .. n
      BY <1>0, <1>6, <2>2
    <3> QED
      BY ONLY <1>6, <1>8, <2>2, <3>2, <3>3, i \in 1 .. n + Len(d)
  <2>3. CASE ~(i <= n)
    <3>1. b.writerIndex_ < b.readerIndex_ + i /\ b.readerIndex_ + i <= b.writerIndex_ + Len(d)
      BY <1>0, <1>6, <1>7, <2>3
    <3>2. (b.readerIndex_ + i) - b.writerIndex_ = i - n
      BY <1>0, <1>6, <1>7
    <3>3. v[b.readerIndex_ + i] = d[i - n]
      BY ONLY <1>2, <2>1, <3>1, <3>2
    <3> QED
      BY ONLY <1>8, <2>3, <3>3, i \in 1 .. n + Len(d)
  <2> QED
    BY <2>2, <2>3
<1>11. Content(f) = s
  BY ONLY <1>4, <1>7, <1>8, <1>10, ContentIs
<1> QED
  BY <1>4, <1>11 DEF f, s

\* append adds exactly its argument.
LEMMA AppendProps ==
    ASSUME NEW b, Valid(b), NEW d \in Seq(Bytes)
    PROVE  Valid(AppendTo(b, d)) /\ Content(AppendTo(b, d)) = Content(b) \o d
<1> DEFINE e == EnsureWritableBytes(b, Len(d))
<1>1. Len(d) \in Nat
  BY LenProperties
<1>2. Valid(e) /\ WritableBytes(e) >= Len(d) /\ Content(e) = Content(b)
  BY <1>1, EnsureProps
<1> HIDE DEF e
<1>3. Len(d) <= WritableBytes(e)
  BY <1>1, <1>2, ValidFields DEF WritableBytes
<1>4. AppendTo(b, d) = Fill(e, d)
  BY DEF AppendTo, e
<1> QED
  BY ONLY <1>2, <1>3, <1>4, FillProps, d \in Seq(Bytes)

\* retrieve takes from the front; all that is there resets the indices.
LEMMA RetrieveAllProps ==
    ASSUME NEW b, Valid(b)
    PROVE  Valid(RetrieveAllFrom(b)) /\ Content(RetrieveAllFrom(b)) = <<>>
<1> DEFINE f == RetrieveAllFrom(b)
<1>1. /\ b.buffer_ \in Seq(Bytes) /\ kCheapPrepend \in Nat
      /\ kCheapPrepend <= Len(b.buffer_) /\ kCheapPrepend <= kCheapPrepend
  BY ValidFields
<1>2. f = Buf(b.buffer_, kCheapPrepend, kCheapPrepend)
  BY DEF RetrieveAllFrom
<1> HIDE DEF f
<1>3. Valid(f) /\ ReadableBytes(f) = kCheapPrepend - kCheapPrepend
  BY ONLY <1>1, <1>2, MakeValid
<1>4. ReadableBytes(f) = 0
  BY <1>1, <1>3
<1>5. Content(f) = <<>>
  BY ONLY <1>3, <1>4, ContentProps, EmptySeq
<1> QED
  BY <1>3, <1>5 DEF f

\* retrieve takes bytes off the front of what is readable.
LEMMA RetrieveProps ==
    ASSUME NEW b, Valid(b), NEW len \in 0 .. ReadableBytes(b)
    PROVE  /\ Valid(RetrieveFrom(b, len))
           /\ Content(RetrieveFrom(b, len)) = SubSeq(Content(b), len + 1, Len(Content(b)))
<1> DEFINE f == RetrieveFrom(b, len)
           r == b.readerIndex_ + len
           n == ReadableBytes(b)
           s == SubSeq(Content(b), len + 1, n)
<1>0. /\ b.buffer_ \in Seq(Bytes) /\ Len(b.buffer_) \in Nat
      /\ b.readerIndex_ \in Nat /\ b.writerIndex_ \in Nat
      /\ b.readerIndex_ <= b.writerIndex_ /\ b.writerIndex_ <= Len(b.buffer_)
      /\ kCheapPrepend <= Len(b.buffer_)
  BY ValidFields
<1>1. /\ Content(b) \in Seq(Bytes) /\ Len(Content(b)) = n /\ n \in Nat
      /\ \A i \in 1 .. n : Content(b)[i] = b.buffer_[b.readerIndex_ + i]
  BY ContentProps
<1>2. n = b.writerIndex_ - b.readerIndex_
  BY DEF ReadableBytes
<1>3. len \in Nat /\ len <= n
  BY <1>1
<1>4. CASE len < n
  <2>1. f = Buf(b.buffer_, r, b.writerIndex_)
    BY <1>4 DEF RetrieveFrom
  <2> HIDE DEF n
  <2>2. r \in Nat /\ r <= b.writerIndex_ /\ b.writerIndex_ - r = n - len
    BY <1>0, <1>2, <1>3, <1>4
  <2>3. /\ s \in Seq(Bytes) /\ Len(s) = n - len
        /\ \A i \in 1 .. n - len : s[i] = Content(b)[len + i]
    <3>1. n <= Len(Content(b))
      BY <1>1
    <3> QED
      BY ONLY <1>1, <1>3, <3>1, PieceProps
  <2> HIDE DEF s, f
  <2>4. ASSUME NEW i \in 1 .. n - len
        PROVE  s[i] = b.buffer_[r + i]
    <3>1. len + i \in 1 .. n /\ b.readerIndex_ + (len + i) = r + i
      BY <1>0, <1>1, <1>3
    <3> QED
      BY ONLY <1>1, <2>3, <3>1, i \in 1 .. n - len
  <2> HIDE DEF r
  <2>5. /\ Valid(f) /\ f.buffer_ = b.buffer_ /\ f.readerIndex_ = r
        /\ ReadableBytes(f) = b.writerIndex_ - r
    BY ONLY <1>0, <2>1, <2>2, MakeValid
  <2>6. Content(f) = s
    BY ONLY <2>2, <2>3, <2>4, <2>5, ContentIs
  <2> QED
    BY ONLY <1>1, <2>5, <2>6 DEF f, s
<1>5. CASE ~(len < n)
  <2>1. f = RetrieveAllFrom(b)
    BY <1>5 DEF RetrieveFrom
  <2> HIDE DEF n
  <2>2. len + 1 \in Int /\ n \in Int /\ n < len + 1
    BY <1>1, <1>3, <1>5
  <2>3. s = <<>>
    BY ONLY <2>2, SubSeqEmpty
  <2>4. Valid(f) /\ Content(f) = <<>>
    BY <2>1, RetrieveAllProps
  <2> HIDE DEF f
  <2> QED
    BY ONLY <1>1, <2>3, <2>4 DEF f
<1> QED
  BY <1>4, <1>5

\* unwrite takes from the end.
LEMMA UnwriteProps ==
    ASSUME NEW b, Valid(b), NEW len \in 0 .. ReadableBytes(b)
    PROVE  /\ Valid(UnwriteFrom(b, len))
           /\ Content(UnwriteFrom(b, len)) = SubSeq(Content(b), 1, Len(Content(b)) - len)
<1> DEFINE f == UnwriteFrom(b, len)
           w == b.writerIndex_ - len
           n == ReadableBytes(b)
           s == SubSeq(Content(b), 0 + 1, n - len)
<1>0. /\ b.buffer_ \in Seq(Bytes) /\ Len(b.buffer_) \in Nat
      /\ b.readerIndex_ \in Nat /\ b.writerIndex_ \in Nat
      /\ b.readerIndex_ <= b.writerIndex_ /\ b.writerIndex_ <= Len(b.buffer_)
      /\ kCheapPrepend <= Len(b.buffer_)
  BY ValidFields
<1>1. /\ Content(b) \in Seq(Bytes) /\ Len(Content(b)) = n /\ n \in Nat
      /\ \A i \in 1 .. n : Content(b)[i] = b.buffer_[b.readerIndex_ + i]
  BY ContentProps
<1>2. n = b.writerIndex_ - b.readerIndex_
  BY DEF ReadableBytes
<1>3. len \in Nat /\ len <= n
  BY <1>1
<1>4. f = Buf(b.buffer_, b.readerIndex_, w)
  BY DEF UnwriteFrom
<1> HIDE DEF n
<1>5. /\ w \in Nat /\ b.readerIndex_ <= w /\ w <= Len(b.buffer_)
      /\ w - b.readerIndex_ = n - len
      /\ n - len \in Nat /\ 0 <= n - len /\ n - len <= n /\ (n - len) - 0 = n - len
  BY <1>0, <1>1, <1>2, <1>3
<1>6. /\ s \in Seq(Bytes) /\ Len(s) = n - len
      /\ \A i \in 1 .. n - len : s[i] = Content(b)[0 + i]
  <2>1. n - len <= Len(Content(b)) /\ 0 \in Nat
    BY <1>1, <1>5
  <2>2. /\ s \in Seq(Bytes) /\ Len(s) = (n - len) - 0
        /\ \A i \in 1 .. (n - len) - 0 : s[i] = Content(b)[0 + i]
    BY ONLY <1>1, <1>5, <2>1, PieceProps
  <2> QED
    BY ONLY <1>5, <2>2
<1> HIDE DEF f, w
<1>7. ASSUME NEW i \in 1 .. n - len
      PROVE  s[i] = b.buffer_[b.readerIndex_ + i]
  <2>1. i \in 1 .. n /\ 0 + i = i
    BY <1>1, <1>3
  <2> QED
    BY ONLY <1>1, <1>6, <2>1, i \in 1 .. n - len
<1>8. /\ Valid(f) /\ f.buffer_ = b.buffer_ /\ f.readerIndex_ = b.readerIndex_
      /\ ReadableBytes(f) = w - b.readerIndex_
  BY ONLY <1>0, <1>4, <1>5, MakeValid
<1> HIDE DEF s
<1>9. Content(f) = s
  BY ONLY <1>5, <1>6, <1>7, <1>8, ContentIs
<1>10. 0 + 1 = 1
  OBVIOUS
<1> QED
  BY ONLY <1>1, <1>8, <1>9, <1>10 DEF f, s

\* prepend puts its argument in front.
LEMMA PrependProps ==
    ASSUME NEW b, Valid(b), NEW d \in Seq(Bytes), Len(d) <= b.readerIndex_
    PROVE  Valid(PrependTo(b, d)) /\ Content(PrependTo(b, d)) = d \o Content(b)
<1> DEFINE f == PrependTo(b, d)
           r == b.readerIndex_ - Len(d)
           v == CopyTo(b.buffer_, r, d)
           n == ReadableBytes(b)
           s == d \o Content(b)
<1>0. /\ b.buffer_ \in Seq(Bytes) /\ Len(b.buffer_) \in Nat
      /\ b.readerIndex_ \in Nat /\ b.writerIndex_ \in Nat
      /\ b.readerIndex_ <= b.writerIndex_ /\ b.writerIndex_ <= Len(b.buffer_)
      /\ kCheapPrepend <= Len(b.buffer_)
      /\ Len(d) \in Nat
  BY ValidFields, LenProperties
<1>1. f = Buf(v, r, b.writerIndex_)
  BY DEF PrependTo
<1>2. r \in Nat /\ r <= b.writerIndex_ /\ r + Len(d) = b.readerIndex_
  BY <1>0
<1>3. n = b.writerIndex_ - b.readerIndex_ /\ b.writerIndex_ - r = Len(d) + n
  BY <1>0 DEF ReadableBytes
<1> HIDE DEF n, r
<1>4. /\ v \in Seq(Bytes) /\ Len(v) = Len(b.buffer_)
      /\ \A i \in 1 .. Len(b.buffer_) :
            v[i] = IF r < i /\ i <= r + Len(d) THEN d[i - r] ELSE b.buffer_[i]
  BY ONLY <1>0, <1>2, CopyToProps, d \in Seq(Bytes)
<1>5. /\ Content(b) \in Seq(Bytes) /\ Len(Content(b)) = n /\ n \in Nat
      /\ \A i \in 1 .. n : Content(b)[i] = b.buffer_[b.readerIndex_ + i]
  BY ContentProps DEF n
<1>6. /\ s \in Seq(Bytes) /\ Len(s) = Len(d) + n
      /\ \A i \in 1 .. Len(d) + n :
            s[i] = IF i <= Len(d) THEN d[i] ELSE Content(b)[i - Len(d)]
  BY <1>5, ConcatProperties
<1> HIDE DEF v, f, s
<1>7. /\ Valid(f) /\ f.buffer_ = v /\ f.readerIndex_ = r
      /\ ReadableBytes(f) = b.writerIndex_ - r
  <2>1. /\ v \in Seq(Bytes) /\ b.writerIndex_ \in Nat
        /\ b.writerIndex_ <= Len(v) /\ kCheapPrepend <= Len(v)
    BY ONLY <1>0, <1>4
  <2> QED
    BY ONLY <1>1, <1>2, <2>1, MakeValid
<1>8. ASSUME NEW i \in 1 .. Len(d) + n
      PROVE  s[i] = v[r + i]
  <2>1. n \in Nat
    BY ONLY <1>5
  <2>2. r + i \in 1 .. Len(b.buffer_)
    BY ONLY <1>0, <1>2, <1>3, <2>1, i \in 1 .. Len(d) + n
  <2>3. CASE i <= Len(d)
    <3>1. r < r + i /\ r + i <= r + Len(d) /\ (r + i) - r = i
      BY ONLY <1>0, <1>2, <2>1, <2>3, i \in 1 .. Len(d) + n
    <3>2. v[r + i] = d[i]
      BY ONLY <1>4, <2>2, <3>1
    <3> QED
      BY ONLY <1>6, <2>3, <3>2, i \in 1 .. Len(d) + n
  <2>4. CASE ~(i <= Len(d))
    <3>1. /\ ~(r + i <= r + Len(d)) /\ i - Len(d) \in 1 .. n
          /\ r + i = b.readerIndex_ + (i - Len(d))
      BY ONLY <1>0, <1>2, <2>1, <2>4, i \in 1 .. Len(d) + n
    <3>2. v[r + i] = b.buffer_[r + i]
      BY ONLY <1>4, <2>2, <3>1
    <3>3. Content(b)[i - Len(d)] = b.buffer_[b.readerIndex_ + (i - Len(d))]
      BY ONLY <1>5, <3>1
    <3> QED
      BY ONLY <1>6, <2>4, <3>1, <3>2, <3>3, i \in 1 .. Len(d) + n
  <2> QED
    BY <2>3, <2>4
<1>9. Content(f) = s
  BY ONLY <1>3, <1>6, <1>7, <1>8, ContentIs
<1> QED
  BY <1>7, <1>9 DEF f, s

\* shrink moves the content to a new buffer.
LEMMA ShrinkProps ==
    ASSUME NEW b, Valid(b), NEW reserve \in Nat
    PROVE  Valid(ShrunkTo(b, reserve)) /\ Content(ShrunkTo(b, reserve)) = Content(b)
<1> DEFINE e == EnsureWritableBytes(NewBuffer, ReadableBytes(b) + reserve)
<1>1. Content(b) \in Seq(Bytes) /\ ReadableBytes(b) \in Nat
  BY ContentProps
<1>2. ReadableBytes(b) + reserve \in Nat
  BY <1>1
<1>3. Valid(e) /\ Content(e) = <<>>
  BY ONLY <1>2, NewBufferProps, EnsureProps
<1> HIDE DEF e
<1>4. Valid(AppendTo(e, Content(b))) /\ Content(AppendTo(e, Content(b))) = <<>> \o Content(b)
  BY ONLY <1>1, <1>3, AppendProps
<1>5. <<>> \o Content(b) = Content(b)
  BY ONLY <1>1, ConcatEmptySeq
<1> QED
  BY ONLY <1>4, <1>5 DEF ShrunkTo, e

\* A sequence is its first n bytes and the others.
LEMMA CutInTwo ==
    ASSUME NEW d \in Seq(Bytes), NEW n \in Nat, n <= Len(d)
    PROVE  /\ SubSeq(d, 1, n) \in Seq(Bytes) /\ Len(SubSeq(d, 1, n)) = n
           /\ SubSeq(d, n + 1, Len(d)) \in Seq(Bytes)
           /\ SubSeq(d, 1, n) \o SubSeq(d, n + 1, Len(d)) = d
<1> DEFINE p == SubSeq(d, 0 + 1, n)
           q == SubSeq(d, n + 1, Len(d))
<1>1. Len(d) \in Nat /\ 0 \in Nat /\ 0 <= n /\ Len(d) <= Len(d) /\ n - 0 = n /\ 0 + 1 = 1
  BY LenProperties
<1>2. /\ p \in Seq(Bytes) /\ Len(p) = n - 0
      /\ \A i \in 1 .. n - 0 : p[i] = d[0 + i]
  BY ONLY <1>1, PieceProps, d \in Seq(Bytes), n \in Nat, n <= Len(d)
<1>3. /\ q \in Seq(Bytes) /\ Len(q) = Len(d) - n
      /\ \A i \in 1 .. Len(d) - n : q[i] = d[n + i]
  BY ONLY <1>1, PieceProps, d \in Seq(Bytes), n \in Nat, n <= Len(d)
<1> HIDE DEF p, q
<1>4. Len(p) = n
  BY <1>1, <1>2
<1>5. /\ p \o q \in Seq(Bytes) /\ Len(p \o q) = Len(p) + Len(q)
      /\ \A i \in 1 .. Len(p) + Len(q) : (p \o q)[i] = IF i <= Len(p) THEN p[i] ELSE q[i - Len(p)]
  BY ONLY <1>2, <1>3, ConcatProperties
<1>6. Len(p) + Len(q) = Len(d)
  BY ONLY <1>1, <1>3, <1>4, n \in Nat
<1>7. ASSUME NEW i \in 1 .. Len(d)
      PROVE  (p \o q)[i] = d[i]
  <2>1. CASE i <= n
    <3>1. i \in 1 .. n - 0 /\ 0 + i = i
      BY ONLY <1>1, <2>1, i \in 1 .. Len(d), n \in Nat
    <3> QED
      BY ONLY <1>2, <1>4, <1>5, <1>6, <2>1, <3>1, i \in 1 .. Len(d)
  <2>2. CASE ~(i <= n)
    <3>1. i - n \in 1 .. Len(d) - n /\ n + (i - n) = i
      BY ONLY <1>1, <2>2, i \in 1 .. Len(d), n \in Nat
    <3> QED
      BY ONLY <1>3, <1>4, <1>5, <1>6, <2>2, <3>1, i \in 1 .. Len(d)
  <2> QED
    BY <2>1, <2>2
<1>8. p \o q = d
  BY ONLY <1>5, <1>6, <1>7, SeqEqual, d \in Seq(Bytes)
<1>9. p = SubSeq(d, 1, n)
  BY ONLY <1>1 DEF p
<1> QED
  BY ONLY <1>2, <1>3, <1>4, <1>8, <1>9 DEF q

\* Concatenation is associative, for any set of elements.
LEMMA Assoc ==
    ASSUME NEW S, NEW s \in Seq(S), NEW t \in Seq(S), NEW u \in Seq(S)
    PROVE  (s \o t) \o u = s \o (t \o u)
BY ConcatAssociative, SMT

\* readFd adds what the kernel delivered, also over the detour of extrabuf.
LEMMA ReadIntoProps ==
    ASSUME NEW b, Valid(b), NEW d \in Seq(Bytes)
    PROVE  Valid(ReadInto(b, d)) /\ Content(ReadInto(b, d)) = Content(b) \o d
<1> DEFINE n == WritableBytes(b)
           p == SubSeq(d, 1, n)
           q == SubSeq(d, n + 1, Len(d))
           e == Fill(b, p)
<1>1. n \in Nat /\ Len(d) \in Nat
  BY ValidFields, LenProperties DEF WritableBytes
<1>2. CASE Len(d) <= n
  <2>1. ReadInto(b, d) = Fill(b, d)
    BY <1>2 DEF ReadInto
  <2> QED
    BY ONLY <1>2, <2>1, FillProps, Valid(b), d \in Seq(Bytes)
<1>3. CASE ~(Len(d) <= n)
  <2>1. ReadInto(b, d) = AppendTo(e, q)
    BY <1>3 DEF ReadInto
  <2>2. n <= Len(d)
    BY ONLY <1>1, <1>3
  <2>3. p \in Seq(Bytes) /\ Len(p) = n /\ q \in Seq(Bytes) /\ p \o q = d
    BY ONLY <1>1, <2>2, CutInTwo, d \in Seq(Bytes)
  <2> HIDE DEF p, q
  <2>4. Len(p) <= n
    BY ONLY <1>1, <2>3
  <2>5. Valid(e) /\ Content(e) = Content(b) \o p
    BY <2>3, <2>4, FillProps
  <2> HIDE DEF e
  <2>6. Valid(AppendTo(e, q)) /\ Content(AppendTo(e, q)) = (Content(b) \o p) \o q
    BY ONLY <2>3, <2>5, AppendProps
  <2>7. Content(b) \in Seq(Bytes)
    BY ContentProps
  <2>8. (Content(b) \o p) \o q = Content(b) \o d
    <3>1. (Content(b) \o p) \o q = Content(b) \o (p \o q)
      <4> DEFINE c == Content(b)
      <4>1. c \in Seq(Bytes) /\ p \in Seq(Bytes) /\ q \in Seq(Bytes)
        BY ONLY <2>3, <2>7
      <4> HIDE DEF c
      <4>2. (c \o p) \o q = c \o (p \o q)
        BY ONLY <4>1, Assoc
      <4> QED
        BY ONLY <4>2 DEF c
    <3> QED
      BY ONLY <2>3, <3>1
  <2> QED
    BY ONLY <2>1, <2>6, <2>8
<1> QED
  BY <1>2, <1>3

-----------------------------------------------------------------------------
(* The steps. *)

\* What the callers append are bytes.
LEMMA DataAreBytes == ASSUME NEW d \in Data PROVE d \in Seq(Bytes)
<1>1. PICK n \in 0 .. MaxData : d \in [1 .. n -> Bytes]
  BY DEF Data
<1>2. n \in Nat
  BY BufferConstants
<1> QED
  BY <1>1, <1>2, SeqDef

\* One step keeps the layout and is a step of the queue.
LEMMA StepIsQueueStep == TypeOK /\ Next => TypeOK' /\ Queue!Next
<1> SUFFICES ASSUME Valid(buf), Next
             PROVE  Valid(buf') /\ Queue!Next
  BY DEF TypeOK
<1>0. Len(Content(buf)) = ReadableBytes(buf) /\ ReadableBytes(buf) \in Nat
  BY ContentProps
<1>1. CASE Append_
  <2>1. PICK d \in Data : buf' = AppendTo(buf, d) /\ call' = <<"addBack", d>>
    BY <1>1 DEF Append_
  <2>2. d \in Seq(Bytes)
    BY DataAreBytes
  <2>3. Valid(buf') /\ Content(buf') = Content(buf) \o d
    BY ONLY <2>1, <2>2, AppendProps, Valid(buf)
  <2> QED
    BY ONLY <2>1, <2>3 DEF Queue!Next, Queue!AddBack
<1>2. CASE ReadFd
  <2>1. PICK d \in Data : buf' = ReadInto(buf, d) /\ call' = <<"addBack", d>>
    BY <1>2 DEF ReadFd
  <2>2. d \in Seq(Bytes)
    BY DataAreBytes
  <2>3. Valid(buf') /\ Content(buf') = Content(buf) \o d
    BY ONLY <2>1, <2>2, ReadIntoProps, Valid(buf)
  <2> QED
    BY ONLY <2>1, <2>3 DEF Queue!Next, Queue!AddBack
<1>3. CASE Prepend
  <2>1. PICK d \in Data : /\ Len(d) <= PrependableBytes(buf)
                          /\ buf' = PrependTo(buf, d)
                          /\ call' = <<"addFront", d>>
    BY <1>3 DEF Prepend
  <2>2. d \in Seq(Bytes) /\ Len(d) <= buf.readerIndex_
    BY <2>1, DataAreBytes DEF PrependableBytes
  <2>3. Valid(buf') /\ Content(buf') = d \o Content(buf)
    BY ONLY <2>1, <2>2, PrependProps, Valid(buf)
  <2> QED
    BY ONLY <2>1, <2>3 DEF Queue!Next, Queue!AddFront
<1>4. CASE Retrieve
  <2>1. PICK n \in 0 .. ReadableBytes(buf) :
           buf' = RetrieveFrom(buf, n) /\ call' = <<"takeFront", n>>
    BY <1>4 DEF Retrieve
  <2>2. Valid(buf') /\ Content(buf') = SubSeq(Content(buf), n + 1, Len(Content(buf)))
    BY ONLY <2>1, RetrieveProps, Valid(buf)
  <2>3. n \in 0 .. Len(Content(buf))
    BY ONLY <1>0, <2>1
  <2> QED
    BY ONLY <2>1, <2>2, <2>3 DEF Queue!Next, Queue!TakeFront
<1>5. CASE RetrieveAll
  <2> DEFINE n == ReadableBytes(buf)
  <2>1. buf' = RetrieveAllFrom(buf) /\ call' = <<"takeFront", n>>
    BY <1>5 DEF RetrieveAll
  <2>2. Valid(buf') /\ Content(buf') = <<>>
    BY ONLY <2>1, RetrieveAllProps, Valid(buf)
  <2> HIDE DEF n
  <2>3. n \in 0 .. Len(Content(buf)) /\ n = Len(Content(buf))
    BY ONLY <1>0 DEF n
  <2>4. n + 1 \in Int /\ n \in Int /\ n < n + 1
    BY ONLY <1>0 DEF n
  <2>5. SubSeq(Content(buf), n + 1, Len(Content(buf))) = <<>>
    BY ONLY <2>3, <2>4, SubSeqEmpty
  <2> QED
    BY ONLY <2>1, <2>2, <2>3, <2>5 DEF Queue!Next, Queue!TakeFront
<1>6. CASE Unwrite
  <2>1. PICK n \in 0 .. ReadableBytes(buf) :
           buf' = UnwriteFrom(buf, n) /\ call' = <<"takeBack", n>>
    BY <1>6 DEF Unwrite
  <2>2. Valid(buf') /\ Content(buf') = SubSeq(Content(buf), 1, Len(Content(buf)) - n)
    BY ONLY <2>1, UnwriteProps, Valid(buf)
  <2>3. n \in 0 .. Len(Content(buf))
    BY ONLY <1>0, <2>1
  <2> QED
    BY ONLY <2>1, <2>2, <2>3 DEF Queue!Next, Queue!TakeBack
<1>7. CASE Shrink
  <2>1. PICK reserve \in 0 .. MaxData : buf' = ShrunkTo(buf, reserve) /\ call' = <<"tidy", 0>>
    BY <1>7 DEF Shrink
  <2>2. reserve \in Nat
    BY BufferConstants
  <2>3. Valid(buf') /\ Content(buf') = Content(buf)
    BY ONLY <2>1, <2>2, ShrinkProps, Valid(buf)
  <2> QED
    BY ONLY <2>1, <2>3 DEF Queue!Next, Queue!Tidy
<1> QED
  BY <1>1, <1>2, <1>3, <1>4, <1>5, <1>6, <1>7 DEF Next

-----------------------------------------------------------------------------
\* Whatever calls a connection makes on its buffers, with any sizes, the indices
\* keep the layout that Buffer.h draws and its asserts rely on.
THEOREM BufferTypeCorrect == Spec => []TypeOK
<1>1. Init => TypeOK
  BY NewBufferProps DEF Init, TypeOK
<1>2. TypeOK /\ [Next]_vars => TypeOK'
  <2>1. TypeOK /\ UNCHANGED vars => TypeOK'
    BY DEF TypeOK, vars
  <2> QED
    BY <2>1, StepIsQueueStep
<1> QED
  BY <1>1, <1>2, PTL DEF Spec

\* The buffer is a byte queue: makeSpace's moves and resizes, shrink and the
\* overflow area of readFd never lose, double or reorder a byte.
THEOREM BufferImplementsQueue == Spec => ImplementsQueue
<1>1. Init => Queue!Init
  BY NewBufferProps DEF Init, Queue!Init
<1>2. TypeOK /\ [Next]_vars => [Queue!Next]_<<Content(buf), call>>
  <2>1. UNCHANGED vars => UNCHANGED <<Content(buf), call>>
    BY DEF vars
  <2> QED
    BY <2>1, StepIsQueueStep
<1> QED
  BY <1>1, <1>2, BufferTypeCorrect, PTL DEF Spec, ImplementsQueue, Queue!Spec

-----------------------------------------------------------------------------
(* The Pollers *)

EventSets == SUBSET {"in", "out"}
ChannelRecs == [fd : Int, events : EventSets, place : Int, index : {kNew, kAdded, kDeleted}]
PollFds == [fd : Int, events : EventSets]
Registrations == [channel : Channels, events : EventSets]

PollType ==
    /\ chan \in [Channels -> ChannelRecs]
    /\ channels_ \in [DOMAIN channels_ -> Channels]
    /\ pollfds_ \in Seq(PollFds)
    /\ registered \in [DOMAIN registered -> Registrations]
    /\ IsFiniteSet(DOMAIN channels_)
    /\ DOMAIN channels_ \subseteq ChannelFds
    /\ ctlFailed = FALSE

\* A live Channel has a descriptor of its own, and a Channel that was not added
\* is as its constructor left it.
FdsOwned ==
    \A c \in Channels : Live(c) =>
        /\ chan[c].fd \in ChannelFds
        /\ \A d \in Channels : chan[d].fd = chan[c].fd => d = c
        /\ ~Added(c) => /\ chan[c] = [NoChannel EXCEPT !.fd = chan[c].fd]
                        /\ chan[c].fd \notin DOMAIN channels_

\* channels_ finds the Channel of a descriptor, and again has only such ones.
FdsFound ==
    /\ \A f \in DOMAIN channels_ : chan[channels_[f]].fd = f
    /\ \A c \in again : c \in Channels /\ Added(c)

\* The entry of a Channel is at its place, with the Channel's events, and is
\* ignored if there are none or were none; every entry is some Channel's.
Chan(f) == chan[channels_[f]]
EntryOf(f) == pollfds_[Chan(f).place + 1]
EntryKnown(f) ==
    /\ Chan(f).place + 1 \in 1 .. Len(pollfds_)
    /\ FdOf(EntryOf(f).fd) = f
    /\ EntryOf(f).events = Chan(f).events
    /\ EntryOf(f).fd < 0 <=> (Chan(f).events = {} \/ channels_[f] \in again)
EntryFound(i) ==
    /\ FdOf(pollfds_[i].fd) \in DOMAIN channels_
    /\ Chan(FdOf(pollfds_[i].fd)).place = i - 1
EntriesKnown ==
    /\ Len(pollfds_) = Cardinality(DOMAIN channels_)
    /\ \A f \in DOMAIN channels_ : EntryKnown(f)
    /\ \A i \in 1 .. Len(pollfds_) : EntryFound(i)

\* index_ says whether the kernel has the descriptor, and the kernel has it with
\* the Channel's events.
IndexKnown(f) ==
    /\ Chan(f).index \in {kAdded, kDeleted}
    /\ Chan(f).events # {} => Chan(f).index = kAdded
    /\ Chan(f).events = {} /\ channels_[f] \notin again => Chan(f).index = kDeleted
KernelKnown ==
    /\ \A f \in DOMAIN channels_ : IndexKnown(f)
    /\ \A f : f \in DOMAIN registered <=> f \in DOMAIN channels_ /\ Chan(f).index = kAdded
    /\ \A f \in DOMAIN registered :
         registered[f] = [channel |-> channels_[f], events |-> Chan(f).events]

PollInv == PollType /\ FdsOwned /\ FdsFound /\ EntriesKnown /\ KernelKnown

\* The sign of an entry's fd says that it is ignored, and its fd can be told.
LEMMA FdOfSigned ==
    /\ \A f \in Nat : f \in Int /\ FdOf(f) = f /\ Ignored(f) \in Int /\ Ignored(f) < 0 /\ FdOf(Ignored(f)) = f
    /\ \A g \in Int : FdOf(g) \in Nat /\ (g >= 0 => FdOf(g) = g)
BY DEF FdOf, Ignored

\* An added Channel is the one channels_ has for its descriptor.
LEMMA AddedFound ==
    ASSUME PollInv, NEW c \in Channels
    PROVE  /\ chan[c] \in ChannelRecs
           /\ Added(c) <=> chan[c].fd \in DOMAIN channels_
           /\ Added(c) <=> \E f \in DOMAIN channels_ : channels_[f] = c
           /\ chan[c].fd \in DOMAIN channels_ => channels_[chan[c].fd] = c
           /\ ~Live(c) => chan[c].fd = -1 /\ c \notin again
           /\ Live(c) => chan[c].fd \in ChannelFds /\ chan[c].fd \in Nat
           /\ \A d \in Channels : d # c /\ Live(c) => chan[d].fd # chan[c].fd
<1> USE DEF PollInv
<1>1. chan[c] \in ChannelRecs
  BY DEF PollType
<1>2. ~Live(c) => chan[c].fd = -1
  BY DEF Live, NoChannel
<1>3. -1 \notin DOMAIN channels_
  BY PollerConstants DEF PollType
<1>4. Live(c) => chan[c].fd \in ChannelFds /\ chan[c].fd \in Nat
  BY PollerConstants DEF FdsOwned
<1>5. \A d \in Channels : d # c /\ Live(c) => chan[d].fd # chan[c].fd
  BY DEF FdsOwned
<1>6. \A f \in DOMAIN channels_ : channels_[f] \in Channels /\ chan[channels_[f]].fd = f /\ Live(channels_[f])
  <2> SUFFICES ASSUME NEW f \in DOMAIN channels_
               PROVE  channels_[f] \in Channels /\ chan[channels_[f]].fd = f /\ Live(channels_[f])
    OBVIOUS
  <2>1. channels_[f] \in Channels /\ chan[channels_[f]].fd = f
    BY DEF PollType, FdsFound
  <2>2. f # -1
    BY <1>3
  <2>3. Live(channels_[f])
    BY <2>1, <2>2 DEF Live, NoChannel
  <2> QED BY <2>1, <2>3
<1>7. chan[c].fd \in DOMAIN channels_ => channels_[chan[c].fd] = c
  <2> SUFFICES ASSUME chan[c].fd \in DOMAIN channels_ PROVE channels_[chan[c].fd] = c
    OBVIOUS
  <2>1. Live(c)
    BY <1>2, <1>3
  <2> QED BY <1>6, <1>5, <2>1
<1>8. chan[c].fd \in DOMAIN channels_ => Live(c)
  BY <1>2, <1>3
<1>9. Added(c) <=> chan[c].fd \in DOMAIN channels_
  BY <1>7, <1>8 DEF Added
<1>10. Added(c) <=> \E f \in DOMAIN channels_ : channels_[f] = c
  BY <1>6, <1>7, <1>9
<1>11. ~Live(c) => c \notin again
  BY DEF FdsFound, Added
<1> QED BY <1>1, <1>2, <1>4, <1>5, <1>7, <1>9, <1>10, <1>11

\* A Poller without Channels.
LEMMA PollInvInit == PollInit => PollInv
<1> SUFFICES ASSUME PollInit PROVE PollInv
  OBVIOUS
<1>1. DOMAIN channels_ = {} /\ DOMAIN registered = {} /\ Len(pollfds_) = 0 /\ again = {}
  BY DEF PollInit
<1>2. NoChannel \in ChannelRecs
  BY DEF NoChannel, ChannelRecs, EventSets, kNew
<1>3. PollType
  <2>1. chan \in [Channels -> ChannelRecs]
    BY <1>2 DEF PollInit
  <2>2. channels_ \in [DOMAIN channels_ -> Channels] /\ registered \in [DOMAIN registered -> Registrations]
    BY <1>1 DEF PollInit
  <2>3. pollfds_ \in Seq(PollFds)
    BY DEF PollInit
  <2>4. IsFiniteSet(DOMAIN channels_)
    BY <1>1, FS_EmptySet
  <2> QED BY <1>1, <2>1, <2>2, <2>3, <2>4 DEF PollType, PollInit
<1>4. \A c \in Channels : ~Live(c)
  BY DEF PollInit, Live
<1>5. FdsOwned
  BY <1>4 DEF FdsOwned
<1>6. FdsFound
  BY <1>1 DEF FdsFound
<1>7. EntriesKnown
  BY <1>1, FS_EmptySet DEF EntriesKnown
<1>8. KernelKnown
  BY <1>1 DEF KernelKnown
<1> QED BY <1>3, <1>5, <1>6, <1>7, <1>8 DEF PollInv

\* A Channel is constructed: the Pollers do not know it yet.
LEMMA NewPollChannelInv ==
    ASSUME PollInv, NEW c \in Channels, NewPollChannel(c)
    PROVE  PollInv'
<1> USE DEF NewPollChannel
<1>1. PICK fd \in ChannelFds :
         /\ \A d \in Channels : Live(d) => chan[d].fd # fd
         /\ chan' = [chan EXCEPT ![c] = [NoChannel EXCEPT !.fd = fd]]
  OBVIOUS
<1>2. ~Live(c) /\ chan[c] = NoChannel
  BY DEF Live
<1> DEFINE r == [NoChannel EXCEPT !.fd = fd]
<1>3. /\ r \in ChannelRecs /\ r.fd = fd /\ r = [NoChannel EXCEPT !.fd = r.fd]
      /\ fd \in Nat /\ r # NoChannel
  <2>1. fd \in Nat
    BY PollerConstants
  <2> QED BY <2>1 DEF NoChannel, ChannelRecs, EventSets, kNew
<1> HIDE DEF r
<1>4. /\ chan' \in [Channels -> ChannelRecs]
      /\ chan'[c] = r
      /\ \A d \in Channels : d # c => chan'[d] = chan[d]
  BY <1>1, <1>3 DEF PollInv, PollType, r
<1>5. UNCHANGED <<channels_, pollfds_, registered, ctlFailed, again>>
  OBVIOUS
<1>6. fd \notin DOMAIN channels_
  <2> SUFFICES ASSUME fd \in DOMAIN channels_ PROVE FALSE
    OBVIOUS
  <2>1. channels_[fd] \in Channels /\ chan[channels_[fd]].fd = fd
    BY DEF PollInv, PollType, FdsFound
  <2>2. ~Live(channels_[fd])
    BY <1>1, <2>1
  <2> QED BY <2>1, <2>2, <1>3, AddedFound
<1>7. \A f \in DOMAIN channels_ : channels_[f] \in Channels /\ channels_[f] # c
  BY <1>2, AddedFound DEF PollInv, PollType, Added
<1>8. c \notin again
  BY <1>2, AddedFound
<1>9. PollType'
  BY <1>4, <1>5 DEF PollInv, PollType
<1>10. FdsOwned'
  <2> SUFFICES ASSUME NEW d \in Channels, Live(d)'
               PROVE  /\ chan'[d].fd \in ChannelFds
                      /\ \A e \in Channels : chan'[e].fd = chan'[d].fd => e = d
                      /\ ~Added(d)' => /\ chan'[d] = [NoChannel EXCEPT !.fd = chan'[d].fd]
                                       /\ chan'[d].fd \notin DOMAIN channels_'
    BY DEF FdsOwned
  <2>1. CASE d = c
    <3>1. chan'[d].fd \in ChannelFds
      BY <2>1, <1>3, <1>4
    <3>2. \A e \in Channels : e # c => chan[e].fd # fd
      BY <1>1, <1>3, AddedFound
    <3> QED BY <2>1, <3>1, <3>2, <1>3, <1>4, <1>5, <1>6
  <2>2. CASE d # c
    <3>1. chan'[d] = chan[d] /\ Live(d)
      BY <2>2, <1>4 DEF Live
    <3>2. chan[d].fd # fd
      BY <3>1, <1>1
    <3>3. \A e \in Channels : chan'[e].fd = chan'[d].fd => e = d
      BY <3>1, <3>2, <1>3, <1>4 DEF PollInv, FdsOwned
    <3>4. Added(d)' <=> Added(d)
      BY <3>1, <1>5 DEF Added, Live
    <3> QED BY <3>1, <3>3, <3>4, <1>5 DEF PollInv, FdsOwned
  <2> QED BY <2>1, <2>2
<1>11. FdsFound'
  <2>1. \A d \in Channels : Added(d) => Added(d)'
    BY <1>2, <1>4, <1>5 DEF Added, Live
  <2> QED BY <2>1, <1>4, <1>5, <1>7 DEF PollInv, FdsFound
<1>12. \A f \in DOMAIN channels_ : chan'[channels_[f]] = chan[channels_[f]]
  BY <1>4, <1>7
<1>13. EntriesKnown'
  <2>1. \A f \in DOMAIN channels_ : EntryKnown(f)'
    BY <1>5, <1>12 DEF PollInv, EntriesKnown, EntryKnown, EntryOf, Chan
  <2>2. \A i \in 1 .. Len(pollfds_) : EntryFound(i)'
    BY <1>5, <1>12 DEF PollInv, EntriesKnown, EntryFound, Chan
  <2> QED BY <2>1, <2>2, <1>5 DEF PollInv, EntriesKnown
<1>14. KernelKnown'
  <2>1. \A f \in DOMAIN channels_ : IndexKnown(f)'
    BY <1>5, <1>12 DEF PollInv, KernelKnown, IndexKnown, Chan
  <2>2. \A f \in DOMAIN channels_ : Chan(f)' = Chan(f)
    BY <1>5, <1>12 DEF Chan
  <2> QED BY <2>1, <2>2, <1>5 DEF PollInv, KernelKnown
<1> QED BY <1>9, <1>10, <1>11, <1>13, <1>14 DEF PollInv

\* What epoll_ctl() leaves in the kernel, when it is asked for what it can do.
LEMMA CtlDone ==
    ASSUME NEW op \in {"ADD", "MOD", "DEL"}, NEW c, NEW events,
           Ctl(op, c, events), chan[c].fd \in DOMAIN registered <=> op # "ADD",
           ctlFailed = FALSE
    PROVE  /\ ctlFailed' = FALSE
           /\ DOMAIN registered' = IF op = "DEL" THEN DOMAIN registered \ {chan[c].fd}
                                   ELSE DOMAIN registered \cup {chan[c].fd}
           /\ op # "DEL" => registered'[chan[c].fd] = [channel |-> c, events |-> events]
           /\ \A f \in DOMAIN registered : f # chan[c].fd => registered'[f] = registered[f]
           /\ registered' = [f \in DOMAIN registered' |-> registered'[f]]
<1> DEFINE fd == chan[c].fd
           D == (DOMAIN registered \cup {fd}) \ (IF op = "DEL" THEN {fd} ELSE {})
<1>1. ctlFailed' = (ctlFailed \/ (fd \in DOMAIN registered) = (op = "ADD"))
  BY DEF Ctl
<1>2. registered' = [f \in D |-> IF f = fd THEN [channel |-> c, events |-> events] ELSE registered[f]]
  BY DEF Ctl
<1>3. ctlFailed' = FALSE
  BY <1>1, Zenon
<1>4. DOMAIN registered' = D
  BY <1>2
<1> QED BY <1>2, <1>3, <1>4

\* events_ of a Channel change: the first time it is added.
LEMMA UpdateChannelInv ==
    ASSUME PollInv, NEW c \in Channels, updateChannel(c)
    PROVE  PollInv'
<1>a. Live(c) /\ chan[c] \in ChannelRecs /\ chan[c].fd \in ChannelFds
  BY AddedFound DEF updateChannel
<1>b. PICK fd \in ChannelFds : fd = chan[c].fd
  BY <1>a
<1>0. Live(c) /\ chan[c] \in ChannelRecs /\ fd \in ChannelFds /\ fd \in Nat /\ fd = chan[c].fd
  BY <1>a, <1>b, PollerConstants
<1>1. PICK events \in EventSets :
         LET r == [chan[c] EXCEPT !.events = events]
             o == Operation(r)
             place == IF r.place < 0 THEN Len(pollfds_) ELSE r.place
         IN  /\ events # {} \/ Added(c)
             /\ pollfds_' = PollUpdated(r)
             /\ Ctl(o.op, c, events)
             /\ chan' = [chan EXCEPT ![c] = [r EXCEPT !.place = place, !.index = o.index]]
  BY DEF updateChannel, EventSets
<1> DEFINE r == [chan[c] EXCEPT !.events = events]
           o == Operation(r)
           place == IF r.place < 0 THEN Len(pollfds_) ELSE r.place
           r2 == [r EXCEPT !.place = place, !.index = o.index]
<1>2. /\ r.fd = fd /\ r.events = events /\ r.place = chan[c].place /\ r.index = chan[c].index
      /\ r \in ChannelRecs
  BY <1>0 DEF ChannelRecs
<1>3. /\ events # {} \/ Added(c)
      /\ pollfds_' = PollUpdated(r)
      /\ Ctl(o.op, c, events)
      /\ chan' = [chan EXCEPT ![c] = r2]
  BY <1>1
<1> HIDE DEF r
<1>4. /\ o = [op |-> o.op, index |-> o.index] /\ o.op \in {"ADD", "MOD", "DEL"}
      /\ o.index \in {kAdded, kDeleted}
      /\ o.op = "ADD" <=> chan[c].index # kAdded
      /\ o.index = kDeleted <=> (chan[c].index = kAdded /\ events = {})
      /\ o.op = "DEL" <=> (chan[c].index = kAdded /\ events = {})
  BY <1>0, <1>2 DEF Operation, kAdded, kDeleted, kNew, ChannelRecs
<1>5. pollfds_ \in Seq(PollFds) /\ Len(pollfds_) \in Nat
  BY LenProperties DEF PollInv, PollType
<1> HIDE DEF o
<1>6. /\ r2 \in ChannelRecs /\ r2.fd = fd /\ r2.events = events /\ r2.place = place
      /\ r2.index = o.index
  <2>1. place \in Int
    BY <1>2, <1>5 DEF ChannelRecs
  <2> HIDE DEF place
  <2> QED BY <2>1, <1>2, <1>4 DEF ChannelRecs
<1>7. /\ chan' \in [Channels -> ChannelRecs]
      /\ chan'[c] = r2
      /\ \A d \in Channels : d # c => chan'[d] = chan[d]
  BY <1>3, <1>6 DEF PollInv, PollType
<1> HIDE DEF r2
<1>8. /\ channels_' \in [DOMAIN channels_' -> Channels]
      /\ DOMAIN channels_' = DOMAIN channels_ \cup {fd}
      /\ channels_'[fd] = c
      /\ \A f \in DOMAIN channels_ : f # fd => channels_'[f] = channels_[f]
  BY <1>0 DEF updateChannel, PollInv, PollType
<1>9. \A f \in DOMAIN channels_ : f # fd => /\ channels_[f] \in Channels /\ channels_[f] # c
                                             /\ Chan(f)' = Chan(f)
  <2> SUFFICES ASSUME NEW f \in DOMAIN channels_, f # fd
               PROVE  channels_[f] \in Channels /\ channels_[f] # c /\ Chan(f)' = Chan(f)
    OBVIOUS
  <2>1. channels_[f] \in Channels /\ Chan(f).fd = f
    BY DEF PollInv, PollType, FdsFound, Chan
  <2>2. channels_[f] # c
    BY <2>1, <1>0 DEF Chan
  <2> QED BY <2>1, <2>2, <1>7, <1>8 DEF Chan
<1>10. Chan(fd)' = r2
  BY <1>7, <1>8 DEF Chan
<1>11. Added(c) => fd \in DOMAIN channels_ /\ channels_[fd] = c /\ Chan(fd) = chan[c]
  BY <1>0 DEF Added, Chan
<1>12. ~Added(c) => /\ chan[c].place = -1 /\ chan[c].events = {} /\ chan[c].index = kNew
                    /\ fd \notin DOMAIN channels_ /\ c \notin again
  <2>1. ~Added(c) => chan[c] = [NoChannel EXCEPT !.fd = fd] /\ fd \notin DOMAIN channels_
    BY <1>0 DEF PollInv, FdsOwned
  <2>2. ~Added(c) => c \notin again
    BY DEF PollInv, FdsFound
  <2> QED BY <2>1, <2>2, <1>0 DEF NoChannel
<1>13. fd \in DOMAIN registered <=> o.op # "ADD"
  <2>1. fd \in DOMAIN registered <=> fd \in DOMAIN channels_ /\ Chan(fd).index = kAdded
    BY DEF PollInv, KernelKnown
  <2> QED BY <2>1, <1>4, <1>11, <1>12 DEF kNew, kAdded
<1>14. /\ ctlFailed' = FALSE
       /\ DOMAIN registered' = IF o.op = "DEL" THEN DOMAIN registered \ {fd}
                               ELSE DOMAIN registered \cup {fd}
       /\ o.op # "DEL" => registered'[fd] = [channel |-> c, events |-> events]
       /\ \A f \in DOMAIN registered : f # fd => registered'[f] = registered[f]
       /\ registered' = [f \in DOMAIN registered' |-> registered'[f]]
  <2>1. ctlFailed = FALSE
    BY DEF PollInv, PollType
  <2>2. chan[c].fd \in DOMAIN registered <=> o.op # "ADD"
    BY <1>0, <1>13
  <2>3. /\ ctlFailed' = FALSE
        /\ DOMAIN registered' = IF o.op = "DEL" THEN DOMAIN registered \ {chan[c].fd}
                                ELSE DOMAIN registered \cup {chan[c].fd}
        /\ o.op # "DEL" => registered'[chan[c].fd] = [channel |-> c, events |-> events]
        /\ \A f \in DOMAIN registered : f # chan[c].fd => registered'[f] = registered[f]
        /\ registered' = [f \in DOMAIN registered' |-> registered'[f]]
    BY ONLY <2>1, <2>2, <1>3, <1>4, CtlDone
  <2> QED BY <2>3, <1>0
<1>15. again' = IF Added(c) /\ chan[c].events = {} THEN again \cup {c} ELSE again
  BY DEF updateChannel, isNoneEvent
<1>16. FdsFound'
  <2>1. \A f \in DOMAIN channels_' : chan'[channels_'[f]].fd = f
    <3> SUFFICES ASSUME NEW f \in DOMAIN channels_' PROVE Chan(f)'.fd = f
      BY DEF Chan
    <3>1. CASE f = fd
      BY <3>1, <1>10, <1>6
    <3>2. CASE f # fd
      BY <3>2, <1>8, <1>9 DEF PollInv, FdsFound, Chan
    <3> QED BY <3>1, <3>2
  <2>2. \A d \in again' : d \in Channels /\ (d = c \/ Added(d))
    BY <1>15 DEF PollInv, FdsFound
  <2>3. \A d \in Channels : d # c /\ Added(d) => Added(d)'
    <3> SUFFICES ASSUME NEW d \in Channels, d # c, Added(d) PROVE Added(d)'
      OBVIOUS
    <3>1. chan'[d] = chan[d]
      BY <1>7
    <3>2. chan[d].fd # fd
      BY <1>0, AddedFound
    <3> QED BY <3>1, <3>2, <1>8 DEF Added, Live
  <2>4. Added(c)'
    <3>1. chan'[c].fd = fd /\ chan'[c] # NoChannel
      BY <1>0, <1>6, <1>7 DEF NoChannel
    <3> QED BY <3>1, <1>8 DEF Added, Live
  <2> QED BY <2>1, <2>2, <2>3, <2>4 DEF FdsFound
<1>17. FdsOwned'
  <2> SUFFICES ASSUME NEW d \in Channels, Live(d)'
               PROVE  /\ chan'[d].fd \in ChannelFds
                      /\ \A e \in Channels : chan'[e].fd = chan'[d].fd => e = d
                      /\ ~Added(d)' => /\ chan'[d] = [NoChannel EXCEPT !.fd = chan'[d].fd]
                                       /\ chan'[d].fd \notin DOMAIN channels_'
    BY DEF FdsOwned
  <2>1. \A e \in Channels : chan'[e].fd = chan[e].fd
    BY <1>0, <1>6, <1>7
  <2>2. Live(d)
    BY <1>0, <1>7 DEF Live
  <2>3. chan'[d].fd \in ChannelFds /\ \A e \in Channels : chan'[e].fd = chan'[d].fd => e = d
    BY <2>1, <2>2 DEF PollInv, FdsOwned
  <2>4. ASSUME ~Added(d)'
        PROVE  chan'[d] = [NoChannel EXCEPT !.fd = chan'[d].fd] /\ chan'[d].fd \notin DOMAIN channels_'
    <3>1. d # c
      <4>1. chan'[c].fd = fd
        BY <1>6, <1>7
      <4> QED BY <2>4, <4>1, <1>8 DEF Added
    <3>2. chan'[d] = chan[d] /\ chan[d].fd # fd
      BY <3>1, <1>0, <1>7, AddedFound
    <3>3. ~Added(d)
      BY <2>4, <3>2, <2>2, <1>8 DEF Added, Live
    <3> QED BY <2>2, <3>2, <3>3, <1>8 DEF PollInv, FdsOwned
  <2> QED BY <2>3, <2>4
<1>18. \A f \in DOMAIN channels_' : IndexKnown(f)'
  <2> SUFFICES ASSUME NEW f \in DOMAIN channels_' PROVE IndexKnown(f)'
    OBVIOUS
  <2>1. CASE f = fd
    <3>1. Chan(f)'.index = o.index /\ Chan(f)'.events = events /\ channels_'[f] = c
      BY <2>1, <1>6, <1>8, <1>10
    <3>2. events = {} /\ c \notin again' => chan[c].index = kAdded
      <4> SUFFICES ASSUME events = {}, c \notin again' PROVE chan[c].index = kAdded
        OBVIOUS
      <4>1. Added(c) /\ chan[c].events # {}
        BY <1>3, <1>15
      <4>2. IndexKnown(fd)
        BY <4>1, <1>11 DEF PollInv, KernelKnown
      <4> QED BY <4>1, <4>2, <1>11 DEF IndexKnown
    <3> QED BY <3>1, <3>2, <1>4 DEF IndexKnown, kAdded, kDeleted
  <2>2. CASE f # fd
    <3>1. f \in DOMAIN channels_ /\ channels_'[f] = channels_[f] /\ Chan(f)' = Chan(f)
      BY <2>2, <1>8, <1>9
    <3>2. channels_[f] \in again' <=> channels_[f] \in again
      BY <2>2, <3>1, <1>9, <1>15
    <3>3. IndexKnown(f)
      BY <3>1 DEF PollInv, KernelKnown
    <3> QED BY <3>1, <3>2, <3>3 DEF IndexKnown
  <2> QED BY <2>1, <2>2
<1>19. KernelKnown'
  <2>1. ASSUME NEW f
        PROVE  f \in DOMAIN registered' <=> f \in DOMAIN channels_' /\ Chan(f)'.index = kAdded
    <3>1. CASE f = fd
      BY <3>1, <1>4, <1>6, <1>8, <1>10, <1>14 DEF kAdded, kDeleted
    <3>2. CASE f # fd
      <4>1. f \in DOMAIN registered' <=> f \in DOMAIN registered
        BY <3>2, <1>14
      <4>2. f \in DOMAIN channels_' <=> f \in DOMAIN channels_
        BY <3>2, <1>8
      <4>3. f \in DOMAIN registered <=> f \in DOMAIN channels_ /\ Chan(f).index = kAdded
        BY DEF PollInv, KernelKnown
      <4> QED BY <3>2, <4>1, <4>2, <4>3, <1>9
    <3> QED BY <3>1, <3>2
  <2>2. ASSUME NEW f \in DOMAIN registered'
        PROVE  registered'[f] = [channel |-> channels_'[f], events |-> Chan(f)'.events]
    <3>1. CASE f = fd
      BY <3>1, <1>6, <1>8, <1>10, <1>14
    <3>2. CASE f # fd
      <4>1. f \in DOMAIN registered
        BY <3>2, <1>14
      <4>2. f \in DOMAIN channels_ /\ registered[f] = [channel |-> channels_[f], events |-> Chan(f).events]
        BY <4>1 DEF PollInv, KernelKnown
      <4> QED BY <3>2, <4>1, <4>2, <1>8, <1>9, <1>14
    <3> QED BY <3>1, <3>2
  <2> QED BY <2>1, <2>2, <1>18 DEF KernelKnown
<1>20. /\ IsFiniteSet(DOMAIN channels_')
       /\ Cardinality(DOMAIN channels_') =
            IF Added(c) THEN Cardinality(DOMAIN channels_) ELSE Cardinality(DOMAIN channels_) + 1
  <2>1. IsFiniteSet(DOMAIN channels_)
    BY DEF PollInv, PollType
  <2>2. Added(c) => DOMAIN channels_' = DOMAIN channels_
    BY <1>8, <1>11
  <2>3. ~Added(c) => fd \notin DOMAIN channels_
    BY <1>12
  <2>4. IsFiniteSet(DOMAIN channels_ \cup {fd})
    BY <2>1, FS_AddElement
  <2>5. ~Added(c) => Cardinality(DOMAIN channels_ \cup {fd}) = Cardinality(DOMAIN channels_) + 1
    BY <2>1, <2>3, FS_AddElement
  <2> QED BY <1>8, <2>2, <2>4, <2>5
<1>21. registered' \in [DOMAIN registered' -> Registrations]
  <2>1. \A f \in DOMAIN registered' : registered'[f] \in Registrations
    <3> SUFFICES ASSUME NEW f \in DOMAIN registered' PROVE registered'[f] \in Registrations
      OBVIOUS
    <3>1. CASE f = fd
      BY <3>1, <1>14 DEF Registrations
    <3>2. CASE f # fd
      <4>1. f \in DOMAIN registered /\ registered'[f] = registered[f]
        BY <3>2, <1>14
      <4> QED BY <4>1 DEF PollInv, PollType
    <3> QED BY <3>1, <3>2
  <2> QED BY <2>1, <1>14
\* The vector, with one entry more or with an entry changed.
<1>22. \A f \in DOMAIN channels_ : EntryKnown(f) /\ Chan(f).place + 1 \in DOMAIN pollfds_
  BY <1>5, LenProperties DEF PollInv, EntriesKnown, EntryKnown
<1>23. Added(c) => chan[c].place >= 0 /\ chan[c].place + 1 \in 1 .. Len(pollfds_)
  <2> SUFFICES ASSUME Added(c) PROVE chan[c].place >= 0 /\ chan[c].place + 1 \in 1 .. Len(pollfds_)
    OBVIOUS
  <2>1. EntryKnown(fd) /\ Chan(fd) = chan[c] /\ chan[c].place \in Int
    BY <1>0, <1>11, <1>22 DEF ChannelRecs
  <2> QED BY <2>1, <1>5 DEF EntryKnown
<1>24. place \in Int /\ place + 1 \in 1 .. (IF Added(c) THEN Len(pollfds_) ELSE Len(pollfds_) + 1)
       /\ (Added(c) => place = chan[c].place) /\ (~Added(c) => place = Len(pollfds_))
  BY <1>0, <1>2, <1>5, <1>12, <1>23 DEF ChannelRecs
<1> HIDE DEF place
<1>25. PICK e \in PollFds :
         /\ pollfds_' = IF Added(c) THEN [pollfds_ EXCEPT ![place + 1] = e] ELSE Append(pollfds_, e)
         /\ FdOf(e.fd) = fd /\ e.events = events
         /\ e.fd < 0 <=> (events = {} \/ c \in again')
  <2>1. CASE Added(c)
    <3>1. /\ FdOf(pollfds_[place + 1].fd) = fd
          /\ pollfds_[place + 1].fd < 0 <=> (chan[c].events = {} \/ c \in again)
          /\ pollfds_[place + 1] \in PollFds
      BY <2>1, <1>5, <1>11, <1>22, <1>24, ElementOfSeq DEF EntryKnown, EntryOf
    <3>2. pollfds_[place + 1].fd \in Int
      BY <3>1 DEF PollFds
    <3> DEFINE e == [fd |-> PolledFd(pollfds_[place + 1].fd, fd, events), events |-> events]
    <3>3. pollfds_' = [pollfds_ EXCEPT ![place + 1] = e]
      <4>1. r.place = place /\ r.fd = fd /\ r.events = events /\ ~(r.place < 0)
        BY <2>1, <1>2, <1>23, <1>24
      <4>2. pollfds_' = [pollfds_ EXCEPT ![r.place + 1] =
                           [fd |-> PolledFd(pollfds_[r.place + 1].fd, r.fd, r.events), events |-> r.events]]
        BY <4>1, <1>3 DEF PollUpdated
      <4> QED BY <4>1, <4>2
    <3>4. /\ e \in PollFds /\ FdOf(e.fd) = fd /\ e.events = events
          /\ e.fd < 0 <=> (events = {} \/ pollfds_[place + 1].fd < 0)
      BY <1>0, <3>1, <3>2, FdOfSigned DEF PolledFd, PollFds, EventSets
    <3>5. c \in again' <=> (chan[c].events = {} \/ c \in again)
      BY <2>1, <1>15
    <3> QED BY <2>1, <3>1, <3>3, <3>4, <3>5
  <2>2. CASE ~Added(c)
    <3> DEFINE e == [fd |-> fd, events |-> events]
    <3>1. pollfds_' = Append(pollfds_, e)
      BY <2>2, <1>2, <1>3, <1>12 DEF PollUpdated
    <3>2. e \in PollFds /\ FdOf(e.fd) = fd /\ ~(e.fd < 0)
      BY <1>0, FdOfSigned DEF PollFds
    <3>3. events # {} /\ c \notin again'
      BY <2>2, <1>3, <1>12, <1>15
    <3> QED BY <2>2, <3>1, <3>2, <3>3
  <2> QED BY <2>1, <2>2
<1>26. /\ pollfds_' \in Seq(PollFds)
       /\ Len(pollfds_') = IF Added(c) THEN Len(pollfds_) ELSE Len(pollfds_) + 1
       /\ pollfds_'[place + 1] = e
       /\ \A i \in 1 .. Len(pollfds_) : i # place + 1 => pollfds_'[i] = pollfds_[i]
  <2>1. CASE Added(c)
    BY <2>1, <1>5, <1>24, <1>25, ExceptSeq
  <2>2. CASE ~Added(c)
    BY <2>2, <1>5, <1>24, <1>25, AppendProperties
  <2> QED BY <2>1, <2>2
<1>27. PollType'
  <2>1. DOMAIN channels_' \subseteq ChannelFds
    BY <1>0, <1>8 DEF PollInv, PollType
  <2> QED BY <1>7, <1>8, <1>14, <1>20, <1>21, <1>26, <2>1 DEF PollType
<1>28. \A f \in DOMAIN channels_ : f # fd => Chan(f).place # place /\ Chan(f).place \in Int
  <2> SUFFICES ASSUME NEW f \in DOMAIN channels_, f # fd
               PROVE Chan(f).place # place /\ Chan(f).place \in Int
    OBVIOUS
  <2>1. /\ Chan(f).place + 1 \in 1 .. Len(pollfds_) /\ FdOf(pollfds_[Chan(f).place + 1].fd) = f
        /\ Chan(f).place \in Int
    BY <1>9, <1>22 DEF EntryKnown, EntryOf, Chan, PollInv, PollType, ChannelRecs
  <2>2. Added(c) => FdOf(pollfds_[place + 1].fd) = fd
    BY <1>11, <1>22, <1>24 DEF EntryKnown, EntryOf
  <2> QED BY <2>1, <2>2, <1>5, <1>24
<1>29. \A f \in DOMAIN channels_' : EntryKnown(f)'
  <2> SUFFICES ASSUME NEW f \in DOMAIN channels_' PROVE EntryKnown(f)'
    OBVIOUS
  <2>1. CASE f = fd
    <3>1. Chan(f)'.place = place /\ Chan(f)'.events = events /\ channels_'[f] = c
      BY <2>1, <1>6, <1>8, <1>10
    <3>2. EntryOf(f)' = e /\ Chan(f)'.place + 1 \in 1 .. Len(pollfds_')
      BY <3>1, <1>24, <1>26 DEF EntryOf
    <3> QED BY <2>1, <3>1, <3>2, <1>25 DEF EntryKnown
  <2>2. CASE f # fd
    <3>1. f \in DOMAIN channels_ /\ channels_'[f] = channels_[f] /\ Chan(f)' = Chan(f)
      BY <2>2, <1>8, <1>9
    <3>2. EntryKnown(f) /\ Chan(f).place + 1 \in 1 .. Len(pollfds_) /\ Chan(f).place # place
          /\ Chan(f).place \in Int
      BY <2>2, <3>1, <1>22, <1>28 DEF EntryKnown
    <3>3. EntryOf(f)' = EntryOf(f) /\ Chan(f).place + 1 \in 1 .. Len(pollfds_')
      BY <3>1, <3>2, <1>5, <1>24, <1>26 DEF EntryOf
    <3>4. channels_[f] \in again' <=> channels_[f] \in again
      BY <2>2, <3>1, <1>9, <1>15
    <3> QED BY <3>1, <3>2, <3>3, <3>4 DEF EntryKnown
  <2> QED BY <2>1, <2>2
<1>30. \A i \in 1 .. Len(pollfds_') : EntryFound(i)'
  <2> SUFFICES ASSUME NEW i \in 1 .. Len(pollfds_') PROVE EntryFound(i)'
    OBVIOUS
  <2>1. CASE i = place + 1
    <3>1. FdOf(pollfds_'[i].fd) = fd
      BY <2>1, <1>25, <1>26
    <3>2. Chan(fd)'.place = i - 1
      BY <2>1, <1>6, <1>10, <1>24
    <3> QED BY <3>1, <3>2, <1>8 DEF EntryFound
  <2>2. CASE i # place + 1
    <3>1. i \in 1 .. Len(pollfds_) /\ pollfds_'[i] = pollfds_[i]
      BY <2>2, <1>5, <1>24, <1>26
    <3>2. PICK f \in DOMAIN channels_ : f = FdOf(pollfds_[i].fd) /\ Chan(f).place = i - 1
      BY <3>1 DEF PollInv, EntriesKnown, EntryFound
    <3>3. f # fd
      <4>1. fd \in DOMAIN channels_ => Added(c)
        BY <1>12
      <4> QED BY <2>2, <3>1, <3>2, <4>1, <1>11, <1>24
    <3>4. Chan(f)' = Chan(f) /\ f \in DOMAIN channels_'
      BY <3>2, <3>3, <1>8, <1>9
    <3>5. f = FdOf(pollfds_'[i].fd)
      BY <3>1, <3>2
    <3> QED BY <3>2, <3>4, <3>5 DEF EntryFound
  <2> QED BY <2>1, <2>2
<1>31. EntriesKnown'
  <2>1. Len(pollfds_) = Cardinality(DOMAIN channels_)
    BY DEF PollInv, EntriesKnown
  <2> QED BY <2>1, <1>20, <1>26, <1>29, <1>30 DEF EntriesKnown
<1> QED BY <1>16, <1>17, <1>19, <1>27, <1>31 DEF PollInv

\* A Channel without events goes, and the last entry takes its place.
LEMMA RemoveChannelInv ==
    ASSUME PollInv, NEW c \in Channels, removeChannel(c)
    PROVE  PollInv'
<1>1. /\ Added(c) /\ Live(c) /\ chan[c].events = {} /\ chan[c] \in ChannelRecs
      /\ chan[c].fd \in DOMAIN channels_ /\ channels_[chan[c].fd] = c
  BY AddedFound DEF removeChannel, isNoneEvent, Added
<1>2. PICK fd \in DOMAIN channels_ : fd = chan[c].fd
  BY <1>1
<1>3. fd \in ChannelFds /\ fd \in Nat /\ channels_[fd] = c /\ Chan(fd) = chan[c]
  BY <1>1, <1>2, PollerConstants DEF PollInv, PollType, Chan
<1>4. pollfds_ \in Seq(PollFds) /\ Len(pollfds_) \in Nat /\ DOMAIN pollfds_ = 1 .. Len(pollfds_)
  BY LenProperties DEF PollInv, PollType
<1>5. PICK n \in Nat : n = Len(pollfds_)
  BY <1>4
<1>6. /\ chan[c].place \in Int /\ chan[c].place + 1 \in 1 .. n
      /\ FdOf(pollfds_[chan[c].place + 1].fd) = fd
  BY <1>1, <1>3, <1>5 DEF PollInv, EntriesKnown, EntryKnown, EntryOf, ChannelRecs
<1>7. PICK p \in 1 .. n : p = chan[c].place + 1
  BY <1>6
\* The one that is told: the Channel of the last entry.
<1>8. n \in 1 .. n /\ pollfds_[n] \in PollFds
  BY <1>4, <1>5, <1>7, ElementOfSeq
<1>9. PICK g \in DOMAIN channels_ : g = FdOf(pollfds_[n].fd) /\ Chan(g).place = n - 1
  BY <1>5, <1>8 DEF PollInv, EntriesKnown, EntryFound
<1>10. g = fd <=> p = n
  BY <1>3, <1>5, <1>6, <1>7, <1>9
<1>11. PICK m \in Channels : m = channels_[g]
  BY DEF PollInv, PollType
<1>12. m = c <=> p = n
  <2>1. chan[m].fd = g
    BY <1>11 DEF PollInv, FdsFound
  <2> QED BY <2>1, <1>2, <1>3, <1>10, <1>11
<1>13. Last(pollfds_) = pollfds_[n]
  BY <1>5 DEF Last
<1>14. Moved(c) = IF p = n THEN {} ELSE {m}
  <2>1. (chan[c].place = Len(pollfds_) - 1) <=> p = n
    BY <1>5, <1>6, <1>7
  <2> QED BY <2>1, <1>9, <1>11, <1>13 DEF Moved
<1>15. /\ chan' \in [Channels -> ChannelRecs]
       /\ chan'[c] = NoChannel
       /\ \A d \in Channels : d # c /\ d # m => chan'[d] = chan[d]
       /\ m # c => /\ chan'[m].fd = chan[m].fd /\ chan'[m].events = chan[m].events
                   /\ chan'[m].index = chan[m].index /\ chan'[m].place = p - 1
                   /\ chan'[m] # NoChannel
  <2>1. chan' = [d \in Channels |->
                  IF d = c THEN NoChannel
                  ELSE IF d \in Moved(c) THEN [chan[d] EXCEPT !.place = chan[c].place]
                  ELSE chan[d]]
    BY DEF removeChannel
  <2>2. NoChannel \in ChannelRecs
    BY DEF NoChannel, ChannelRecs, EventSets, kNew
  <2>3. \A d \in Channels : chan[d] \in ChannelRecs
    BY DEF PollInv, PollType
  <2>4. \A d \in Channels : [chan[d] EXCEPT !.place = chan[c].place] \in ChannelRecs
    BY <2>3, <1>6 DEF ChannelRecs
  <2>5. chan' \in [Channels -> ChannelRecs]
    BY <2>1, <2>2, <2>3, <2>4
  <2>6. chan'[c] = NoChannel /\ \A d \in Channels : d # c /\ d # m => chan'[d] = chan[d]
    BY <2>1, <1>14
  <2>7. m # c => chan'[m] = [chan[m] EXCEPT !.place = chan[c].place]
    BY <2>1, <1>12, <1>14
  <2>8. chan[m].fd = g /\ g # -1
    BY <1>11, PollerConstants DEF PollInv, FdsFound, PollType
  <2> QED BY <2>3, <2>5, <2>6, <2>7, <2>8, <1>6, <1>7 DEF ChannelRecs, NoChannel
<1>16. /\ channels_' \in [DOMAIN channels_' -> Channels]
       /\ DOMAIN channels_' = DOMAIN channels_ \ {fd}
       /\ \A f \in DOMAIN channels_' : channels_'[f] = channels_[f]
  BY <1>2 DEF removeChannel, PollInv, PollType
<1>17. \A f \in DOMAIN channels_' :
         /\ f \in DOMAIN channels_ /\ f # fd /\ channels_[f] \in Channels /\ channels_[f] # c
         /\ Chan(f).fd = f
  <2>1. \A f \in DOMAIN channels_ : channels_[f] \in Channels /\ Chan(f).fd = f
    BY DEF PollInv, PollType, FdsFound, Chan
  <2> QED BY <2>1, <1>2, <1>16 DEF Chan
<1>18. \A f \in DOMAIN channels_' :
         /\ Chan(f)'.fd = Chan(f).fd /\ Chan(f)'.events = Chan(f).events
         /\ Chan(f)'.index = Chan(f).index
         /\ f # g => Chan(f)'.place = Chan(f).place
         /\ f = g => Chan(f)'.place = p - 1
  <2> SUFFICES ASSUME NEW f \in DOMAIN channels_'
               PROVE  /\ Chan(f)'.fd = Chan(f).fd /\ Chan(f)'.events = Chan(f).events
                      /\ Chan(f)'.index = Chan(f).index
                      /\ f # g => Chan(f)'.place = Chan(f).place
                      /\ f = g => Chan(f)'.place = p - 1
    OBVIOUS
  <2>1. channels_[f] \in Channels /\ channels_[f] # c /\ channels_'[f] = channels_[f] /\ Chan(f).fd = f
    BY <1>16, <1>17
  <2>2. Chan(g).fd = g
    BY DEF PollInv, FdsFound, Chan
  <2>3. channels_[f] = m <=> f = g
    BY <2>1, <2>2, <1>11 DEF Chan
  <2>4. Chan(f)' = chan'[channels_[f]] /\ Chan(f) = chan[channels_[f]]
    BY <2>1 DEF Chan
  <2>5. CASE f = g
    BY <2>1, <2>3, <2>4, <2>5, <1>15
  <2>6. CASE f # g
    BY <2>1, <2>3, <2>4, <2>6, <1>15
  <2> QED BY <2>5, <2>6
<1>19. again' = again \ {c}
  BY DEF removeChannel
<1>20. \A f \in DOMAIN channels_' : channels_'[f] \in again' <=> channels_[f] \in again
  BY <1>16, <1>17, <1>19
\* The kernel.
<1>21. /\ ctlFailed' = FALSE
       /\ DOMAIN registered' = DOMAIN registered \ {fd}
       /\ \A f \in DOMAIN registered' : registered'[f] = registered[f]
       /\ registered' = [f \in DOMAIN registered' |-> registered'[f]]
  <2>1. ctlFailed = FALSE /\ registered = [f \in DOMAIN registered |-> registered[f]]
    BY DEF PollInv, PollType
  <2>2. fd \in DOMAIN registered <=> chan[c].index = kAdded
    BY <1>3 DEF PollInv, KernelKnown
  <2>3. CASE chan[c].index = kAdded
    <3>1. Ctl("DEL", c, {})
      BY <2>3 DEF removeChannel
    <3>2. chan[c].fd \in DOMAIN registered
      BY <2>2, <2>3, <1>2
    <3>3. /\ ctlFailed' = FALSE
          /\ DOMAIN registered' = DOMAIN registered \ {chan[c].fd}
          /\ \A f \in DOMAIN registered : f # chan[c].fd => registered'[f] = registered[f]
          /\ registered' = [f \in DOMAIN registered' |-> registered'[f]]
      BY ONLY <2>1, <3>1, <3>2, CtlDone
    <3> QED BY <3>3, <1>2
  <2>4. CASE chan[c].index # kAdded
    BY <2>1, <2>2, <2>4 DEF removeChannel
  <2> QED BY <2>3, <2>4
<1>22. KernelKnown'
  <2>1. \A f \in DOMAIN channels_' : IndexKnown(f)'
    <3> SUFFICES ASSUME NEW f \in DOMAIN channels_' PROVE IndexKnown(f)'
      OBVIOUS
    <3>1. IndexKnown(f)
      BY <1>17 DEF PollInv, KernelKnown
    <3> QED BY <3>1, <1>18, <1>20 DEF IndexKnown
  <2>2. ASSUME NEW f
        PROVE  f \in DOMAIN registered' <=> f \in DOMAIN channels_' /\ Chan(f)'.index = kAdded
    <3>1. f \in DOMAIN registered <=> f \in DOMAIN channels_ /\ Chan(f).index = kAdded
      BY DEF PollInv, KernelKnown
    <3> QED BY <3>1, <1>16, <1>18, <1>21
  <2>3. ASSUME NEW f \in DOMAIN registered'
        PROVE  registered'[f] = [channel |-> channels_'[f], events |-> Chan(f)'.events]
    <3>1. f \in DOMAIN registered /\ registered'[f] = registered[f] /\ f \in DOMAIN channels_'
      BY <1>21, <2>2
    <3>2. registered[f] = [channel |-> channels_[f], events |-> Chan(f).events]
      BY <3>1 DEF PollInv, KernelKnown
    <3> QED BY <3>1, <3>2, <1>16, <1>18
  <2> QED BY <2>1, <2>2, <2>3 DEF KernelKnown
\* The vector.
<1>23. /\ pollfds_' \in Seq(PollFds) /\ Len(pollfds_') = n - 1
       /\ \A i \in 1 .. n - 1 : pollfds_'[i] = IF i = p THEN pollfds_[n] ELSE pollfds_[i]
  <2> DEFINE s == [pollfds_ EXCEPT ![p] = pollfds_[n]]
  <2>1. s \in Seq(PollFds) /\ Len(s) = n /\ \A i \in 1 .. n : s[i] = IF i = p THEN pollfds_[n] ELSE pollfds_[i]
    BY <1>4, <1>5, <1>7, <1>8, ExceptSeq
  <2> HIDE DEF s
  <2>2. pollfds_' = SubSeq(s, 1, n - 1)
    BY <1>5, <1>7, <1>13 DEF removeChannel, PollRemoved, s
  <2>3. n - 1 \in Nat /\ \A i \in 1 .. n - 1 : s[i] \in PollFds
    BY <2>1, <1>7, ElementOfSeq
  <2>4. /\ SubSeq(s, 1, n - 1) \in Seq(PollFds)
        /\ Len(SubSeq(s, 1, n - 1)) = IF 1 <= n - 1 THEN (n - 1) - 1 + 1 ELSE 0
        /\ \A i \in 1 .. (n - 1) - 1 + 1 : SubSeq(s, 1, n - 1)[i] = s[1 + i - 1]
    BY <2>3, SubSeqProperties
  <2>5. (n - 1) - 1 + 1 = n - 1 /\ \A i \in 1 .. n - 1 : 1 + i - 1 = i /\ i \in 1 .. n
    OBVIOUS
  <2>6. (IF 1 <= n - 1 THEN (n - 1) - 1 + 1 ELSE 0) = n - 1
    BY <2>3
  <2>7. \A i \in 1 .. n - 1 : SubSeq(s, 1, n - 1)[i] = s[i]
    BY <2>4, <2>5
  <2>8. \A i \in 1 .. n - 1 : s[i] = IF i = p THEN pollfds_[n] ELSE pollfds_[i]
    BY <2>1, <2>5
  <2> QED BY <2>2, <2>4, <2>6, <2>7, <2>8
<1>24. IsFiniteSet(DOMAIN channels_') /\ Cardinality(DOMAIN channels_') = n - 1
  <2>1. IsFiniteSet(DOMAIN channels_) /\ Cardinality(DOMAIN channels_) = n
    BY <1>5 DEF PollInv, PollType, EntriesKnown
  <2> QED BY <2>1, <1>16, FS_RemoveElement
<1>25. \A f \in DOMAIN channels_' : EntryKnown(f)'
  <2> SUFFICES ASSUME NEW f \in DOMAIN channels_' PROVE EntryKnown(f)'
    OBVIOUS
  <2>1. EntryKnown(f) /\ f \in DOMAIN channels_ /\ f # fd
    BY <1>17 DEF PollInv, EntriesKnown
  <2>2. Chan(f).place \in Int /\ Chan(f).place + 1 \in 1 .. n
    BY <2>1, <1>5, <1>17 DEF EntryKnown, Chan, PollInv, PollType, ChannelRecs
  <2>3. Chan(f)'.place + 1 \in 1 .. n - 1 /\ EntryOf(f)' = EntryOf(f)
    <3>1. CASE f = g
      <4>1. p # n /\ Chan(f)'.place = p - 1
        BY <2>1, <3>1, <1>10, <1>18
      <4>2. p \in 1 .. n - 1 /\ Chan(f)'.place + 1 = p
        BY <4>1
      <4> QED BY <4>2, <3>1, <1>9, <1>23 DEF EntryOf
    <3>2. CASE f # g
      <4>1. Chan(f).place + 1 # n
        BY <2>1, <3>2, <1>9 DEF EntryKnown, EntryOf
      <4>2. Chan(f).place + 1 # p
        BY <2>1, <1>6, <1>7 DEF EntryKnown, EntryOf
      <4> QED BY <2>2, <3>2, <4>1, <4>2, <1>18, <1>23 DEF EntryOf
    <3> QED BY <3>1, <3>2
  <2> QED BY <2>1, <2>3, <1>18, <1>20, <1>23 DEF EntryKnown
<1>26. \A i \in 1 .. Len(pollfds_') : EntryFound(i)'
  <2> SUFFICES ASSUME NEW i \in 1 .. n - 1 PROVE EntryFound(i)'
    BY <1>23
  <2>1. CASE i = p
    <3>1. pollfds_'[i] = pollfds_[n] /\ g # fd
      BY <2>1, <1>10, <1>23
    <3>2. g \in DOMAIN channels_' /\ Chan(g)'.place = i - 1
      BY <2>1, <3>1, <1>16, <1>18
    <3>3. FdOf(pollfds_'[i].fd) = g
      BY <3>1, <1>9
    <3> QED BY <3>2, <3>3 DEF EntryFound
  <2>2. CASE i # p
    <3>1. pollfds_'[i] = pollfds_[i] /\ i \in 1 .. n
      BY <2>2, <1>23
    <3>2. PICK f \in DOMAIN channels_ : f = FdOf(pollfds_[i].fd) /\ Chan(f).place = i - 1
      BY <3>1, <1>5 DEF PollInv, EntriesKnown, EntryFound
    <3>3. f # fd /\ f # g
      BY <2>2, <3>2, <1>3, <1>7, <1>6, <1>9
    <3>4. f \in DOMAIN channels_' /\ Chan(f)'.place = i - 1
      BY <3>2, <3>3, <1>16, <1>18
    <3>5. FdOf(pollfds_'[i].fd) = f
      BY <3>1, <3>2
    <3> QED BY <3>4, <3>5 DEF EntryFound
  <2> QED BY <2>1, <2>2
<1>27. EntriesKnown'
  BY <1>23, <1>24, <1>25, <1>26 DEF EntriesKnown
<1>28. PollType'
  <2>1. registered' \in [DOMAIN registered' -> Registrations]
    BY <1>21 DEF PollInv, PollType
  <2>2. DOMAIN channels_' \subseteq ChannelFds
    BY <1>16 DEF PollInv, PollType
  <2> QED BY <2>1, <2>2, <1>15, <1>16, <1>21, <1>23, <1>24 DEF PollType
<1>29. \A d \in Channels : d # c => chan'[d].fd = chan[d].fd /\ (Live(d)' <=> Live(d))
  <2> SUFFICES ASSUME NEW d \in Channels, d # c
               PROVE  chan'[d].fd = chan[d].fd /\ (Live(d)' <=> Live(d))
    OBVIOUS
  <2>1. CASE d = m
    <3>1. Added(m)
      BY <1>11, AddedFound
    <3> QED BY <2>1, <3>1, <1>15 DEF Live, Added
  <2>2. CASE d # m
    BY <2>2, <1>15 DEF Live
  <2> QED BY <2>1, <2>2
<1>30. \A d \in Channels : d # c => (Added(d)' <=> Added(d))
  <2> SUFFICES ASSUME NEW d \in Channels, d # c PROVE Added(d)' <=> Added(d)
    OBVIOUS
  <2>1. chan[d].fd # fd
    BY <1>1, <1>2, AddedFound
  <2>2. chan[d].fd \in DOMAIN channels_' <=> chan[d].fd \in DOMAIN channels_
    BY <2>1, <1>16
  <2> QED BY <2>1, <2>2, <1>16, <1>29 DEF Added
<1>31. FdsFound'
  <2>1. \A f \in DOMAIN channels_' : chan'[channels_'[f]].fd = f
    BY <1>17, <1>18 DEF Chan
  <2>2. \A d \in again' : d \in Channels /\ d # c /\ Added(d)
    BY <1>19 DEF PollInv, FdsFound
  <2> QED BY <2>1, <2>2, <1>30 DEF FdsFound
<1>32. FdsOwned'
  <2> SUFFICES ASSUME NEW d \in Channels, Live(d)'
               PROVE  /\ chan'[d].fd \in ChannelFds
                      /\ \A e \in Channels : chan'[e].fd = chan'[d].fd => e = d
                      /\ ~Added(d)' => /\ chan'[d] = [NoChannel EXCEPT !.fd = chan'[d].fd]
                                       /\ chan'[d].fd \notin DOMAIN channels_'
    BY DEF FdsOwned
  <2>1. d # c
    BY <1>15 DEF Live
  <2>2. Live(d) /\ chan'[d].fd = chan[d].fd /\ chan[d].fd \in ChannelFds
    BY <2>1, <1>29 DEF PollInv, FdsOwned
  <2>3. chan'[c].fd # chan'[d].fd
    BY <2>2, <1>15, PollerConstants DEF NoChannel
  <2>4. \A e \in Channels : chan'[e].fd = chan'[d].fd => e = d
    <3>1. \A e \in Channels : chan[e].fd = chan[d].fd => e = d
      BY <2>2 DEF PollInv, FdsOwned
    <3> QED BY <2>2, <2>3, <3>1, <1>29
  <2>5. ASSUME ~Added(d)'
        PROVE  chan'[d] = [NoChannel EXCEPT !.fd = chan'[d].fd] /\ chan'[d].fd \notin DOMAIN channels_'
    <3>1. ~Added(d)
      BY <2>1, <2>5, <1>30
    <3>2. d # m
      BY <3>1, <1>11, AddedFound
    <3>3. chan'[d] = chan[d]
      BY <2>1, <3>2, <1>15
    <3> QED BY <2>2, <3>1, <3>3, <1>16 DEF PollInv, FdsOwned
  <2> QED BY <2>2, <2>4, <2>5
<1> QED BY <1>22, <1>27, <1>28, <1>31, <1>32 DEF PollInv

\* Every step of a Channel keeps both Pollers right about it.
LEMMA PollInvNext == PollInv /\ [PollNext]_pollerVars => PollInv'
<1> SUFFICES ASSUME PollInv, [PollNext]_pollerVars PROVE PollInv'
  OBVIOUS
<1>1. CASE UNCHANGED pollerVars
  <2>1. /\ chan' = chan /\ channels_' = channels_ /\ pollfds_' = pollfds_
        /\ registered' = registered /\ ctlFailed' = ctlFailed /\ again' = again
    BY <1>1 DEF pollerVars
  <2> QED BY <2>1 DEF PollInv, PollType, FdsOwned, FdsFound, EntriesKnown, KernelKnown, EntryKnown,
              EntryFound, IndexKnown, EntryOf, Chan, Added, Live
<1>2. CASE PollNext
  BY <1>2, NewPollChannelInv, UpdateChannelInv, RemoveChannelInv DEF PollNext
<1> QED BY <1>1, <1>2

\* The vector of PollPoller is what PlacesExact says.
LEMMA PlacesFollow == PollInv => PlacesExact
<1> SUFFICES ASSUME PollInv PROVE PlacesExact
  OBVIOUS
<1>1. Len(pollfds_) = Cardinality(DOMAIN channels_) /\ DOMAIN pollfds_ = 1 .. Len(pollfds_)
  BY LenProperties DEF PollInv, PollType, EntriesKnown
<1>2. ASSUME NEW c \in Channels, Added(c)
      PROVE  /\ chan[c].place + 1 \in DOMAIN pollfds_
             /\ FdOf(pollfds_[chan[c].place + 1].fd) = chan[c].fd
             /\ pollfds_[chan[c].place + 1].events = chan[c].events
             /\ isNoneEvent(c) => pollfds_[chan[c].place + 1].fd < 0
  <2>1. chan[c].fd \in DOMAIN channels_ /\ channels_[chan[c].fd] = c
    BY <1>2 DEF Added
  <2>2. EntryKnown(chan[c].fd) /\ Chan(chan[c].fd) = chan[c]
    BY <2>1 DEF PollInv, EntriesKnown, Chan
  <2> QED BY <1>1, <2>2 DEF EntryKnown, EntryOf, isNoneEvent
<1> QED BY <1>1, <1>2 DEF PlacesExact

\* What PollPoller reports of the Channels that were never disabled and enabled
\* again is what the kernel reports.
LEMMA ReportsFollow == PollInv => SameReported
<1> SUFFICES ASSUME PollInv, NEW ready \in [ChannelFds -> {{}, {"in"}, {"out"}, {"hup"}}]
             PROVE  LET wanted == {c \in Channels : Added(c) /\ ~isNoneEvent(c)
                                          /\ Raised(ready, chan[c].fd, chan[c].events)}
                    IN  /\ wanted \subseteq ActiveOfEpoll(ready)
                        /\ ActiveOfPoll(ready) \ again = ActiveOfEpoll(ready) \ again
  BY DEF SameReported
<1>1. pollfds_ \in Seq(PollFds) /\ DOMAIN pollfds_ = 1 .. Len(pollfds_)
  BY LenProperties DEF PollInv, PollType
<1>2. ASSUME NEW c \in Channels, Added(c), ~isNoneEvent(c), Raised(ready, chan[c].fd, chan[c].events)
      PROVE  c \in ActiveOfEpoll(ready)
  <2>1. chan[c].fd \in DOMAIN channels_ /\ Chan(chan[c].fd) = chan[c] /\ channels_[chan[c].fd] = c
    BY <1>2 DEF Added, Chan
  <2>2. chan[c].index = kAdded
    BY <1>2, <2>1 DEF PollInv, KernelKnown, IndexKnown, isNoneEvent
  <2>3. /\ chan[c].fd \in DOMAIN registered
        /\ registered[chan[c].fd] = [channel |-> c, events |-> chan[c].events]
    BY <2>1, <2>2 DEF PollInv, KernelKnown
  <2> QED BY <1>2, <2>3 DEF ActiveOfEpoll
<1>3. ASSUME NEW c \in ActiveOfPoll(ready)
      PROVE  c \in ActiveOfEpoll(ready)
  <2>1. PICK i \in DOMAIN pollfds_ :
          /\ pollfds_[i].fd >= 0 /\ Raised(ready, pollfds_[i].fd, pollfds_[i].events)
          /\ c = channels_[pollfds_[i].fd]
    BY <1>3 DEF ActiveOfPoll
  <2>2. pollfds_[i] \in PollFds /\ pollfds_[i].fd \in Int /\ EntryFound(i)
    <3>1. pollfds_[i] \in PollFds
      BY <1>1, ElementOfSeq
    <3>2. EntryFound(i)
      BY <1>1 DEF PollInv, EntriesKnown
    <3> QED BY <3>1, <3>2 DEF PollFds
  <2>3. PICK f \in DOMAIN channels_ : f = pollfds_[i].fd /\ Chan(f).place = i - 1 /\ f >= 0
    BY <2>1, <2>2, FdOfSigned DEF EntryFound
  <2>4. EntryKnown(f) /\ EntryOf(f) = pollfds_[i]
    BY <1>1, <2>3 DEF PollInv, EntriesKnown, EntryOf
  <2>5. Chan(f).events # {} /\ Chan(f).events = pollfds_[i].events
    BY <2>2, <2>3, <2>4 DEF EntryKnown
  <2>6. f \in DOMAIN registered /\ registered[f] = [channel |-> c, events |-> pollfds_[i].events]
    BY <2>1, <2>3, <2>5 DEF PollInv, KernelKnown, IndexKnown
  <2> QED BY <2>1, <2>3, <2>6 DEF ActiveOfEpoll
<1>4. ASSUME NEW c \in ActiveOfEpoll(ready), c \notin again
      PROVE  c \in ActiveOfPoll(ready)
  <2>1. PICK f \in DOMAIN registered : Raised(ready, f, registered[f].events) /\ c = registered[f].channel
    BY <1>4 DEF ActiveOfEpoll
  <2>2. /\ f \in DOMAIN channels_ /\ Chan(f).index = kAdded
        /\ c = channels_[f] /\ registered[f].events = Chan(f).events
    BY <2>1 DEF PollInv, KernelKnown
  <2>3. Chan(f).events # {}
    BY <1>4, <2>2 DEF PollInv, KernelKnown, IndexKnown, kAdded, kDeleted
  <2>4. EntryKnown(f)
    BY <2>2 DEF PollInv, EntriesKnown
  <2>5. PICK i \in DOMAIN pollfds_ : i = Chan(f).place + 1
    BY <1>1, <2>4 DEF EntryKnown
  <2>6. /\ EntryOf(f) = pollfds_[i] /\ pollfds_[i] \in PollFds
        /\ ~(pollfds_[i].fd < 0) /\ pollfds_[i].events = Chan(f).events
        /\ FdOf(pollfds_[i].fd) = f
    BY <1>1, <1>4, <2>2, <2>3, <2>4, <2>5, ElementOfSeq DEF EntryKnown, EntryOf
  <2>7. pollfds_[i].fd >= 0 /\ pollfds_[i].fd = f
    BY <2>6, FdOfSigned DEF PollFds
  <2> QED BY <2>1, <2>2, <2>6, <2>7 DEF ActiveOfPoll
<1> QED BY <1>2, <1>3, <1>4

\* Both Pollers know every Channel for what it is and report the same ones, for
\* any number of Channels and descriptors and any order in which Channels are
\* constructed, updated, disabled and removed: epoll_ctl() never fails, the swap
\* with the last entry of pollfds_ never misplaces a Channel.
THEOREM PollersAreExact == PollSpec => []PollersExact
<1>1. PollInv => PollersExact
  <2>1. PollInv => CtlSucceeds
    BY DEF PollInv, PollType, CtlSucceeds
  <2> QED BY <2>1, PlacesFollow, ReportsFollow DEF PollersExact
<1>2. PollSpec => []PollInv
  BY PollInvInit, PollInvNext, PTL DEF PollSpec
<1> QED BY <1>1, <1>2, PTL

-----------------------------------------------------------------------------
(* The log files *)

LogLines == [id : Nat, at : Nat, shown : Nat]
LogMembers == [count_ : Nat, startOfPeriod_ : Int, lastRoll_ : Nat, lastFlush_ : Nat, file_ : Nat]
LogCaches == [t_lastSecond : Nat, t_time : Nat]

LogType ==
    /\ now \in Nat /\ back \in Nat
    /\ log \in LogMembers
    /\ files = [f \in DOMAIN files |-> files[f]]
    /\ \A f \in DOMAIN files : f \in Nat /\ files[f].lines \in Seq(LogLines)
    /\ unflushed \in Seq(LogLines) /\ lines \in Seq(LogLines)
    /\ cached \in [LogThreads -> LogCaches]

\* The file written to is the last one, and was begun when it was rolled to; a
\* check is due before count_ gets to checkEveryN_.
FileIsLast ==
    /\ log.file_ = log.lastRoll_ /\ log.file_ \in DOMAIN files
    /\ \A f \in DOMAIN files : f <= log.file_
    /\ log.startOfPeriod_ = Period(log.lastRoll_)
    /\ log.lastRoll_ <= log.lastFlush_
    /\ log.count_ < checkEveryN_

\* A line has its number, and the text of the time is that of the second cached.
LinesNumbered == \A i \in 1 .. Len(lines) : lines[i].id = i /\ lines[i].shown = lines[i].at
CachesRight == \A t \in LogThreads : cached[t].t_time = cached[t].t_lastSecond

\* The lines of a file that are of a day after the one p, and those of the
\* buffer that are later than m.
Late(s, p) == {i \in 1 .. Len(s) : Period(s[i].at) > p}
Later(s, m) == {i \in 1 .. Len(s) : s[i].at > m}

\* While the clock was not set back, nothing is of the future, and count_ covers
\* the lines of a later day in the last file and the lines that are overdue.
ClockRight ==
    /\ log.lastFlush_ <= now
    /\ \A i \in 1 .. Len(lines) : lines[i].at <= now
    /\ \A i \in 1 .. Len(unflushed) : unflushed[i].at <= now
    /\ \A f \in DOMAIN files :
         Cardinality(Late(files[f].lines, Period(f))) <= IF f = log.file_ THEN log.count_ ELSE checkEveryN_
    /\ Cardinality(Later(unflushed, log.lastFlush_ + flushInterval_)) <= log.count_

LogInv ==
    /\ LogType /\ FileIsLast /\ LinesNumbered /\ CachesRight /\ ReadsInOrder
    /\ back = 0 => ClockRight

\* Later seconds are of the same day or of later ones.
LEMMA PeriodMonotone ==
    ASSUME NEW a \in Nat, NEW b \in Nat, a <= b
    PROVE  Period(a) \in Int /\ Period(b) \in Int /\ Period(a) <= Period(b)
<1>1. PICK k \in Nat : k = kRollPerSeconds_ /\ k > 0
  BY LogConstants
<1>2. PICK p \in Int : p = a \div k
  BY <1>1
<1>3. PICK q \in Int : q = b \div k
  BY <1>1
<1>4. p * k <= a /\ a < p * k + k /\ q * k <= b /\ b < q * k + k
  BY <1>1, <1>2, <1>3
<1>5. p <= q
  <2> SUFFICES ASSUME q + 1 <= p PROVE FALSE
    OBVIOUS
  <2>1. (q + 1) * k <= p * k
    BY <1>1
  <2>2. (q + 1) * k = q * k + k
    BY <1>1
  <2>3. q * k \in Int /\ p * k \in Int
    BY <1>1
  <2> QED BY <1>4, <2>1, <2>2, <2>3, <1>1
<1>6. p * k <= q * k
  BY <1>1, <1>5
<1> QED BY <1>1, <1>2, <1>3, <1>6 DEF Period

\* One line more is at most one late line more, and none if it is not late.
LEMMA LateAppend ==
    ASSUME NEW s \in Seq(LogLines), NEW e \in LogLines, NEW p \in Int
    PROVE  /\ IsFiniteSet(Late(s, p)) /\ Cardinality(Late(s, p)) \in Nat
           /\ Cardinality(Late(Append(s, e), p)) \in Nat
           /\ Cardinality(Late(Append(s, e), p)) <= Cardinality(Late(s, p)) + 1
           /\ ~(Period(e.at) > p) => Late(Append(s, e), p) = Late(s, p)
<1>1. Len(s) \in Nat /\ Len(Append(s, e)) = Len(s) + 1
      /\ \A i \in 1 .. Len(s) : Append(s, e)[i] = s[i]
      /\ Append(s, e)[Len(s) + 1] = e
  BY LenProperties, AppendProperties
<1>2. IsFiniteSet(1 .. Len(s))
  BY <1>1, FS_Interval
<1>3. IsFiniteSet(Late(s, p))
  BY <1>2, FS_Subset DEF Late
<1>4. Late(Append(s, e), p) = IF Period(e.at) > p THEN Late(s, p) \cup {Len(s) + 1} ELSE Late(s, p)
  BY <1>1 DEF Late
<1>5. /\ IsFiniteSet(Late(s, p) \cup {Len(s) + 1})
      /\ Cardinality(Late(s, p) \cup {Len(s) + 1}) = Cardinality(Late(s, p)) + 1
  <2>1. Len(s) + 1 \notin Late(s, p)
    BY <1>1 DEF Late
  <2> QED BY <1>3, <2>1, FS_AddElement
<1>6. Cardinality(Late(s, p)) \in Nat
  BY <1>3, FS_CardinalityType
<1> QED BY <1>3, <1>4, <1>5, <1>6

\* The same for the lines in the buffer.
LEMMA LaterAppend ==
    ASSUME NEW s \in Seq(LogLines), NEW e \in LogLines, NEW m \in Int
    PROVE  /\ IsFiniteSet(Later(s, m)) /\ Cardinality(Later(s, m)) \in Nat
           /\ Cardinality(Later(Append(s, e), m)) \in Nat
           /\ Cardinality(Later(Append(s, e), m)) <= Cardinality(Later(s, m)) + 1
           /\ ~(e.at > m) => Later(Append(s, e), m) = Later(s, m)
<1>1. Len(s) \in Nat /\ Len(Append(s, e)) = Len(s) + 1
      /\ \A i \in 1 .. Len(s) : Append(s, e)[i] = s[i]
      /\ Append(s, e)[Len(s) + 1] = e
  BY LenProperties, AppendProperties
<1>2. IsFiniteSet(1 .. Len(s))
  BY <1>1, FS_Interval
<1>3. IsFiniteSet(Later(s, m))
  BY <1>2, FS_Subset DEF Later
<1>4. Later(Append(s, e), m) = IF e.at > m THEN Later(s, m) \cup {Len(s) + 1} ELSE Later(s, m)
  BY <1>1 DEF Later
<1>5. /\ IsFiniteSet(Later(s, m) \cup {Len(s) + 1})
      /\ Cardinality(Later(s, m) \cup {Len(s) + 1}) = Cardinality(Later(s, m)) + 1
  <2>1. Len(s) + 1 \notin Later(s, m)
    BY <1>1 DEF Later
  <2> QED BY <1>3, <2>1, FS_AddElement
<1>6. Cardinality(Later(s, m)) \in Nat
  BY <1>3, FS_CardinalityType
<1> QED BY <1>3, <1>4, <1>5, <1>6

\* The empty file and the empty buffer have none.
LEMMA NoneLate ==
    /\ \A p : Late(<<>>, p) = {} /\ Cardinality(Late(<<>>, p)) = 0
    /\ \A m : Later(<<>>, m) = {} /\ Cardinality(Later(<<>>, m)) = 0
<1>1. \A p : Late(<<>>, p) = {}
  BY DEF Late
<1>2. \A m : Later(<<>>, m) = {}
  BY DEF Later
<1> QED BY <1>1, <1>2, FS_EmptySet

\* LogFile's constructor.
LEMMA LogInvInit == LogInit => LogInv
<1> SUFFICES ASSUME LogInit PROVE LogInv
  OBVIOUS
<1>1. /\ now = 1 /\ back = 0 /\ lines = <<>> /\ unflushed = <<>>
      /\ log = [count_ |-> 0, startOfPeriod_ |-> Period(1), lastRoll_ |-> 1, lastFlush_ |-> 1, file_ |-> 1]
      /\ files = [f \in {1} |-> NewFile]
      /\ cached = [t \in LogThreads |-> [t_lastSecond |-> 0, t_time |-> 0]]
  BY DEF LogInit
<1>2. DOMAIN files = {1} /\ files[1].lines = <<>> /\ Len(<<>>) = 0 /\ DOMAIN <<>> = {}
  BY <1>1 DEF NewFile
<1>3. Period(1) \in Int
  BY PeriodMonotone
<1>4. <<>> \in Seq(LogLines)
  OBVIOUS
<1>5. LogType
  <2>1. log \in LogMembers
    BY <1>1, <1>3 DEF LogMembers
  <2>2. cached \in [LogThreads -> LogCaches]
    BY <1>1 DEF LogCaches
  <2>3. files = [f \in DOMAIN files |-> files[f]]
    BY <1>1
  <2>4. \A f \in DOMAIN files : f \in Nat /\ files[f].lines \in Seq(LogLines)
    <3>1. files[1].lines \in Seq(LogLines)
      BY ONLY <1>2, <1>4, Zenon
    <3>2. \A f \in DOMAIN files : f = 1
      BY <1>2
    <3> QED BY <3>1, <3>2
  <2> QED BY <1>1, <1>4, <2>1, <2>2, <2>3, <2>4 DEF LogType
<1>6. FileIsLast
  BY <1>1, <1>2, LogConstants DEF FileIsLast
<1>7. LinesNumbered /\ CachesRight
  BY <1>1, <1>2 DEF LinesNumbered, CachesRight
<1>8. ReadsInOrder
  BY <1>1, <1>2 DEF ReadsInOrder
<1>9. ClockRight
  BY <1>1, <1>2, NoneLate DEF ClockRight
<1> QED BY <1>5, <1>6, <1>7, <1>8, <1>9 DEF LogInv

\* What ReadsInOrder says, of any files and lines; files that are well formed.
InOrder(fs, ls) ==
    /\ \A f \in DOMAIN fs : \A k \in DOMAIN fs[f].lines :
         /\ fs[f].lines[k].id \in DOMAIN ls
         /\ fs[f].lines[k] = ls[fs[f].lines[k].id]
         /\ \A g \in DOMAIN fs : \A l \in DOMAIN fs[g].lines :
              ReadBefore(f, k, g, l) => fs[f].lines[k].id < fs[g].lines[l].id
    /\ \A i \in DOMAIN ls : \E f \in DOMAIN fs : \E k \in DOMAIN fs[f].lines : fs[f].lines[k].id = i
FilesOK(fs) ==
    /\ fs = [f \in DOMAIN fs |-> fs[f]]
    /\ \A f \in DOMAIN fs : f \in Nat /\ fs[f].lines \in Seq(LogLines)

\* The files after AppendFile::append to the file last.
AppendedTo(fs, last, line, len) == [fs EXCEPT ![last] = Written(fs[last], line, len)]

\* AppendFile::append adds one line at the end of one file.
LEMMA AppendedToProps ==
    ASSUME NEW fs, FilesOK(fs), NEW last \in DOMAIN fs, NEW line \in LogLines, NEW len
    PROVE  /\ FilesOK(AppendedTo(fs, last, line, len))
           /\ DOMAIN AppendedTo(fs, last, line, len) = DOMAIN fs
           /\ AppendedTo(fs, last, line, len)[last].lines = Append(fs[last].lines, line)
           /\ \A f \in DOMAIN fs : f # last => AppendedTo(fs, last, line, len)[f] = fs[f]
<1>1. fs = [f \in DOMAIN fs |-> fs[f]]
  BY DEF FilesOK
<1> DEFINE w == Written(fs[last], line, len)
<1>2. w.lines = Append(fs[last].lines, line) /\ w.lines \in Seq(LogLines)
  <2>1. fs[last].lines \in Seq(LogLines)
    BY DEF FilesOK
  <2> QED BY <2>1, AppendProperties DEF Written
<1> HIDE DEF w
<1>3. AppendedTo(fs, last, line, len) = [f \in DOMAIN fs |-> IF f = last THEN w ELSE fs[f]]
  BY <1>1 DEF AppendedTo, w
<1> QED BY <1>2, <1>3 DEF FilesOK

\* A line that is the last one logged may go to the end of the last file.
LEMMA AppendInOrder ==
    ASSUME NEW fs, FilesOK(fs), NEW last \in DOMAIN fs, \A f \in DOMAIN fs : f <= last,
           NEW ls \in Seq(LogLines), InOrder(fs, ls),
           NEW line \in LogLines, line.id = Len(ls) + 1, NEW len
    PROVE  InOrder(AppendedTo(fs, last, line, len), Append(ls, line))
<1>1. PICK gs : gs = AppendedTo(fs, last, line, len)
  OBVIOUS
<1>2. PICK ms : ms = Append(ls, line)
  OBVIOUS
<1>3. /\ DOMAIN gs = DOMAIN fs /\ gs[last].lines = Append(fs[last].lines, line)
      /\ \A f \in DOMAIN fs : f # last => gs[f] = fs[f]
  BY <1>1, AppendedToProps
<1>4. /\ \A f \in DOMAIN fs : f \in Nat /\ fs[f].lines \in Seq(LogLines)
      /\ \A f \in DOMAIN fs : Len(fs[f].lines) \in Nat /\ DOMAIN fs[f].lines = 1 .. Len(fs[f].lines)
  BY LenProperties DEF FilesOK
<1>5. PICK n \in Nat : n = Len(fs[last].lines)
  BY <1>4
<1>6. /\ DOMAIN gs[last].lines = 1 .. n + 1
      /\ \A k \in 1 .. n : gs[last].lines[k] = fs[last].lines[k]
      /\ gs[last].lines[n + 1] = line
  <2>1. Append(fs[last].lines, line) \in Seq(LogLines) /\ Len(Append(fs[last].lines, line)) = n + 1
    BY <1>4, <1>5, AppendProperties
  <2>2. DOMAIN Append(fs[last].lines, line) = 1 .. n + 1
    BY <2>1, LenProperties
  <2> QED BY <2>2, <1>3, <1>4, <1>5, AppendProperties
<1>7. PICK m \in Nat : m = Len(ls)
  BY LenProperties
<1>8. /\ DOMAIN ls = 1 .. m /\ DOMAIN ms = 1 .. m + 1
      /\ \A i \in 1 .. m : ms[i] = ls[i]
      /\ ms[m + 1] = line
  <2>1. Append(ls, line) \in Seq(LogLines) /\ Len(Append(ls, line)) = m + 1
    BY <1>7, AppendProperties
  <2>2. DOMAIN Append(ls, line) = 1 .. m + 1 /\ DOMAIN ls = 1 .. m
    BY <2>1, <1>7, LenProperties
  <2> QED BY <2>2, <1>2, <1>7, AppendProperties
<1>9. line.id = m + 1
  BY <1>7
\* A line of gs is one of fs, or the new one, in the place that is read last.
<1>10. \A f \in DOMAIN gs : \A k \in DOMAIN gs[f].lines :
         \/ /\ k \in DOMAIN fs[f].lines /\ gs[f].lines[k] = fs[f].lines[k]
            /\ gs[f].lines[k].id \in 1 .. m
            /\ gs[f].lines[k] = ls[gs[f].lines[k].id]
         \/ f = last /\ k = n + 1 /\ gs[f].lines[k] = line
  <2> SUFFICES ASSUME NEW f \in DOMAIN gs, NEW k \in DOMAIN gs[f].lines
               PROVE  \/ /\ k \in DOMAIN fs[f].lines /\ gs[f].lines[k] = fs[f].lines[k]
                         /\ gs[f].lines[k].id \in 1 .. m
                         /\ gs[f].lines[k] = ls[gs[f].lines[k].id]
                      \/ f = last /\ k = n + 1 /\ gs[f].lines[k] = line
    OBVIOUS
  <2>1. \/ k \in DOMAIN fs[f].lines /\ gs[f].lines[k] = fs[f].lines[k]
        \/ f = last /\ k = n + 1 /\ gs[f].lines[k] = line
    <3>1. CASE f = last
      BY <3>1, <1>4, <1>5, <1>6
    <3>2. CASE f # last
      BY <3>2, <1>3
    <3> QED BY <3>1, <3>2
  <2>2. f \in DOMAIN fs /\ \A j \in DOMAIN fs[f].lines : fs[f].lines[j].id \in DOMAIN ls /\ fs[f].lines[j] = ls[fs[f].lines[j].id]
    BY <1>3 DEF InOrder
  <2> QED BY <2>1, <2>2, <1>8
<1>11. ASSUME NEW f \in DOMAIN gs, NEW k \in DOMAIN gs[f].lines
       PROVE  gs[f].lines[k].id \in DOMAIN ms /\ gs[f].lines[k] = ms[gs[f].lines[k].id]
  <2>1. CASE f = last /\ k = n + 1 /\ gs[f].lines[k] = line
    BY <2>1, <1>8, <1>9
  <2>2. CASE /\ k \in DOMAIN fs[f].lines /\ gs[f].lines[k] = fs[f].lines[k]
             /\ gs[f].lines[k].id \in 1 .. m
             /\ gs[f].lines[k] = ls[gs[f].lines[k].id]
    BY <2>2, <1>8
  <2> QED BY <2>1, <2>2, <1>10
<1>12. ASSUME NEW f \in DOMAIN gs, NEW k \in DOMAIN gs[f].lines,
              NEW g \in DOMAIN gs, NEW l \in DOMAIN gs[g].lines, ReadBefore(f, k, g, l)
       PROVE  gs[f].lines[k].id < gs[g].lines[l].id
  <2>0. f \in Nat /\ g \in Nat /\ f <= last /\ g <= last /\ last \in Nat
    BY <1>3, <1>4
  <2>1. CASE /\ k \in DOMAIN fs[f].lines /\ gs[f].lines[k] = fs[f].lines[k]
             /\ gs[f].lines[k].id \in 1 .. m
    <3>1. CASE g = last /\ l = n + 1 /\ gs[g].lines[l] = line
      BY <2>1, <3>1, <1>9
    <3>2. CASE l \in DOMAIN fs[g].lines /\ gs[g].lines[l] = fs[g].lines[l]
      <4>1. fs[f].lines[k].id < fs[g].lines[l].id
        BY <2>1, <3>2, <1>3, <1>12 DEF InOrder
      <4> QED BY <2>1, <3>2, <4>1
    <3> QED BY <3>1, <3>2, <1>10
  <2>2. CASE f = last /\ k = n + 1
    <3>1. g = last /\ n + 1 < l
      BY <2>0, <2>2, <1>12 DEF ReadBefore
    <3>2. l \in 1 .. n + 1
      BY <3>1, <1>6
    <3> QED BY <3>1, <3>2
  <2> QED BY <2>1, <2>2, <1>10
<1>13. ASSUME NEW i \in DOMAIN ms
       PROVE  \E f \in DOMAIN gs : \E k \in DOMAIN gs[f].lines : gs[f].lines[k].id = i
  <2>1. CASE i = m + 1
    <3>1. last \in DOMAIN gs /\ n + 1 \in DOMAIN gs[last].lines /\ gs[last].lines[n + 1].id = i
      BY <2>1, <1>3, <1>6, <1>9
    <3> QED BY <3>1
  <2>2. CASE i # m + 1
    <3>1. i \in DOMAIN ls
      BY <2>2, <1>8
    <3>2. PICK f \in DOMAIN fs : \E k \in DOMAIN fs[f].lines : fs[f].lines[k].id = i
      BY <3>1 DEF InOrder
    <3>a. PICK k \in DOMAIN fs[f].lines : fs[f].lines[k].id = i
      BY <3>2
    <3>3. k \in DOMAIN gs[f].lines /\ gs[f].lines[k] = fs[f].lines[k]
      <4>1. CASE f = last
        BY <4>1, <3>a, <1>4, <1>5, <1>6
      <4>2. CASE f # last
        BY <4>2, <3>a, <1>3
      <4> QED BY <4>1, <4>2
    <3> QED BY <3>a, <3>3, <1>3
  <2> QED BY <2>1, <2>2
<1>14. InOrder(gs, ms)
  BY <1>11, <1>12, <1>13 DEF InOrder
<1> QED BY <1>1, <1>2, <1>14

\* An empty file more changes nothing.
LEMMA OpenedProps ==
    ASSUME NEW fs, FilesOK(fs), now \in Nat, now \notin DOMAIN fs
    PROVE  /\ FilesOK(Opened(fs)) /\ DOMAIN Opened(fs) = DOMAIN fs \cup {now}
           /\ Opened(fs)[now].lines = <<>>
           /\ \A f \in DOMAIN fs : Opened(fs)[f] = fs[f]
           /\ \A ls : InOrder(fs, ls) => InOrder(Opened(fs), ls)
<1>1. PICK gs : gs = Opened(fs)
  OBVIOUS
<1>2. /\ DOMAIN gs = DOMAIN fs \cup {now} /\ gs[now] = NewFile
      /\ \A f \in DOMAIN fs : gs[f] = fs[f]
      /\ gs = [f \in DOMAIN gs |-> gs[f]]
  BY <1>1 DEF Opened
<1>3. gs[now].lines = <<>> /\ gs[now].lines \in Seq(LogLines) /\ DOMAIN gs[now].lines = {}
  BY <1>2 DEF NewFile
<1>4. FilesOK(gs)
  BY <1>2, <1>3 DEF FilesOK
<1>5. ASSUME NEW ls, InOrder(fs, ls) PROVE InOrder(gs, ls)
  <2>1. \A f \in DOMAIN gs : \A k \in DOMAIN gs[f].lines : f \in DOMAIN fs /\ gs[f] = fs[f]
    BY <1>2, <1>3
  <2>2. ASSUME NEW f \in DOMAIN gs, NEW k \in DOMAIN gs[f].lines
        PROVE  /\ gs[f].lines[k].id \in DOMAIN ls
               /\ gs[f].lines[k] = ls[gs[f].lines[k].id]
               /\ \A g \in DOMAIN gs : \A l \in DOMAIN gs[g].lines :
                    ReadBefore(f, k, g, l) => gs[f].lines[k].id < gs[g].lines[l].id
    <3>1. f \in DOMAIN fs /\ gs[f] = fs[f] /\ k \in DOMAIN fs[f].lines
      BY <2>1
    <3>2. ASSUME NEW g \in DOMAIN gs, NEW l \in DOMAIN gs[g].lines, ReadBefore(f, k, g, l)
          PROVE  gs[f].lines[k].id < gs[g].lines[l].id
      <4>1. g \in DOMAIN fs /\ gs[g] = fs[g] /\ l \in DOMAIN fs[g].lines
        BY <2>1
      <4> QED BY <1>5, <3>1, <3>2, <4>1 DEF InOrder
    <3> QED BY <1>5, <3>1, <3>2 DEF InOrder
  <2>3. \A i \in DOMAIN ls : \E f \in DOMAIN gs : \E k \in DOMAIN gs[f].lines : gs[f].lines[k].id = i
    BY <1>2, <1>5 DEF InOrder
  <2> QED BY <2>2, <2>3 DEF InOrder
<1> QED BY <1>1, <1>2, <1>3, <1>4, <1>5

\* What append_unlocked does to the files, the buffer and the members: it rolls,
\* or goes on with the file and leaves count_ and lastFlush_ in one of five ways.
LEMMA AppendLineCases ==
    ASSUME LogInv, NEW line \in LogLines, NEW len, appendLine(line, len)
    PROVE  \E fs : /\ fs = AppendedTo(files, log.file_, line, len)
                   /\ \/ /\ now > log.lastRoll_ /\ files' = Opened(fs) /\ unflushed' = <<>>
                         /\ \E c \in {0, log.count_} :
                              log' = [count_ |-> c, startOfPeriod_ |-> Period(now), lastRoll_ |-> now,
                                      lastFlush_ |-> now, file_ |-> now]
                      \/ /\ files' = fs
                         /\ \/ /\ ~(now > log.lastRoll_) /\ unflushed' = Append(unflushed, line)
                               /\ \E c \in {0, log.count_} : log' = [log EXCEPT !.count_ = c]
                            \/ /\ CheckDue /\ Period(now) = log.startOfPeriod_ /\ FlushDue
                               /\ unflushed' = <<>>
                               /\ log' = [log EXCEPT !.count_ = 0, !.lastFlush_ = now]
                            \/ /\ CheckDue /\ Period(now) = log.startOfPeriod_ /\ ~FlushDue
                               /\ unflushed' = Append(unflushed, line)
                               /\ log' = [log EXCEPT !.count_ = 0]
                            \/ /\ ~CheckDue /\ unflushed' = Append(unflushed, line)
                               /\ log' = [log EXCEPT !.count_ = @ + 1]
<1> DEFINE f == Written(files[log.file_], line, len)
           fs == [files EXCEPT ![log.file_] = f]
           more == Append(unflushed, line)
<1>1. fs = AppendedTo(files, log.file_, line, len)
  BY DEF AppendedTo
<1>2. CASE TooLarge(f.written)
  <2>1. Rolled(fs, log.count_) /\ (MayRoll \/ unflushed' = more)
    BY <1>2 DEF appendLine
  <2> HIDE DEF fs, f, more
  <2> QED BY <1>1, <2>1 DEF Rolled, MayRoll, more
<1>3. CASE ~TooLarge(f.written) /\ CheckDue /\ Period(now) # log.startOfPeriod_
  <2>1. Rolled(fs, 0) /\ (MayRoll \/ unflushed' = more)
    BY <1>3 DEF appendLine
  <2> HIDE DEF fs, f, more
  <2> QED BY <1>1, <2>1 DEF Rolled, MayRoll, more
<1>4. CASE ~TooLarge(f.written) /\ ~(CheckDue /\ Period(now) # log.startOfPeriod_)
  <2>1. /\ files' = fs
        /\ IF CheckDue /\ FlushDue
           THEN log' = [log EXCEPT !.count_ = 0, !.lastFlush_ = now] /\ unflushed' = <<>>
           ELSE /\ log' = [log EXCEPT !.count_ = IF CheckDue THEN 0 ELSE @ + 1]
                /\ unflushed' = more
    BY <1>4 DEF appendLine
  <2> HIDE DEF fs, f
  <2>2. CASE CheckDue /\ FlushDue
    BY <1>1, <1>4, <2>1, <2>2
  <2>3. CASE CheckDue /\ ~FlushDue
    BY <1>1, <1>4, <2>1, <2>3
  <2>4. CASE ~CheckDue
    BY <1>1, <1>4, <2>1, <2>4
  <2> QED BY <2>2, <2>3, <2>4
<1> QED BY <1>2, <1>3, <1>4

\* append_unlocked keeps the lines in order, whether it rolls or not, and count_
\* covers what it leaves to the next check.
LEMMA AppendLineInv ==
    ASSUME LogInv, NEW line \in LogLines, line.id = Len(lines) + 1, line.at = now, line.shown = now,
           NEW len, appendLine(line, len), lines' = Append(lines, line), now' = now, back' = back,
           cached' \in [LogThreads -> LogCaches], CachesRight'
    PROVE  LogInv'
<1>1. /\ now \in Nat /\ back \in Nat /\ log \in LogMembers /\ FilesOK(files)
      /\ unflushed \in Seq(LogLines) /\ lines \in Seq(LogLines) /\ InOrder(files, lines)
  BY DEF LogInv, LogType, FilesOK, ReadsInOrder, InOrder
<1>2. /\ log.file_ = log.lastRoll_ /\ log.file_ \in DOMAIN files
      /\ \A f \in DOMAIN files : f <= log.file_
      /\ log.startOfPeriod_ = Period(log.lastRoll_)
      /\ log.lastRoll_ <= log.lastFlush_
      /\ log.count_ < checkEveryN_
  BY DEF LogInv, FileIsLast
<1>3. /\ log.count_ \in Nat /\ log.lastRoll_ \in Nat /\ log.lastFlush_ \in Nat /\ log.file_ \in Nat
      /\ checkEveryN_ \in Nat /\ checkEveryN_ > 0 /\ flushInterval_ \in Nat
      /\ log.startOfPeriod_ \in Int
  BY <1>1, LogConstants DEF LogMembers
<1>4. PICK fs :
         /\ fs = AppendedTo(files, log.file_, line, len)
         /\ \/ /\ now > log.lastRoll_ /\ files' = Opened(fs) /\ unflushed' = <<>>
               /\ \E c \in {0, log.count_} :
                    log' = [count_ |-> c, startOfPeriod_ |-> Period(now), lastRoll_ |-> now,
                            lastFlush_ |-> now, file_ |-> now]
            \/ /\ files' = fs
               /\ \/ /\ ~(now > log.lastRoll_) /\ unflushed' = Append(unflushed, line)
                     /\ \E c \in {0, log.count_} : log' = [log EXCEPT !.count_ = c]
                  \/ /\ CheckDue /\ Period(now) = log.startOfPeriod_ /\ FlushDue
                     /\ unflushed' = <<>>
                     /\ log' = [log EXCEPT !.count_ = 0, !.lastFlush_ = now]
                  \/ /\ CheckDue /\ Period(now) = log.startOfPeriod_ /\ ~FlushDue
                     /\ unflushed' = Append(unflushed, line)
                     /\ log' = [log EXCEPT !.count_ = 0]
                  \/ /\ ~CheckDue /\ unflushed' = Append(unflushed, line)
                     /\ log' = [log EXCEPT !.count_ = @ + 1]
  BY AppendLineCases
<1>5. /\ FilesOK(fs) /\ DOMAIN fs = DOMAIN files
      /\ fs[log.file_].lines = Append(files[log.file_].lines, line)
      /\ \A f \in DOMAIN files : f # log.file_ => fs[f] = files[f]
  BY <1>1, <1>2, <1>4, AppendedToProps
<1>6. InOrder(fs, lines')
  BY <1>1, <1>2, <1>4, AppendInOrder
<1>7. /\ lines' \in Seq(LogLines) /\ Len(lines) \in Nat /\ Len(lines') = Len(lines) + 1
      /\ \A i \in 1 .. Len(lines) : lines'[i] = lines[i]
      /\ lines'[Len(lines) + 1] = line
  BY <1>1, LenProperties, AppendProperties
<1>8. LinesNumbered'
  <2> SUFFICES ASSUME NEW i \in 1 .. Len(lines') PROVE lines'[i].id = i /\ lines'[i].shown = lines'[i].at
    BY DEF LinesNumbered
  <2>1. CASE i = Len(lines) + 1
    BY <2>1, <1>7
  <2>2. CASE i # Len(lines) + 1
    BY <2>2, <1>7 DEF LogInv, LinesNumbered
  <2> QED BY <2>1, <2>2
\* What holds of the lines and of the lines late, if the clock was not set back.
<1>9. back = 0 => ClockRight
  BY DEF LogInv
<1>10. ASSUME back = 0
       PROVE  /\ \A i \in 1 .. Len(lines') : lines'[i].at <= now
              /\ \A f \in DOMAIN fs : \A k \in 1 .. Len(fs[f].lines) : fs[f].lines[k].at \in Nat /\ fs[f].lines[k].at <= now
  <2>1. \A i \in 1 .. Len(lines') : lines'[i].at <= now
    <3> SUFFICES ASSUME NEW i \in 1 .. Len(lines') PROVE lines'[i].at <= now
      OBVIOUS
    <3>1. CASE i = Len(lines) + 1
      BY <3>1, <1>1, <1>7
    <3>2. CASE i # Len(lines) + 1
      BY <3>2, <1>7, <1>9, <1>10 DEF ClockRight
    <3> QED BY <3>1, <3>2
  <2>2. ASSUME NEW f \in DOMAIN fs, NEW k \in 1 .. Len(fs[f].lines)
        PROVE  fs[f].lines[k].at \in Nat /\ fs[f].lines[k].at <= now
    <3>1. fs[f].lines \in Seq(LogLines) /\ k \in DOMAIN fs[f].lines
      BY <1>5, LenProperties DEF FilesOK
    <3>2. fs[f].lines[k] \in LogLines
      BY <3>1, ElementOfSeq
    <3>3. fs[f].lines[k].id \in DOMAIN lines' /\ fs[f].lines[k] = lines'[fs[f].lines[k].id]
      BY <3>1, <1>6 DEF InOrder
    <3>4. fs[f].lines[k].id \in 1 .. Len(lines')
      BY <3>3, <1>7, LenProperties
    <3> QED BY <2>1, <3>2, <3>3, <3>4 DEF LogLines
  <2> QED BY <2>1, <2>2
<1>11. Period(now) \in Int /\ Period(log.file_) \in Int
  BY <1>1, <1>3, PeriodMonotone
<1>12. ASSUME back = 0
       PROVE  /\ \A f \in DOMAIN fs : f # log.file_ => Cardinality(Late(fs[f].lines, Period(f))) <= checkEveryN_
              /\ Cardinality(Late(fs[log.file_].lines, Period(log.file_))) \in Nat
              /\ Cardinality(Late(fs[log.file_].lines, Period(log.file_))) <= log.count_ + 1
              /\ Period(now) <= Period(log.file_) => Cardinality(Late(fs[log.file_].lines, Period(log.file_))) = 0
  <2>1. ClockRight /\ Cardinality(Late(files[log.file_].lines, Period(log.file_))) <= log.count_
    BY <1>2, <1>9, <1>12 DEF ClockRight
  <2>2. files[log.file_].lines \in Seq(LogLines)
    BY <1>1, <1>2 DEF FilesOK
  <2>3. /\ Cardinality(Late(files[log.file_].lines, Period(log.file_))) \in Nat
        /\ Cardinality(Late(fs[log.file_].lines, Period(log.file_))) \in Nat
        /\ Cardinality(Late(fs[log.file_].lines, Period(log.file_)))
             <= Cardinality(Late(files[log.file_].lines, Period(log.file_))) + 1
    BY <2>2, <1>5, <1>11, LateAppend
  <2>4. \A f \in DOMAIN fs : f # log.file_ => Cardinality(Late(fs[f].lines, Period(f))) <= checkEveryN_
    BY <2>1, <1>5 DEF ClockRight
  <2>5. ASSUME Period(now) <= Period(log.file_)
        PROVE  Cardinality(Late(fs[log.file_].lines, Period(log.file_))) = 0
    <3>1. ASSUME NEW k \in 1 .. Len(fs[log.file_].lines)
          PROVE  ~(Period(fs[log.file_].lines[k].at) > Period(log.file_))
      <4>1. fs[log.file_].lines[k].at \in Nat /\ fs[log.file_].lines[k].at <= now
        BY <1>2, <1>5, <1>10, <1>12
      <4>2. /\ Period(fs[log.file_].lines[k].at) \in Int
            /\ Period(fs[log.file_].lines[k].at) <= Period(now)
        BY <4>1, <1>1, PeriodMonotone
      <4> QED BY <4>2, <2>5, <1>11
    <3>2. Late(fs[log.file_].lines, Period(log.file_)) = {}
      BY <3>1 DEF Late
    <3> QED BY <3>2, FS_EmptySet
  <2> QED BY <2>1, <2>3, <2>4, <2>5, <1>3
<1>13. ASSUME back = 0
       PROVE  /\ log.lastFlush_ <= now
              /\ \A i \in 1 .. Len(unflushed) : unflushed[i].at <= now
              /\ \A i \in 1 .. Len(Append(unflushed, line)) : Append(unflushed, line)[i].at <= now
              /\ Cardinality(Later(Append(unflushed, line), log.lastFlush_ + flushInterval_)) \in Nat
              /\ Cardinality(Later(Append(unflushed, line), log.lastFlush_ + flushInterval_)) <= log.count_ + 1
              /\ now <= log.lastFlush_ + flushInterval_ =>
                   Cardinality(Later(Append(unflushed, line), log.lastFlush_ + flushInterval_)) = 0
  <2>1. /\ log.lastFlush_ <= now /\ \A i \in 1 .. Len(unflushed) : unflushed[i].at <= now
        /\ Cardinality(Later(unflushed, log.lastFlush_ + flushInterval_)) <= log.count_
    BY <1>9, <1>13 DEF ClockRight
  <2>2. PICK m \in Int : m = log.lastFlush_ + flushInterval_
    BY <1>3
  <2>3. /\ Cardinality(Later(unflushed, m)) \in Nat
        /\ Cardinality(Later(Append(unflushed, line), m)) \in Nat
        /\ Cardinality(Later(Append(unflushed, line), m)) <= Cardinality(Later(unflushed, m)) + 1
    BY <1>1, LaterAppend
  <2>4. \A i \in 1 .. Len(Append(unflushed, line)) :
          Append(unflushed, line)[i].at \in Nat /\ Append(unflushed, line)[i].at <= now
    <3>1. /\ Len(unflushed) \in Nat /\ Len(Append(unflushed, line)) = Len(unflushed) + 1
          /\ \A i \in 1 .. Len(unflushed) : Append(unflushed, line)[i] = unflushed[i]
          /\ Append(unflushed, line)[Len(unflushed) + 1] = line
      BY <1>1, LenProperties, AppendProperties
    <3>2. \A i \in 1 .. Len(unflushed) : unflushed[i] \in LogLines
      BY <1>1, ElementOfSeq
    <3>3. \A i \in 1 .. Len(unflushed) : unflushed[i].at \in Nat
      BY <3>2 DEF LogLines
    <3> SUFFICES ASSUME NEW i \in 1 .. Len(unflushed) + 1
                 PROVE  Append(unflushed, line)[i].at \in Nat /\ Append(unflushed, line)[i].at <= now
      BY <3>1
    <3>4. CASE i = Len(unflushed) + 1
      BY <3>1, <3>4, <1>1
    <3>5. CASE i # Len(unflushed) + 1
      BY <2>1, <3>1, <3>3, <3>5
    <3> QED BY <3>4, <3>5
  <2>5. ASSUME now <= m PROVE Cardinality(Later(Append(unflushed, line), m)) = 0
    <3>1. Later(Append(unflushed, line), m) = {}
      BY <2>4, <2>5, <1>1 DEF Later
    <3> QED BY <3>1, FS_EmptySet
  <2>6. Cardinality(Later(Append(unflushed, line), m)) <= log.count_ + 1
    BY <2>1, <2>2, <2>3, <1>3
  <2> QED BY <2>1, <2>2, <2>3, <2>4, <2>5, <2>6
\* It rolls: the file now is a new one, after all others.
<1>14. CASE /\ now > log.lastRoll_ /\ files' = Opened(fs) /\ unflushed' = <<>>
            /\ \E c \in {0, log.count_} :
                 log' = [count_ |-> c, startOfPeriod_ |-> Period(now), lastRoll_ |-> now,
                         lastFlush_ |-> now, file_ |-> now]
  <2>1. PICK c \in {0, log.count_} :
          log' = [count_ |-> c, startOfPeriod_ |-> Period(now), lastRoll_ |-> now,
                  lastFlush_ |-> now, file_ |-> now]
    BY <1>14
  <2>2. /\ log'.count_ = c /\ log'.startOfPeriod_ = Period(now) /\ log'.lastRoll_ = now
        /\ log'.lastFlush_ = now /\ log'.file_ = now /\ c \in Nat /\ c < checkEveryN_
        /\ log' \in LogMembers
    BY <2>1, <1>1, <1>2, <1>3, <1>11 DEF LogMembers
  <2>3. now \notin DOMAIN fs /\ \A f \in DOMAIN fs : f \in Nat /\ f <= now /\ f # now
    BY <1>1, <1>2, <1>3, <1>5, <1>14 DEF FilesOK
  <2>4. /\ FilesOK(files') /\ DOMAIN files' = DOMAIN fs \cup {now}
        /\ files'[now].lines = <<>>
        /\ \A f \in DOMAIN fs : files'[f] = fs[f]
        /\ InOrder(files', lines')
    BY <2>3, <1>1, <1>5, <1>6, <1>14, OpenedProps
  <2>5. LogType'
    <3>1. unflushed' \in Seq(LogLines)
      BY <1>14
    <3> QED BY <2>2, <2>4, <3>1, <1>1, <1>7 DEF LogType, FilesOK
  <2>6. FileIsLast'
    BY <2>2, <2>3, <2>4, <1>1 DEF FileIsLast, Period
  <2>7. ReadsInOrder'
    BY <2>4 DEF ReadsInOrder, InOrder
  <2>8. ASSUME back = 0 PROVE ClockRight'
    <3>1. \A i \in 1 .. Len(unflushed') : unflushed'[i].at <= now
      BY <1>14
    <3>2. Cardinality(Later(unflushed', now + flushInterval_)) = 0
      BY <1>14, NoneLate
    <3>3. ASSUME NEW f \in DOMAIN files'
          PROVE  Cardinality(Late(files'[f].lines, Period(f))) <= IF f = now THEN c ELSE checkEveryN_
      <4>1. CASE f = now
        <5>1. Cardinality(Late(files'[f].lines, Period(f))) = 0
          BY <4>1, <2>4, NoneLate
        <5> QED BY <4>1, <5>1, <2>2
      <4>2. CASE f # now /\ f # log.file_
        BY <4>2, <2>4, <2>8, <1>12
      <4>3. CASE f # now /\ f = log.file_
        <5>1. files'[f] = fs[log.file_]
          BY <4>3, <2>4
        <5> QED BY <4>3, <5>1, <2>8, <1>2, <1>3, <1>12
      <4> QED BY <4>1, <4>2, <4>3
    <3>4. now <= now
      BY <1>1
    <3> QED BY <2>2, <2>8, <3>1, <3>2, <3>3, <3>4, <1>10 DEF ClockRight, Period, Late, Later
  <2> QED BY <2>5, <2>6, <2>7, <2>8, <1>8 DEF LogInv
\* It goes on with the file.
<1>15. CASE /\ files' = fs
            /\ \/ /\ ~(now > log.lastRoll_) /\ unflushed' = Append(unflushed, line)
                  /\ \E c \in {0, log.count_} : log' = [log EXCEPT !.count_ = c]
               \/ /\ CheckDue /\ Period(now) = log.startOfPeriod_ /\ FlushDue
                  /\ unflushed' = <<>>
                  /\ log' = [log EXCEPT !.count_ = 0, !.lastFlush_ = now]
               \/ /\ CheckDue /\ Period(now) = log.startOfPeriod_ /\ ~FlushDue
                  /\ unflushed' = Append(unflushed, line)
                  /\ log' = [log EXCEPT !.count_ = 0]
               \/ /\ ~CheckDue /\ unflushed' = Append(unflushed, line)
                  /\ log' = [log EXCEPT !.count_ = @ + 1]
  <2>1. PICK c \in Nat, l \in Nat :
          /\ log' = [log EXCEPT !.count_ = c, !.lastFlush_ = l]
          /\ c < checkEveryN_ /\ log.lastRoll_ <= l /\ (l = log.lastFlush_ \/ l = now)
          /\ back = 0 => Cardinality(Late(fs[log.file_].lines, Period(log.file_))) <= c
          /\ back = 0 => \/ unflushed' = <<>>
                         \/ /\ unflushed' = Append(unflushed, line) /\ l = log.lastFlush_
                            /\ Cardinality(Later(unflushed', l + flushInterval_)) <= c
          /\ unflushed' \in Seq(LogLines)
    <3>0. /\ Append(unflushed, line) \in Seq(LogLines) /\ <<>> \in Seq(LogLines)
          /\ \A c : [log EXCEPT !.count_ = c] = [log EXCEPT !.count_ = c, !.lastFlush_ = log.lastFlush_]
      <4>1. Append(unflushed, line) \in Seq(LogLines) /\ <<>> \in Seq(LogLines)
        BY <1>1, AppendProperties
      <4>2. \A c : [log EXCEPT !.count_ = c] = [log EXCEPT !.count_ = c, !.lastFlush_ = log.lastFlush_]
        BY <1>1 DEF LogMembers
      <4> QED BY <4>1, <4>2
    <3>1. ASSUME ~(now > log.lastRoll_), unflushed' = Append(unflushed, line),
                 NEW c \in {0, log.count_}, log' = [log EXCEPT !.count_ = c]
          PROVE  /\ c \in Nat /\ c < checkEveryN_
                 /\ back = 0 => Cardinality(Late(fs[log.file_].lines, Period(log.file_))) <= c
                 /\ back = 0 => Cardinality(Later(unflushed', log.lastFlush_ + flushInterval_)) <= c
      <4>1. Period(now) <= Period(log.file_) /\ now <= log.lastFlush_ + flushInterval_
        <5>1. now <= log.file_
          BY <3>1, <1>1, <1>2, <1>3
        <5>2. Period(now) <= Period(log.file_)
          BY <5>1, <1>1, <1>3, PeriodMonotone
        <5> QED BY <5>1, <5>2, <1>1, <1>2, <1>3
      <4>2. c \in Nat /\ c < checkEveryN_
        BY <3>1, <1>2, <1>3
      <4> QED BY <3>1, <4>1, <4>2, <1>12, <1>13
    <3>2. ASSUME CheckDue, Period(now) = log.startOfPeriod_
          PROVE  back = 0 => Cardinality(Late(fs[log.file_].lines, Period(log.file_))) <= 0
      <4>1. Period(now) <= Period(log.file_)
        BY <3>2, <1>2, <1>11
      <4> QED BY <4>1, <1>12
    <3>3. CASE /\ ~(now > log.lastRoll_) /\ unflushed' = Append(unflushed, line)
               /\ \E c \in {0, log.count_} : log' = [log EXCEPT !.count_ = c]
      <4>1. PICK c \in {0, log.count_} : log' = [log EXCEPT !.count_ = c]
        BY <3>3
      <4>2. log' = [log EXCEPT !.count_ = c, !.lastFlush_ = log.lastFlush_]
        BY <4>1, <3>0
      <4>3. /\ c \in Nat /\ c < checkEveryN_
            /\ back = 0 => Cardinality(Late(fs[log.file_].lines, Period(log.file_))) <= c
            /\ back = 0 => Cardinality(Later(unflushed', log.lastFlush_ + flushInterval_)) <= c
        BY <3>1, <3>3, <4>1
      <4>4. unflushed' \in Seq(LogLines) /\ unflushed' = Append(unflushed, line)
        BY <3>0, <3>3
      <4> QED BY <4>2, <4>3, <4>4, <1>2, <1>3
    <3>4. CASE /\ CheckDue /\ Period(now) = log.startOfPeriod_ /\ FlushDue
               /\ unflushed' = <<>>
               /\ log' = [log EXCEPT !.count_ = 0, !.lastFlush_ = now]
      <4>1. log.lastRoll_ <= now
        BY <3>4, <1>1, <1>2, <1>3 DEF FlushDue
      <4>2. back = 0 => Cardinality(Late(fs[log.file_].lines, Period(log.file_))) <= 0
        BY <3>2, <3>4
      <4>3. unflushed' = <<>> /\ unflushed' \in Seq(LogLines)
        BY <3>0, <3>4
      <4>4. 0 \in Nat /\ 0 < checkEveryN_ /\ now \in Nat
        BY <1>1, <1>3
      <4> QED BY <3>4, <4>1, <4>2, <4>3, <4>4
    <3>5. CASE /\ CheckDue /\ Period(now) = log.startOfPeriod_ /\ ~FlushDue
               /\ unflushed' = Append(unflushed, line)
               /\ log' = [log EXCEPT !.count_ = 0]
      <4>1. now <= log.lastFlush_ + flushInterval_
        BY <3>5, <1>1, <1>3 DEF FlushDue
      <4>2. /\ back = 0 => Cardinality(Late(fs[log.file_].lines, Period(log.file_))) <= 0
            /\ back = 0 => Cardinality(Later(unflushed', log.lastFlush_ + flushInterval_)) <= 0
        BY <3>2, <3>5, <4>1, <1>13
      <4>3. log' = [log EXCEPT !.count_ = 0, !.lastFlush_ = log.lastFlush_]
        BY <3>0, <3>5
      <4>4. 0 \in Nat /\ 0 < checkEveryN_ /\ unflushed' \in Seq(LogLines)
        BY <3>0, <3>5, <1>3
      <4> QED BY <3>5, <4>2, <4>3, <4>4, <1>2, <1>3
    <3>6. CASE /\ ~CheckDue /\ unflushed' = Append(unflushed, line)
               /\ log' = [log EXCEPT !.count_ = @ + 1]
      <4>1. log.count_ + 1 \in Nat /\ log.count_ + 1 < checkEveryN_
        BY <3>6, <1>3 DEF CheckDue
      <4>2. log' = [log EXCEPT !.count_ = log.count_ + 1, !.lastFlush_ = log.lastFlush_]
        BY <3>0, <3>6, <1>1 DEF LogMembers
      <4>3. /\ back = 0 => Cardinality(Late(fs[log.file_].lines, Period(log.file_))) <= log.count_ + 1
            /\ back = 0 => Cardinality(Later(unflushed', log.lastFlush_ + flushInterval_)) <= log.count_ + 1
        BY <3>6, <1>12, <1>13
      <4>4. unflushed' \in Seq(LogLines) /\ unflushed' = Append(unflushed, line)
        BY <3>0, <3>6
      <4> QED BY <4>1, <4>2, <4>3, <4>4, <1>2, <1>3
    <3> QED BY <1>15, <3>3, <3>4, <3>5, <3>6
  <2>2. /\ log'.count_ = c /\ log'.startOfPeriod_ = log.startOfPeriod_ /\ log'.lastRoll_ = log.lastRoll_
        /\ log'.lastFlush_ = l /\ log'.file_ = log.file_ /\ log' \in LogMembers
    BY <2>1, <1>1 DEF LogMembers
  <2>3. FilesOK(files') /\ DOMAIN files' = DOMAIN files /\ InOrder(files', lines') /\ files' = fs
    BY <1>5, <1>6, <1>15
  <2>4. LogType'
    BY <2>1, <2>2, <2>3, <1>1, <1>7 DEF LogType, FilesOK
  <2>5. FileIsLast'
    <3>1. Period(log.lastRoll_)' = Period(log.lastRoll_)
      BY <2>2 DEF Period
    <3> QED BY <2>1, <2>2, <2>3, <3>1, <1>2 DEF FileIsLast
  <2>6. ReadsInOrder'
    BY <2>3 DEF ReadsInOrder, InOrder
  <2>7. ASSUME back = 0 PROVE ClockRight'
    <3>1. \A i \in 1 .. Len(unflushed') : unflushed'[i].at <= now
      <4>1. CASE unflushed' = <<>>
        BY <4>1
      <4>2. CASE unflushed' = Append(unflushed, line)
        BY <4>2, <2>7, <1>13
      <4> QED BY <2>1, <2>7, <4>1, <4>2
    <3>2. Cardinality(Later(unflushed', l + flushInterval_)) <= c
      <4>1. CASE unflushed' = <<>>
        <5>1. Cardinality(Later(unflushed', l + flushInterval_)) = 0
          BY <4>1, NoneLate
        <5> QED BY <5>1
      <4> QED BY <2>1, <2>7, <4>1
    <3>3. ASSUME NEW f \in DOMAIN files'
          PROVE  Cardinality(Late(files'[f].lines, Period(f))) <= IF f = log.file_ THEN c ELSE checkEveryN_
      <4>1. CASE f = log.file_
        BY <4>1, <2>1, <2>3, <2>7
      <4>2. CASE f # log.file_
        BY <4>2, <2>3, <2>7, <1>12
      <4> QED BY <4>1, <4>2
    <3>4. l <= now
      BY <2>1, <2>7, <1>1, <1>13
    <3> QED BY <2>2, <2>7, <3>1, <3>2, <3>3, <3>4, <1>10 DEF ClockRight, Period, Late, Later
  <2> QED BY <2>4, <2>5, <2>6, <2>7, <1>8 DEF LogInv
<1> QED BY <1>4, <1>14, <1>15

\* A Logger: formatTime() shows the second of the line, then append().
LEMMA LogLineInv ==
    ASSUME LogInv, NEW t \in LogThreads, LogLine(t)
    PROVE  LogInv'
<1>1. now \in Nat /\ cached \in [LogThreads -> LogCaches] /\ lines \in Seq(LogLines) /\ Len(lines) \in Nat
  BY LenProperties DEF LogInv, LogType
<1>2. cached' = [cached EXCEPT ![t] = Cache(cached[t])]
  BY DEF LogLine
<1>3. Cache(cached[t]) = [t_lastSecond |-> now, t_time |-> now]
  <2>1. cached[t] \in LogCaches /\ cached[t].t_time = cached[t].t_lastSecond
    BY <1>1 DEF LogInv, CachesRight
  <2> QED BY <2>1 DEF Cache, SameSecond, LogCaches
<1>4. cached' \in [LogThreads -> LogCaches] /\ cached'[t].t_time = now
  BY <1>1, <1>2, <1>3 DEF LogCaches
<1>5. CachesRight'
  BY <1>1, <1>2, <1>3 DEF LogInv, CachesRight
<1>6. PICK len \in LineLens :
        LET line == [id |-> Len(lines) + 1, at |-> now, shown |-> cached'[t].t_time]
        IN  appendLine(line, len) /\ lines' = Append(lines, line)
  BY DEF LogLine
<1>7. PICK line : line = [id |-> Len(lines) + 1, at |-> now, shown |-> now]
  OBVIOUS
<1>8. appendLine(line, len) /\ lines' = Append(lines, line)
  BY <1>4, <1>6, <1>7
<1>9. line \in LogLines /\ line.id = Len(lines) + 1 /\ line.at = now /\ line.shown = now
  BY <1>1, <1>7 DEF LogLines
<1>10. now' = now /\ back' = back
  BY DEF LogLine
<1> QED BY ONLY LogInv, <1>4, <1>5, <1>8, <1>9, <1>10, AppendLineInv

\* rollFile() begins a file after all others.
LEMMA RollFileInv ==
    ASSUME LogInv, RollFile
    PROVE  LogInv'
<1>1. /\ now \in Nat /\ back \in Nat /\ log \in LogMembers /\ FilesOK(files)
      /\ unflushed \in Seq(LogLines) /\ lines \in Seq(LogLines) /\ InOrder(files, lines)
  BY DEF LogInv, LogType, FilesOK, ReadsInOrder, InOrder
<1>2. /\ now > log.lastRoll_ /\ files' = Opened(files) /\ unflushed' = <<>>
      /\ log' = [count_ |-> log.count_, startOfPeriod_ |-> Period(now), lastRoll_ |-> now,
                 lastFlush_ |-> now, file_ |-> now]
      /\ now' = now /\ back' = back /\ lines' = lines /\ cached' = cached
  BY DEF RollFile, Rolled, MayRoll
<1>3. /\ log.file_ = log.lastRoll_ /\ log.count_ < checkEveryN_ /\ log.count_ \in Nat
      /\ log.lastRoll_ \in Nat /\ checkEveryN_ \in Nat
      /\ \A f \in DOMAIN files : f <= log.file_
  BY <1>1, LogConstants DEF LogInv, FileIsLast, LogMembers
<1>4. Period(now) \in Int
  BY <1>1, PeriodMonotone
<1>5. /\ log'.count_ = log.count_ /\ log'.startOfPeriod_ = Period(now) /\ log'.lastRoll_ = now
      /\ log'.lastFlush_ = now /\ log'.file_ = now /\ log' \in LogMembers
  BY <1>1, <1>2, <1>3, <1>4 DEF LogMembers
<1>6. now \notin DOMAIN files /\ \A f \in DOMAIN files : f \in Nat /\ f <= now /\ f # now
  BY <1>1, <1>2, <1>3 DEF FilesOK
<1>7. /\ FilesOK(files') /\ DOMAIN files' = DOMAIN files \cup {now}
      /\ files'[now].lines = <<>>
      /\ \A f \in DOMAIN files : files'[f] = files[f]
      /\ InOrder(files', lines')
  BY <1>1, <1>2, <1>6, OpenedProps
<1>8. LogType'
  <2>1. unflushed' \in Seq(LogLines)
    BY <1>2
  <2> QED BY <1>1, <1>2, <1>5, <1>7, <2>1 DEF LogInv, LogType, FilesOK
<1>9. FileIsLast'
  BY <1>1, <1>3, <1>5, <1>6, <1>7 DEF FileIsLast, Period
<1>10. ReadsInOrder'
  BY <1>7 DEF ReadsInOrder, InOrder
<1>11. LinesNumbered' /\ CachesRight'
  BY <1>2 DEF LogInv, LinesNumbered, CachesRight
<1>12. ASSUME back = 0 PROVE ClockRight'
  <2>0. ClockRight
    BY <1>12 DEF LogInv
  <2>1. \A i \in 1 .. Len(unflushed') : unflushed'[i].at <= now
    BY <1>2
  <2>2. Cardinality(Later(unflushed', now + flushInterval_)) = 0
    BY <1>2, NoneLate
  <2>3. ASSUME NEW f \in DOMAIN files'
        PROVE  Cardinality(Late(files'[f].lines, Period(f))) <= IF f = now THEN log.count_ ELSE checkEveryN_
    <3>1. CASE f = now
      <4>1. Cardinality(Late(files'[f].lines, Period(f))) = 0
        BY <3>1, <1>7, NoneLate
      <4> QED BY <3>1, <4>1, <1>3
    <3>2. CASE f # now
      <4>1. f \in DOMAIN files /\ files'[f] = files[f] /\ f \in Nat
        BY <3>2, <1>6, <1>7
      <4>2. Cardinality(Late(files[f].lines, Period(f))) <= IF f = log.file_ THEN log.count_ ELSE checkEveryN_
        BY <2>0, <4>1 DEF ClockRight
      <4>3. Cardinality(Late(files[f].lines, Period(f))) \in Nat
        <5>1. Period(f) \in Int
          BY <4>1, PeriodMonotone
        <5>2. files[f].lines \in Seq(LogLines)
          BY <4>1, <1>1 DEF FilesOK
        <5>3. [id |-> 0, at |-> 0, shown |-> 0] \in LogLines
          BY DEF LogLines
        <5> QED BY <5>1, <5>2, <5>3, LateAppend
      <4> QED BY <3>2, <4>1, <4>2, <4>3, <1>3
    <3> QED BY <3>1, <3>2
  <2>4. \A i \in 1 .. Len(lines') : lines'[i].at <= now
    BY <2>0, <1>2 DEF ClockRight
  <2>5. now <= now
    BY <1>1
  <2> QED BY <1>2, <1>3, <1>5, <2>1, <2>2, <2>3, <2>4, <2>5 DEF ClockRight, Period, Late, Later
<1> QED BY <1>2, <1>8, <1>9, <1>10, <1>11, <1>12 DEF LogInv

\* The clock and flush().
LEMMA ClockInv ==
    ASSUME LogInv, Flush \/ LogTick \/ ClockBack
    PROVE  LogInv'
<1>1. /\ log' = log /\ files' = files /\ lines' = lines /\ cached' = cached
      /\ now' \in Nat /\ back' \in Nat
      /\ unflushed' = unflushed \/ unflushed' = <<>>
      /\ back' = 0 => back = 0 /\ now <= now'
  <2>1. now \in Nat /\ back \in Nat
    BY DEF LogInv, LogType
  <2>2. CASE Flush
    BY <2>1, <2>2 DEF Flush
  <2>3. CASE LogTick
    BY <2>1, <2>3 DEF LogTick
  <2>4. CASE ClockBack
    BY <2>1, <2>4 DEF ClockBack
  <2> QED BY <2>2, <2>3, <2>4
<1>2. LogType'
  <2>1. unflushed \in Seq(LogLines)
    BY DEF LogInv, LogType
  <2>2. <<>> \in Seq(LogLines)
    OBVIOUS
  <2>3. unflushed' \in Seq(LogLines)
    BY ONLY <1>1, <2>1, <2>2, Zenon
  <2> QED BY <1>1, <2>3 DEF LogInv, LogType
<1>3. FileIsLast' /\ LinesNumbered' /\ CachesRight'
  BY <1>1 DEF LogInv, FileIsLast, LinesNumbered, CachesRight, Period
<1>4. ReadsInOrder'
  BY <1>1 DEF LogInv, ReadsInOrder
<1>5. ASSUME back' = 0 PROVE ClockRight'
  <2>0. /\ ClockRight /\ now <= now' /\ now \in Nat /\ now' \in Nat /\ log \in LogMembers
        /\ lines \in Seq(LogLines) /\ unflushed \in Seq(LogLines)
    BY <1>1, <1>5 DEF LogInv, LogType
  <2>1. log'.lastFlush_ <= now'
    BY <2>0, <1>1 DEF ClockRight, LogMembers
  <2>2. \A i \in 1 .. Len(lines') : lines'[i].at <= now'
    <3>1. \A i \in 1 .. Len(lines) : lines[i] \in LogLines
      BY <2>0, ElementOfSeq
    <3>2. \A i \in 1 .. Len(lines) : lines[i].at \in Nat /\ lines[i].at <= now
      BY <2>0, <3>1 DEF ClockRight, LogLines
    <3>3. \A i \in 1 .. Len(lines) : lines[i].at <= now'
      BY <2>0, <3>2
    <3> QED BY <3>3, <1>1
  <2>3. \A i \in 1 .. Len(unflushed') : unflushed'[i].at <= now'
    <3>1. \A i \in 1 .. Len(unflushed) : unflushed[i] \in LogLines
      BY <2>0, ElementOfSeq
    <3>2. CASE unflushed' = unflushed
      BY <2>0, <3>1, <3>2 DEF ClockRight, LogLines
    <3>3. CASE unflushed' = <<>>
      BY <3>3
    <3> QED BY <3>2, <3>3, <1>1
  <2>4. Cardinality(Later(unflushed', log.lastFlush_ + flushInterval_)) <= log.count_
    <3>1. CASE unflushed' = unflushed
      BY <2>0, <3>1 DEF ClockRight
    <3>2. CASE unflushed' = <<>>
      <4>1. Cardinality(Later(unflushed', log.lastFlush_ + flushInterval_)) = 0
        BY <3>2, NoneLate
      <4> QED BY <2>0, <4>1 DEF LogMembers
    <3> QED BY <3>1, <3>2, <1>1
  <2>5. \A f \in DOMAIN files : Cardinality(Late(files[f].lines, Period(f)))
                                  <= IF f = log.file_ THEN log.count_ ELSE checkEveryN_
    BY <2>0 DEF ClockRight
  <2> QED BY <1>1, <2>1, <2>2, <2>3, <2>4, <2>5 DEF ClockRight, Period, Late, Later
<1> QED BY <1>2, <1>3, <1>4, <1>5 DEF LogInv

\* What LogInv speaks of is unchanged.
LEMMA LogUnchanged ==
    ASSUME LogInv, UNCHANGED <<now, back, log, files, unflushed, lines, cached>>
    PROVE  LogInv'
<1>1. /\ now' = now /\ back' = back /\ log' = log /\ files' = files /\ unflushed' = unflushed
      /\ lines' = lines /\ cached' = cached
  OBVIOUS
<1>2. LogType' /\ FileIsLast' /\ LinesNumbered' /\ CachesRight'
  BY <1>1 DEF LogInv, LogType, FileIsLast, LinesNumbered, CachesRight, Period
<1>3. ReadsInOrder'
  BY <1>1 DEF LogInv, ReadsInOrder
<1>4. back = 0 => ClockRight'
  BY <1>1 DEF LogInv, ClockRight, Late, Later, Period
<1> QED BY <1>1, <1>2, <1>3, <1>4 DEF LogInv

\* Every step keeps the files right.
LEMMA LogInvNext == LogInv /\ [LogNext]_logVars => LogInv'
<1> SUFFICES ASSUME LogInv, [LogNext]_logVars PROVE LogInv'
  OBVIOUS
<1>1. CASE UNCHANGED logVars
  BY <1>1, LogUnchanged DEF logVars
<1>2. CASE \E t \in LogThreads : LogLine(t)
  BY <1>2, LogLineInv
<1>3. CASE RollFile
  BY <1>3, RollFileInv
<1>4. CASE Flush \/ LogTick \/ ClockBack
  BY <1>4, ClockInv
<1>5. CASE StreamNext
  <2>1. UNCHANGED <<now, back, log, files, unflushed, lines, cached>>
    BY <1>5 DEF StreamNext, PutText, PutNumber
  <2> QED BY <2>1, LogUnchanged
<1> QED BY <1>1, <1>2, <1>3, <1>4, <1>5 DEF LogNext

\* For any number of threads and lines, any roll size, check and flush interval
\* and length of a day: the files read in the order of their names are the lines
\* in the order logged, even if the clock is set back; while it is not, at most
\* checkEveryN_ lines of a later day go into a file and fewer than checkEveryN_
\* overdue lines can be lost in a crash; and every line shows its second.
THEOREM LogIsExact == LogSpec => []LogExact
<1>1. LogInv => LogExact
  <2> SUFFICES ASSUME LogInv PROVE LogExact
    OBVIOUS
  <2>1. ReadsInOrder
    BY DEF LogInv
  <2>2. TimeShown
    <3>1. DOMAIN lines = 1 .. Len(lines)
      BY LenProperties DEF LogInv, LogType
    <3> QED BY <3>1 DEF LogInv, LinesNumbered, TimeShown
  <2>3. log.count_ \in Nat /\ log.count_ < checkEveryN_ /\ checkEveryN_ \in Nat
    BY LogConstants DEF LogInv, LogType, FileIsLast, LogMembers
  <2>4. [id |-> 0, at |-> 0, shown |-> 0] \in LogLines
    BY DEF LogLines
  <2>5. ASSUME back = 0, NEW f \in DOMAIN files
        PROVE  Cardinality({i \in DOMAIN files[f].lines : Period(files[f].lines[i].at) > Period(f)}) <= checkEveryN_
    <3>1. files[f].lines \in Seq(LogLines) /\ DOMAIN files[f].lines = 1 .. Len(files[f].lines) /\ f \in Nat
      BY LenProperties DEF LogInv, LogType
    <3>2. {i \in DOMAIN files[f].lines : Period(files[f].lines[i].at) > Period(f)} = Late(files[f].lines, Period(f))
      BY <3>1 DEF Late
    <3>3. Cardinality(Late(files[f].lines, Period(f))) <= IF f = log.file_ THEN log.count_ ELSE checkEveryN_
      BY <2>5 DEF LogInv, ClockRight
    <3>4. Period(f) \in Int
      BY <3>1, PeriodMonotone
    <3>5. Cardinality(Late(files[f].lines, Period(f))) \in Nat
      BY <2>4, <3>1, <3>4, LateAppend
    <3>6. Cardinality(Late(files[f].lines, Period(f))) <= checkEveryN_
      BY <2>3, <3>3, <3>5
    <3> QED BY ONLY <3>2, <3>6, Zenon
  <2>6. DayBounded
    BY <2>5 DEF DayBounded
  <2>7. ASSUME back = 0
        PROVE  Cardinality({i \in DOMAIN unflushed : unflushed[i].at > log.lastFlush_ + flushInterval_}) < checkEveryN_
    <3>1. unflushed \in Seq(LogLines) /\ DOMAIN unflushed = 1 .. Len(unflushed)
      BY LenProperties DEF LogInv, LogType
    <3>2. {i \in DOMAIN unflushed : unflushed[i].at > log.lastFlush_ + flushInterval_}
            = Later(unflushed, log.lastFlush_ + flushInterval_)
      BY <3>1 DEF Later
    <3>3. Cardinality(Later(unflushed, log.lastFlush_ + flushInterval_)) <= log.count_
      BY <2>7 DEF LogInv, ClockRight
    <3>4. log.lastFlush_ + flushInterval_ \in Int
      BY LogConstants DEF LogInv, LogType, LogMembers
    <3>5. Cardinality(Later(unflushed, log.lastFlush_ + flushInterval_)) \in Nat
      BY <2>4, <3>1, <3>4, LaterAppend
    <3>6. Cardinality(Later(unflushed, log.lastFlush_ + flushInterval_)) < checkEveryN_
      BY <2>3, <3>3, <3>5
    <3> QED BY ONLY <3>2, <3>6, Zenon
  <2>8. OverdueBounded
    BY <2>7 DEF OverdueBounded
  <2> QED BY <2>1, <2>2, <2>6, <2>8 DEF LogExact
<1>2. LogSpec => []LogInv
  BY LogInvInit, LogInvNext, PTL DEF LogSpec
<1> QED BY <1>1, <1>2, PTL

-----------------------------------------------------------------------------
(* LogStream: what is printed of a number. *)

\* A set of naturals that is not empty has a least element.
LEMMA LeastOfNats ==
    ASSUME NEW S \in SUBSET Nat, S # {}
    PROVE  \E n \in S : \A m \in S : n <= m
<1> DEFINE R == OpToRel(<, Nat)
<1>1. IsWellFoundedOn(R, Nat)
  BY NatLessThanWellFounded
<1>2. \A x, y \in Nat : x < y => <<x, y>> \in R
  BY DEF OpToRel
<1> HIDE DEF R
<1>3. PICK n \in S : \A m \in S : ~ (<<m, n>> \in R)
  BY <1>1, WFMin
<1>4. \A m \in S : n <= m
  <2> TAKE m \in S
  <2>1. m \in Nat /\ n \in Nat
    OBVIOUS
  <2>2. ~ (m < n)
    BY <1>2, <1>3, <2>1, Zenon
  <2> QED BY <2>1, <2>2
<1> QED BY <1>4

\* What is in a set of naturals as soon as all smaller ones are is every natural
\* up to a bound.
LEMMA Upwards ==
    ASSUME NEW b \in Nat, NEW P \in SUBSET Nat, 0 \in P,
           \A n \in Nat : n < b /\ n \in P => n + 1 \in P
    PROVE  \A n \in 0 .. b : n \in P
<1> SUFFICES ASSUME NEW k \in 0 .. b, k \notin P PROVE FALSE
  OBVIOUS
<1> DEFINE S == {n \in 0 .. b : n \notin P}
<1>1. S \in SUBSET Nat /\ S # {}
  OBVIOUS
<1>2. PICK n \in S : \A m \in S : n <= m
  BY <1>1, LeastOfNats
<1>3. n # 0 /\ n \in 0 .. b /\ n - 1 \in Nat /\ n - 1 < b
  BY <1>2
<1>4. n - 1 \in P
  BY <1>2, <1>3
<1> QED BY <1>2, <1>3, <1>4

\* A loop of b turns, each of which makes a number of a number, has a run.
LEMMA LoopRuns ==
    ASSUME NEW b \in Nat, NEW a \in Int, NEW turn \in [1 .. b -> [Int -> Int]]
    PROVE  \E x \in [0 .. b -> Int] : x[0] = a /\ \A i \in 1 .. b : x[i] = turn[i][x[i - 1]]
<1> DEFINE Run(n, x) == x[0] = a /\ \A i \in 1 .. n : x[i] = turn[i][x[i - 1]]
<1> DEFINE P == {n \in 0 .. b : \E x \in [0 .. n -> Int] : Run(n, x)}
<1>1. P \in SUBSET Nat
  OBVIOUS
<1>2. 0 \in P
  <2> DEFINE x == [i \in 0 .. 0 |-> a]
  <2>1. x \in [0 .. 0 -> Int] /\ Run(0, x) /\ 0 \in 0 .. b
    OBVIOUS
  <2> HIDE DEF x, Run
  <2> QED BY <2>1
<1>3. ASSUME NEW n \in Nat, n < b, n \in P PROVE n + 1 \in P
  <2>1. PICK x \in [0 .. n -> Int] : Run(n, x)
    BY <1>3
  <2> DEFINE y == [i \in 0 .. n + 1 |-> IF i <= n THEN x[i] ELSE turn[n + 1][x[n]]]
  <2>2. n + 1 \in 1 .. b /\ x[n] \in Int /\ turn[n + 1][x[n]] \in Int
    BY <1>3
  <2>3. y \in [0 .. n + 1 -> Int]
    BY <2>2
  <2>4. y[n + 1] = turn[n + 1][x[n]] /\ \A i \in 0 .. n : y[i] = x[i]
    OBVIOUS
  <2> HIDE DEF y
  <2>5. \A i \in 1 .. n + 1 : y[i] = turn[i][y[i - 1]]
    <3> TAKE i \in 1 .. n + 1
    <3>1. CASE i = n + 1
      <4>1. i - 1 = n /\ n \in 0 .. n
        BY <3>1
      <4> QED BY <2>4, <3>1, <4>1
    <3>2. CASE i \in 1 .. n
      <4>1. i \in 0 .. n /\ i - 1 \in 0 .. n
        BY <3>2
      <4> QED BY <2>1, <2>4, <3>2, <4>1
    <3> QED BY <3>1, <3>2
  <2>6. y[0] = a
    <3>1. 0 \in 0 .. n
      OBVIOUS
    <3> QED BY <2>1, <2>4, <3>1
  <2>7. Run(n + 1, y)
    BY <2>5, <2>6
  <2>8. n + 1 \in 0 .. b
    BY <2>2
  <2> QED BY <2>3, <2>7, <2>8
<1> HIDE DEF Run
<1>4. b \in P
  <2> HIDE DEF P
  <2>1. \A n \in 0 .. b : n \in P
    BY <1>1, <1>2, <1>3, Upwards
  <2> QED BY <2>1
<1> QED BY <1>4 DEF Run

\* C's division, by a base that is positive: the number is the base times what
\* is left, and the digit, in absolute value too.
LEMMA Division ==
    ASSUME NEW v \in Int, NEW base \in {10, 16}
    PROVE  /\ TruncDiv(v, base) \in Int
           /\ AbsDigit(TruncMod(v, base)) \in 0 .. base - 1
           /\ AbsDigit(v) = AbsDigit(TruncDiv(v, base)) * base + AbsDigit(TruncMod(v, base))
<1>1. CASE base = 10
  <2>1. PICK q \in Int : q = v \div 10
    OBVIOUS
  <2>2. PICK p \in Int : p = (-v) \div 10
    OBVIOUS
  <2>3. 10 * q <= v /\ v < 10 * q + 10 /\ 10 * p <= -v /\ -v < 10 * p + 10
    BY <2>1, <2>2
  <2> QED BY <1>1, <2>1, <2>2, <2>3 DEF AbsDigit, TruncDiv, TruncMod
<1>2. CASE base = 16
  <2>1. PICK q \in Int : q = v \div 16
    OBVIOUS
  <2>2. PICK p \in Int : p = (-v) \div 16
    OBVIOUS
  <2>3. 16 * q <= v /\ v < 16 * q + 16 /\ 16 * p <= -v /\ -v < 16 * p + 16
    BY <2>1, <2>2
  <2> QED BY <1>2, <2>1, <2>2, <2>3 DEF AbsDigit, TruncDiv, TruncMod
<1> QED BY <1>1, <1>2

\* What is left after each digit.
LEMMA LeftFacts ==
    ASSUME NEW v \in Int, NEW base \in {10, 16}
    PROVE  /\ Left(v, base) \in [0 .. kMaxNumericSize -> Int] /\ Left(v, base)[0] = v
           /\ \A i \in 1 .. kMaxNumericSize :
                Left(v, base)[i] = TruncDiv(Left(v, base)[i - 1], base)
<1>0. kMaxNumericSize \in Nat
  BY LogConstants DEF LogConstants
<1>1. PICK divide \in [Int -> Int] : divide = [x \in Int |-> TruncDiv(x, base)]
  <2>1. \A x \in Int : TruncDiv(x, base) \in Int
    BY Division
  <2> QED BY <2>1
<1>2. PICK turn \in [1 .. kMaxNumericSize -> [Int -> Int]] :
        turn = [i \in 1 .. kMaxNumericSize |-> divide]
  OBVIOUS
<1>3. PICK x \in [0 .. kMaxNumericSize -> Int] :
        x[0] = v /\ \A i \in 1 .. kMaxNumericSize : x[i] = turn[i][x[i - 1]]
  BY <1>0, LoopRuns
<1>4. \A i \in 1 .. kMaxNumericSize : x[i] = TruncDiv(x[i - 1], base)
  <2> TAKE i \in 1 .. kMaxNumericSize
  <2>1. i - 1 \in 0 .. kMaxNumericSize
    BY <1>0
  <2> QED BY <1>1, <1>2, <1>3, <2>1
<1> DEFINE Eq(f) == f = [k \in 0 .. kMaxNumericSize |->
                          IF k = 0 THEN v ELSE TruncDiv(f[k - 1], base)]
<1>5. Eq(x)
  <2>1. \A k \in 0 .. kMaxNumericSize : k # 0 => k \in 1 .. kMaxNumericSize
    BY <1>0
  <2> QED BY <1>3, <1>4, <2>1
<1>6. Left(v, base) = CHOOSE f : Eq(f)
  BY DEF Left
<1>7. Eq(Left(v, base))
  BY <1>5, <1>6
<1>8. PICK l : l = Left(v, base)
  OBVIOUS
<1>9. /\ l[0] = v /\ DOMAIN l = 0 .. kMaxNumericSize
      /\ \A i \in 1 .. kMaxNumericSize : l[i] = TruncDiv(l[i - 1], base)
      /\ l = [k \in 0 .. kMaxNumericSize |-> l[k]]
  <2>1. l = [k \in 0 .. kMaxNumericSize |-> IF k = 0 THEN v ELSE TruncDiv(l[k - 1], base)]
    BY <1>7, <1>8
  <2>2. \A i \in 1 .. kMaxNumericSize : i \in 0 .. kMaxNumericSize /\ i # 0
    BY <1>0
  <2>3. 0 \in 0 .. kMaxNumericSize
    BY <1>0
  <2> QED BY <2>1, <2>2, <2>3
<1>10. \A k \in 0 .. kMaxNumericSize : l[k] \in Int
  <2> DEFINE P == {k \in 0 .. kMaxNumericSize : l[k] \in Int}
  <2>1. P \in SUBSET Nat /\ 0 \in P
    BY <1>0, <1>9
  <2>2. ASSUME NEW k \in Nat, k < kMaxNumericSize, k \in P PROVE k + 1 \in P
    <3>1. k + 1 \in 1 .. kMaxNumericSize /\ k + 1 \in 0 .. kMaxNumericSize /\ (k + 1) - 1 = k
      BY <1>0, <2>2
    <3>2. l[k + 1] = TruncDiv(l[k], base) /\ l[k] \in Int
      BY <1>9, <2>2, <3>1
    <3>3. l[k + 1] \in Int
      BY <3>2, Division
    <3> QED BY <3>1, <3>3
  <2>3. \A k \in 0 .. kMaxNumericSize : k \in P
    <3> HIDE DEF P
    <3> QED BY <1>0, <2>1, <2>2, Upwards
  <2> QED BY <2>3
<1>11. l \in [0 .. kMaxNumericSize -> Int]
  BY <1>9, <1>10
<1> QED BY <1>8, <1>9, <1>11

\* The digits show the number that the loop goes back to.
LEMMA ValueFacts ==
    ASSUME NEW n \in Nat, NEW base \in Nat, NEW s \in Seq(Nat), Len(s) = n,
           NEW x \in [0 .. n -> Nat], x[0] = 0,
           \A i \in 1 .. n : x[i] = x[i - 1] * base + s[i]
    PROVE  ValueOf(s, base) = x[n]
<1> DEFINE Eq(f) == f = [i \in 0 .. n |-> IF i = 0 THEN 0 ELSE f[i - 1] * base + s[i]]
<1>1. Eq(x)
  <2>1. \A k \in 0 .. n : k # 0 => k \in 1 .. n
    OBVIOUS
  <2> QED BY <2>1
<1>2. PICK y : y = CHOOSE f : Eq(f)
  OBVIOUS
<1>3. Eq(y)
  BY <1>1, <1>2
<1>4. ValueOf(s, base) = y[n]
  BY <1>2 DEF ValueOf
<1>5. y[0] = 0 /\ \A i \in 1 .. n : y[i] = y[i - 1] * base + s[i]
  <2>1. y = [i \in 0 .. n |-> IF i = 0 THEN 0 ELSE y[i - 1] * base + s[i]]
    BY <1>3
  <2>2. \A i \in 1 .. n : i \in 0 .. n /\ i # 0
    OBVIOUS
  <2>3. 0 \in 0 .. n
    OBVIOUS
  <2> HIDE DEF Eq
  <2> QED BY <2>1, <2>2, <2>3
<1> DEFINE P == {k \in 0 .. n : y[k] = x[k]}
<1>6. P \in SUBSET Nat /\ 0 \in P
  BY <1>5
<1>7. ASSUME NEW k \in Nat, k < n, k \in P PROVE k + 1 \in P
  <2>1. k + 1 \in 1 .. n /\ k + 1 \in 0 .. n /\ (k + 1) - 1 = k
    BY <1>7
  <2>2. y[k + 1] = y[k] * base + s[k + 1] /\ x[k + 1] = x[k] * base + s[k + 1]
    BY <1>5, <2>1
  <2>3. y[k + 1] = x[k + 1]
    BY <1>7, <2>2
  <2> QED BY <2>1, <2>3
<1>8. \A k \in 0 .. n : k \in P
  <2> HIDE DEF P
  <2> QED BY <1>6, <1>7, Upwards
<1> QED BY <1>4, <1>8

\* The least number of digits after which nothing is left.
LEMMA DigitsFacts ==
    ASSUME NEW v \in Int, NEW base \in {10, 16}, Ends(v, base) # {}
    PROVE  /\ NumDigits(v, base) \in 1 .. kMaxNumericSize
           /\ Left(v, base)[NumDigits(v, base)] = 0
           /\ \A k \in Ends(v, base) : NumDigits(v, base) <= k
<1>0. kMaxNumericSize \in Nat
  BY LogConstants DEF LogConstants
<1> DEFINE S == Ends(v, base)
<1>1. S \in SUBSET Nat /\ S # {}
  BY <1>0 DEF Ends
<1>2. PICK k \in S : \A j \in S : k <= j
  <2> HIDE DEF S
  <2> QED BY <1>1, LeastOfNats
<1>3. NumDigits(v, base) \in S /\ \A j \in S : NumDigits(v, base) <= j
  <2> HIDE DEF S
  <2>1. Min(S) \in S /\ \A j \in S : Min(S) <= j
    BY <1>2 DEF Min
  <2> QED BY <2>1 DEF NumDigits, S
<1> QED BY <1>3 DEF Ends

\* What is printed: a sign in front of a negative number, and its digits, from the last
\* that was found on.
LEMMA ConvertFacts ==
    ASSUME NEW v \in Int, NEW base \in {10, 16}, Ends(v, base) # {},
           NEW n \in Nat, n = NumDigits(v, base), NEW g \in 0 .. 1, g = 1 <=> v < 0
    PROVE  /\ convert(v, base) \in Seq(Int) /\ Len(convert(v, base)) = g + n
           /\ g = 1 => convert(v, base)[1] = -1
           /\ \A i \in 1 .. n : convert(v, base)[i + g] = AbsDigit(TruncMod(Left(v, base)[n - i], base))
<1>0. kMaxNumericSize \in Nat /\ n \in 1 .. kMaxNumericSize
  BY LogConstants, DigitsFacts DEF LogConstants
<1>1. PICK l \in [0 .. kMaxNumericSize -> Int] : l = Left(v, base)
  BY LeftFacts
<1>2. PICK s : s = [i \in 1 .. n |-> AbsDigit(TruncMod(l[i - 1], base))]
  OBVIOUS
<1>3. \A i \in 1 .. n : s[i] = AbsDigit(TruncMod(l[i - 1], base)) /\ s[i] \in Int
  <2> TAKE i \in 1 .. n
  <2>1. PICK w \in Int : w = l[i - 1]
    BY <1>0, <1>1
  <2>2. AbsDigit(TruncMod(w, base)) \in 0 .. base - 1
    BY Division
  <2>3. AbsDigit(TruncMod(w, base)) \in Int
    BY <2>2
  <2> QED BY <1>2, <2>1, <2>3
<1>4. s \in Seq(Int) /\ Len(s) = n
  BY <1>2, <1>3
<1>5. PICK t \in Seq(Int) : /\ t = s \o (IF v < 0 THEN <<-1>> ELSE <<>>) /\ Len(t) = n + g
                            /\ \A i \in 1 .. n : t[i] = s[i]
                            /\ g = 1 => t[n + 1] = -1
  <2>1. CASE v < 0
    <3>1. <<-1>> \in Seq(Int) /\ Len(<<-1>>) = 1 /\ <<-1>>[1] = -1
      OBVIOUS
    <3>2. PICK e \in Seq(Int) : e = <<-1>> /\ Len(e) = 1 /\ e[1] = -1
      BY <3>1
    <3>3. PICK t \in Seq(Int) : t = s \o e
      BY <1>4, ConcatProperties
    <3>4. Len(t) = n + 1 /\ (\A i \in 1 .. n : t[i] = s[i]) /\ t[n + 1] = e[1]
      BY <1>4, <3>2, <3>3
    <3> QED BY <2>1, <3>2, <3>3, <3>4
  <2>2. CASE ~(v < 0)
    <3>1. s \o <<>> = s
      BY <1>4
    <3>2. g = 0 /\ n + g = n
      BY <2>2
    <3> QED BY <1>4, <2>2, <3>1, <3>2
  <2> QED BY <2>1, <2>2
<1>6. convert(v, base) = Reverse(t)
  BY <1>1, <1>2, <1>5 DEF convert
<1>14. PICK m \in Nat : m = n + g
  OBVIOUS
<1>7. PICK r : r = [i \in 1 .. m |-> t[(m - i) + 1]]
  OBVIOUS
<1>8. convert(v, base) = r
  BY <1>5, <1>6, <1>7, <1>14 DEF Reverse
<1>9. \A i \in 1 .. m : (m - i) + 1 \in 1 .. m /\ r[i] = t[(m - i) + 1]
  BY <1>7
<1>10. ASSUME NEW i \in 1 .. m PROVE r[i] \in Int
  <2>1. PICK j \in 1 .. m : j = (m - i) + 1 /\ r[i] = t[j]
    BY <1>9
  <2>2. t[j] \in Int
    BY <1>5, <1>14
  <2> QED BY <2>1, <2>2
<1>11. r \in Seq(Int) /\ Len(r) = n + g
  <2>1. r \in [1 .. m -> Int]
    BY <1>7, <1>10
  <2> QED BY <1>14, <2>1
<1>12. ASSUME g = 1 PROVE r[1] = -1
  <2>1. 1 \in 1 .. m /\ (m - 1) + 1 = n + 1
    BY <1>12, <1>14
  <2> QED BY <1>5, <1>9, <1>12, <2>1
<1>13. ASSUME NEW i \in 1 .. n PROVE r[i + g] = AbsDigit(TruncMod(l[n - i], base))
  <2>1. PICK j \in 1 .. n : j = (n - i) + 1 /\ j - 1 = n - i
    OBVIOUS
  <2>2. PICK k \in 1 .. m : k = i + g /\ (m - k) + 1 = j
    <3>1. i + g \in 1 .. m
      BY <1>14
    <3>2. PICK k \in 1 .. m : k = i + g
      BY <3>1
    <3>3. (m - k) + 1 = j
      BY <1>14, <2>1, <3>2
    <3> QED BY <3>2, <3>3
  <2>3. r[k] = t[j] /\ t[j] = s[j]
    BY <1>5, <1>9, <2>2
  <2> QED BY <1>3, <2>1, <2>2, <2>3
<1> QED BY <1>1, <1>8, <1>11, <1>12, <1>13

\* What is printed of a number shows the number.
LEMMA PrintsExactly ==
    ASSUME NEW v \in Int, NEW base \in {10, 16}, Ends(v, base) # {}
    PROVE  PrintedExact(v, base)
<1>5. kMaxNumericSize \in Nat /\ base \in Nat
  BY LogConstants DEF LogConstants
<1>1. PICK n \in Nat : n = NumDigits(v, base) /\ n \in 1 .. kMaxNumericSize
  BY <1>5, DigitsFacts
<1>2. PICK g \in 0 .. 1 : g = 1 <=> v < 0
  OBVIOUS
<1>3. PICK l \in [0 .. kMaxNumericSize -> Int] :
        /\ l = Left(v, base) /\ l[0] = v
        /\ \A i \in 1 .. kMaxNumericSize : l[i] = TruncDiv(l[i - 1], base)
  BY LeftFacts
<1>4. PICK s \in Seq(Int) : /\ s = convert(v, base) /\ Len(s) = g + n /\ (g = 1 => s[1] = -1)
                            /\ \A i \in 1 .. n : s[i + g] = AbsDigit(TruncMod(l[n - i], base))
  <2>1. /\ convert(v, base) \in Seq(Int) /\ Len(convert(v, base)) = g + n
        /\ g = 1 => convert(v, base)[1] = -1
        /\ \A i \in 1 .. n : convert(v, base)[i + g] = AbsDigit(TruncMod(Left(v, base)[n - i], base))
    BY <1>1, <1>2, ConvertFacts
  <2> QED BY <1>3, <2>1
<1>6. PICK d : d = IF v < 0 THEN Tail(s) ELSE s
  OBVIOUS
<1>7. /\ d \in Seq(Int) /\ Len(d) = n
      /\ \A i \in 1 .. n : d[i] = s[i + g]
  <2>1. CASE v < 0
    <3>1. s # <<>> /\ d = Tail(s) /\ g = 1 /\ Len(s) = n + 1
      BY <1>2, <1>4, <1>6, <2>1
    <3>2. d \in Seq(Int) /\ Len(d) = n /\ \A i \in 1 .. n : d[i] = s[i + 1]
      BY <3>1, HeadTailProperties
    <3> QED BY <3>1, <3>2
  <2>2. CASE ~(v < 0)
    <3>1. d = s /\ g = 0
      BY <1>2, <1>6, <2>2
    <3> QED BY <1>4, <3>1
  <2> QED BY <2>1, <2>2
<1>8. \A i \in 1 .. n : d[i] = AbsDigit(TruncMod(l[n - i], base))
  BY <1>4, <1>7
<1>9. ASSUME NEW i \in 1 .. n
      PROVE  /\ d[i] \in 0 .. base - 1
             /\ AbsDigit(l[n - i]) = AbsDigit(l[n - (i - 1)]) * base + d[i]
  <2>1. n - i \in 0 .. kMaxNumericSize /\ (n - i) + 1 \in 1 .. kMaxNumericSize
        /\ ((n - i) + 1) - 1 = n - i /\ n - (i - 1) = (n - i) + 1
    BY <1>1, <1>5
  <2>2. l[(n - i) + 1] = TruncDiv(l[n - i], base) /\ l[n - i] \in Int
    BY <1>3, <2>1
  <2>3. /\ AbsDigit(TruncMod(l[n - i], base)) \in 0 .. base - 1
        /\ AbsDigit(l[n - i]) =
             AbsDigit(TruncDiv(l[n - i], base)) * base + AbsDigit(TruncMod(l[n - i], base))
    BY <2>2, Division
  <2> QED BY <1>8, <2>1, <2>2, <2>3
<1>10. PICK x : x = [i \in 0 .. n |-> AbsDigit(l[n - i])]
  OBVIOUS
<1>11. ASSUME NEW i \in 0 .. n PROVE x[i] = AbsDigit(l[n - i]) /\ x[i] \in Nat
  <2>1. n - i \in 0 .. kMaxNumericSize
    BY <1>1, <1>5
  <2>2. l[n - i] \in Int
    BY <1>3, <2>1
  <2>3. AbsDigit(l[n - i]) \in Nat
    BY <2>2 DEF AbsDigit
  <2> QED BY <1>10, <2>3
<1>12. x \in [0 .. n -> Nat]
  BY <1>10, <1>11
<1>13. l[n] = 0
  BY <1>1, <1>3, DigitsFacts
<1>14. x[0] = 0 /\ x[n] = AbsDigit(v)
  <2>1. 0 \in 0 .. n /\ n \in 0 .. n /\ n - 0 = n /\ n - n = 0
    OBVIOUS
  <2>2. x[0] = AbsDigit(l[n]) /\ x[n] = AbsDigit(l[0])
    BY <1>11, <2>1
  <2> QED BY <1>3, <1>13, <2>2 DEF AbsDigit
<1>15. \A i \in 1 .. n : x[i] = x[i - 1] * base + d[i]
  <2> TAKE i \in 1 .. n
  <2>1. i \in 0 .. n /\ i - 1 \in 0 .. n
    OBVIOUS
  <2> QED BY <1>9, <1>11, <2>1
<1>16. \A i \in 1 .. n : d[i] \in Nat
  BY <1>5, <1>9
<1>17. d \in Seq(Nat)
  BY <1>7, <1>16
<1>18. ValueOf(d, base) = AbsDigit(v)
  BY <1>5, <1>7, <1>12, <1>14, <1>15, <1>17, ValueFacts
<1>19. n > 1 => d[1] # 0
  <2> SUFFICES ASSUME n > 1, d[1] = 0 PROVE FALSE
    OBVIOUS
  <2>1. x[1] = 0
    <3>1. 1 \in 1 .. n /\ 1 - 1 = 0
      OBVIOUS
    <3>2. x[1] = x[0] * base + d[1]
      BY <1>15, <3>1
    <3> QED BY <1>5, <1>14, <3>2
  <2>2. x[1] = AbsDigit(l[n - 1]) /\ n - 1 \in 1 .. kMaxNumericSize
    BY <1>1, <1>5, <1>11
  <2>3. l[n - 1] \in Int
    BY <1>3, <2>2
  <2>4. l[n - 1] = 0
    BY <2>1, <2>2, <2>3 DEF AbsDigit
  <2>5. n - 1 \in Ends(v, base)
    BY <1>3, <2>2, <2>4 DEF Ends
  <2>6. n <= n - 1
    BY <1>1, <2>5, DigitsFacts
  <2> QED BY <2>6
<1>20. DOMAIN d = 1 .. n
  BY <1>7
<1>21. v = (IF v < 0 THEN -ValueOf(d, base) ELSE ValueOf(d, base))
  BY <1>18 DEF AbsDigit
<1>22. v < 0 => s[1] = -1
  BY <1>2, <1>4
<1>23. \A i \in DOMAIN d : d[i] \in 0 .. base - 1
  BY <1>9, <1>20
<1>24. Len(d) >= 1 /\ (Len(d) > 1 => d[1] # 0)
  BY <1>1, <1>7, <1>19
<1> QED BY <1>4, <1>6, <1>21, <1>22, <1>23, <1>24 DEF PrintedExact

\* What is printed has room, with what is in front of it and the 0 behind.
LEMMA PrintsInRoom ==
    ASSUME NEW v \in Numbers, NEW base \in {10, 16}, base = 16 => v >= 0
    PROVE  /\ v \in Int /\ Ends(v, base) # {} /\ Len(convert(v, base)) \in Nat
           /\ NumberLen(v, base) \in 1 .. kMaxNumericSize - 1
<1>0. v \in Int /\ kMaxNumericSize \in Nat
  BY LogConstants DEF LogConstants
<1>1. PICK k \in Ends(v, base) : k + (IF base = 16 THEN 2 ELSE 1) + 1 <= kMaxNumericSize
  BY NumbersHaveRoom DEF NumbersHaveRoom
<1>2. PICK n \in 1 .. kMaxNumericSize : n = NumDigits(v, base)
  BY <1>0, <1>1, DigitsFacts
<1>3. n <= k /\ k \in Nat
  <2>1. \A j \in Ends(v, base) : NumDigits(v, base) <= j
    BY <1>0, <1>1, DigitsFacts
  <2> QED BY <1>0, <1>1, <1>2, <2>1 DEF Ends
<1>4. PICK g \in 0 .. 1 : g = 1 <=> v < 0
  OBVIOUS
<1>5. Len(convert(v, base)) = g + n
  BY <1>0, <1>1, <1>2, <1>4, ConvertFacts
<1>6. base = 16 => g = 0
  BY <1>0, <1>4
<1>7. PICK m \in Nat : m = Len(convert(v, base)) /\ m = g + n
  BY <1>5
<1>8. NumberLen(v, base) \in 1 .. kMaxNumericSize - 1
  <2>1. CASE base = 16
    BY <1>0, <1>1, <1>3, <1>6, <1>7, <2>1 DEF NumberLen
  <2>2. CASE base = 10
    BY <1>0, <1>1, <1>3, <1>7, <2>2 DEF NumberLen
  <2> QED BY <2>1, <2>2
<1> QED BY <1>0, <1>1, <1>7, <1>8

-----------------------------------------------------------------------------
(* The stream a line is composed in. *)

\* cur_ is inside the buffer, and so is what was written.
StreamInv ==
    /\ stream.cur \in Nat /\ stream.cur <= SIZE /\ stream.top \in Nat /\ stream.top <= SIZE
    /\ stream.number \subseteq Numbers

\* A step of the log keeps the stream inside its buffer.
LEMMA StreamInvNext == StreamInv /\ [LogNext]_logVars => StreamInv'
<1> SUFFICES ASSUME StreamInv, [LogNext]_logVars PROVE StreamInv'
  OBVIOUS
<1>0. SIZE \in Nat /\ kMaxNumericSize \in Nat
  BY LogConstants DEF LogConstants
<1>1. CASE stream' = stream
  BY <1>1 DEF StreamInv
<1>2. CASE PutText
  <2>1. PICK len \in 1 .. SIZE :
           IF AppendFits(len)
           THEN stream' = [cur |-> stream.cur + len, top |-> stream.cur + len, number |-> {}]
           ELSE UNCHANGED stream
    BY <1>2 DEF PutText
  <2>2. CASE AppendFits(len)
    <3>1. stream'.cur = stream.cur + len /\ stream'.top = stream.cur + len /\ stream'.number = {}
      BY <2>1, <2>2
    <3>2. SIZE - stream.cur > len
      BY <2>2 DEF AppendFits, Avail
    <3> QED BY <1>0, <3>1, <3>2 DEF StreamInv
  <2> QED BY <1>1, <2>1, <2>2
<1>3. CASE PutNumber
  <2>1. PICK v \in Numbers, base \in {10, 16} :
           /\ base = 16 => v >= 0
           /\ IF NumberFits(v)
              THEN stream' = [cur |-> stream.cur + NumberLen(v, base),
                              top |-> stream.cur + NumberLen(v, base) + 1, number |-> {v}]
              ELSE UNCHANGED stream
    BY <1>3 DEF PutNumber
  <2>2. CASE NumberFits(v)
    <3>1. PICK len \in 1 .. kMaxNumericSize - 1 : len = NumberLen(v, base)
      BY <2>1, PrintsInRoom
    <3>2. /\ stream'.cur = stream.cur + len /\ stream'.top = stream.cur + len + 1
          /\ stream'.number = {v}
      BY <2>1, <2>2, <3>1
    <3>3. SIZE - stream.cur >= kMaxNumericSize
      BY <2>2 DEF NumberFits, Avail
    <3> QED BY <1>0, <3>2, <3>3 DEF StreamInv
  <2> QED BY <1>1, <2>1, <2>2
<1>4. stream' = stream \/ PutText \/ PutNumber
  BY DEF LogNext, LogLine, Flush, RollFile, LogTick, ClockBack, StreamNext, logVars
<1> QED BY <1>1, <1>2, <1>3, <1>4

\* FixedBuffer, convert() and convertHex(): whatever texts and numbers are put
\* into a line, nothing is written behind its buffer, the 0 behind the digits
\* included, and numbers of any size are printed exactly.
THEOREM StreamIsExact == LogSpec => []StreamExact
<1>1. LogInit => StreamInv
  BY LogConstants DEF LogInit, NewStream, StreamInv, LogConstants
<1>2. StreamInv => StreamExact
  <2> SUFFICES ASSUME StreamInv PROVE StreamExact
    OBVIOUS
  <2>1. StreamInside
    BY DEF StreamInv, StreamInside
  <2>2. ASSUME NEW v \in stream.number
        PROVE  /\ PrintedExact(v, 10) /\ (v >= 0 => PrintedExact(v, 16))
               /\ Len(convert(v, 10)) + 1 <= kMaxNumericSize
    <3>1. v \in Numbers
      BY DEF StreamInv
    <3>2. /\ v \in Int /\ Ends(v, 10) # {} /\ Len(convert(v, 10)) \in Nat
          /\ NumberLen(v, 10) \in 1 .. kMaxNumericSize - 1
      <4>1. PICK base \in {10, 16} : base = 10 /\ base # 16
        OBVIOUS
      <4>2. /\ v \in Int /\ Ends(v, base) # {} /\ Len(convert(v, base)) \in Nat
            /\ NumberLen(v, base) \in 1 .. kMaxNumericSize - 1
        BY <3>1, <4>1, PrintsInRoom
      <4> QED BY <4>1, <4>2
    <3>3. v >= 0 => Ends(v, 16) # {}
      BY <3>1, PrintsInRoom
    <3>4. PrintedExact(v, 10) /\ (v >= 0 => PrintedExact(v, 16))
      BY <3>2, <3>3, PrintsExactly
    <3>5. Len(convert(v, 10)) + 1 <= kMaxNumericSize
      <4>1. kMaxNumericSize \in Nat
        BY LogConstants DEF LogConstants
      <4> QED BY <3>2, <4>1 DEF NumberLen
    <3> QED BY <3>4, <3>5
  <2> QED BY <2>1, <2>2 DEF StreamExact, NumbersExact
<1> QED BY <1>1, <1>2, StreamInvNext, PTL DEF LogSpec

-----------------------------------------------------------------------------
(* Dates.  The formulas count years from March, of the year -4800, so that the *)
(* leap day is the last one of a year.                                        *)

Months == 1 .. 12
MarchYear(year, month) == IF month <= 2 THEN year + 4799 ELSE year + 4800
MarchMonth(month) == IF month <= 2 THEN month + 9 ELSE month - 3
DaysBefore(m) == (153 * m + 2) \div 5
DayOfYear(d) == DaysBefore(MarchMonth(d.month)) + d.day - 1

Julian(y, m, k) ==
    k + DaysBefore(m) + 365 * y + y \div 4 - y \div 100 + y \div 400 - 32045

\* The dates of the calendar.
Dates == [year : Int, month : Int, day : Int]
DateOK(d) ==
    /\ d \in Dates /\ d.year >= -4799 /\ d.month \in Months
    /\ 1 <= d.day /\ d.day <= DaysIn(d.year, d.month)

\* A quotient, from the remainder.
LEMMA Quotient ==
    ASSUME NEW n \in Nat, n > 0, NEW x \in Int, NEW k \in Int, NEW r \in Int,
           0 <= r, r < n, x = n * k + r
    PROVE  x \div n = k /\ x % n = r
OBVIOUS

\* Years in four parts: 400 years, centuries of them, four years and the rest.
LEMMA YearParts ==
    ASSUME NEW y \in Nat
    PROVE  \E q \in Nat, c \in 0 .. 3, t \in 0 .. 24, u \in 0 .. 3 :
             /\ y = 400 * q + 100 * c + 4 * t + u
             /\ y \div 400 = q /\ y \div 100 = 4 * q + c /\ y \div 4 = 100 * q + 25 * c + t
             /\ y % 4 = u /\ y % 100 = 4 * t + u /\ y % 400 = 100 * c + 4 * t + u
<1>1. PICK q \in Nat, r \in 0 .. 399 : y = 400 * q + r /\ y \div 400 = q /\ y % 400 = r
  OBVIOUS
<1>2. PICK c \in 0 .. 3, s \in 0 .. 99 : r = 100 * c + s
  <2>1. r \div 100 \in 0 .. 3 /\ r % 100 \in 0 .. 99 /\ r = 100 * (r \div 100) + (r % 100)
    OBVIOUS
  <2> QED BY <2>1
<1>3. PICK t \in 0 .. 24, u \in 0 .. 3 : s = 4 * t + u
  <2>1. s \div 4 \in 0 .. 24 /\ s % 4 \in 0 .. 3 /\ s = 4 * (s \div 4) + (s % 4)
    OBVIOUS
  <2> QED BY <2>1
<1>4. y = 400 * q + 100 * c + 4 * t + u
  BY <1>1, <1>2, <1>3
<1>5. y \div 100 = 4 * q + c /\ y % 100 = 4 * t + u
  BY <1>4
<1>6. y \div 4 = 100 * q + 25 * c + t /\ y % 4 = u
  BY <1>4
<1> QED BY <1>1, <1>2, <1>3, <1>4, <1>5, <1>6

\* The Julian day number, with the year and the month counted from March.
LEMMA JulianByMarch ==
    ASSUME NEW year \in Int, NEW month \in Months, NEW d \in Int
    PROVE  /\ MarchYear(year, month) \in Int /\ MarchMonth(month) \in 0 .. 11
           /\ getJulianDayNumber(year, month, d) =
                Julian(MarchYear(year, month), MarchMonth(month), d)
<1>1. (14 - month) \div 12 = IF month <= 2 THEN 1 ELSE 0
  BY DEF Months
<1>2. CASE month <= 2
  <2>1. /\ year + 4800 - (14 - month) \div 12 = MarchYear(year, month)
        /\ month + 12 * ((14 - month) \div 12) - 3 = MarchMonth(month)
        /\ MarchYear(year, month) \in Int /\ MarchMonth(month) \in 0 .. 11
    BY <1>1, <1>2 DEF MarchYear, MarchMonth, Months
  <2> QED BY <2>1 DEF getJulianDayNumber, Julian, DaysBefore
<1>3. CASE ~(month <= 2)
  <2>1. /\ year + 4800 - (14 - month) \div 12 = MarchYear(year, month)
        /\ month + 12 * ((14 - month) \div 12) - 3 = MarchMonth(month)
        /\ MarchYear(year, month) \in Int /\ MarchMonth(month) \in 0 .. 11
    BY <1>1, <1>3 DEF MarchYear, MarchMonth, Months
  <2> QED BY <2>1 DEF getJulianDayNumber, Julian, DaysBefore
<1> QED BY <1>2, <1>3

\* The days before a month of the year from March.
LEMMA DaysBeforeTable ==
    /\ DaysBefore(0) = 0 /\ DaysBefore(1) = 31 /\ DaysBefore(2) = 61 /\ DaysBefore(3) = 92
    /\ DaysBefore(4) = 122 /\ DaysBefore(5) = 153 /\ DaysBefore(6) = 184 /\ DaysBefore(7) = 214
    /\ DaysBefore(8) = 245 /\ DaysBefore(9) = 275 /\ DaysBefore(10) = 306 /\ DaysBefore(11) = 337
BY DEF DaysBefore

\* A year of the formulas has the leap day of the calendar's next year at its
\* end, and the days of a date are within it.
LEMMA DateInYear ==
    ASSUME NEW d, DateOK(d)
    PROVE  /\ MarchYear(d.year, d.month) \in Nat
           /\ DayOfYear(d) \in 0 .. 365
           /\ DayOfYear(d) = 365 => IsLeap(MarchYear(d.year, d.month) + 1)
<1>1. /\ d.year \in Int /\ d.year >= -4799 /\ d.month \in Months /\ d.day \in Int
      /\ 1 <= d.day /\ d.day <= DaysIn(d.year, d.month)
  BY DEF DateOK, Dates
<1>2. MarchYear(d.year, d.month) \in Nat
  BY <1>1 DEF MarchYear, Months
<1>3. \A y \in Int : IsLeap(y + 4800) <=> IsLeap(y)
  <2> SUFFICES ASSUME NEW y \in Int PROVE IsLeap(y + 4800) <=> IsLeap(y)
    OBVIOUS
  <2>1. (y + 4800) % 4 = y % 4 /\ (y + 4800) % 100 = y % 100 /\ (y + 4800) % 400 = y % 400
    OBVIOUS
  <2> QED BY <2>1 DEF IsLeap
<1>4. CASE d.month = 2
  <2>1. MarchMonth(d.month) = 11 /\ MarchYear(d.year, d.month) + 1 = d.year + 4800
    BY <1>1, <1>4 DEF MarchMonth, MarchYear
  <2>2. DaysIn(d.year, d.month) = IF IsLeap(d.year) THEN 29 ELSE 28
    BY <1>4 DEF DaysIn
  <2>3. DayOfYear(d) = 337 + d.day - 1
    BY <2>1, DaysBeforeTable DEF DayOfYear
  <2> QED BY <1>1, <1>2, <1>3, <2>1, <2>2, <2>3
<1>5. CASE d.month # 2
  <2>1. DaysIn(d.year, d.month) <= 31 /\ DaysIn(d.year, d.month) \in Int
    BY <1>1, <1>5 DEF DaysIn, Months
  <2>2. MarchMonth(d.month) \in 0 .. 10
    BY <1>1, <1>5 DEF MarchMonth, Months
  <2>3. DaysBefore(MarchMonth(d.month)) \in 0 .. 306
    BY <2>2, DaysBeforeTable
  <2>4. DayOfYear(d) \in 0 .. 336
    BY <1>1, <2>1, <2>3 DEF DayOfYear
  <2> QED BY <1>2, <2>4
<1> QED BY <1>4, <1>5

\* The month and the day of it, from the day of the year.
LEMMA InverseMonth ==
    ASSUME NEW m \in 0 .. 11, NEW k \in 1 .. 31, m \in {1, 3, 6, 8} => k <= 30, m = 11 => k <= 29
    PROVE  (5 * (DaysBefore(m) + k - 1) + 2) \div 153 = m
<1>1. m \in {0, 1, 2, 3, 4, 5, 6, 7, 8, 9, 10, 11}
  OBVIOUS
<1> QED BY <1>1, DaysBeforeTable

\* The days of a month, from March, are those the formula leaves it.
LEMMA DaysOfMonth ==
    ASSUME NEW d, DateOK(d)
    PROVE  /\ MarchMonth(d.month) \in 0 .. 11 /\ d.day \in 1 .. 31
           /\ MarchMonth(d.month) \in {1, 3, 6, 8} => d.day <= 30
           /\ MarchMonth(d.month) = 11 => d.day <= 29
<1>1. /\ d.year \in Int /\ d.month \in Months /\ d.day \in Int
      /\ 1 <= d.day /\ d.day <= DaysIn(d.year, d.month)
  BY DEF DateOK, Dates
<1>2. /\ DaysIn(d.year, d.month) <= 31 /\ DaysIn(d.year, d.month) \in Int
      /\ d.month \in {4, 6, 9, 11} => DaysIn(d.year, d.month) = 30
      /\ d.month = 2 => DaysIn(d.year, d.month) <= 29
  BY <1>1 DEF DaysIn, Months
<1>3. /\ MarchMonth(d.month) \in 0 .. 11
      /\ MarchMonth(d.month) \in {1, 3, 6, 8} => d.month \in {4, 6, 9, 11}
      /\ MarchMonth(d.month) = 11 => d.month = 2
  BY <1>1 DEF MarchMonth, Months
<1> QED BY <1>1, <1>2, <1>3

\* getYearMonthDay() step by step.
OfMonth(b, d, e, m) ==
    [year |-> b * 100 + d - 4800 + m \div 10, month |-> m + 3 - 12 * (m \div 10),
     day |-> e - (153 * m + 2) \div 5 + 1]
OfYear(b, d, e) == OfMonth(b, d, e, (5 * e + 2) \div 153)
OfCentury(b, c) ==
    OfYear(b, (4 * c + 3) \div 1461, c - (1461 * ((4 * c + 3) \div 1461)) \div 4)
OfDay(a) == OfCentury((4 * a + 3) \div 146097, a - (((4 * a + 3) \div 146097) * 146097) \div 4)

\* getYearMonthDay() is the inverse of getJulianDayNumber().
LEMMA DateRoundTrip ==
    ASSUME NEW date, DateOK(date)
    PROVE  /\ getJulianDayNumber(date.year, date.month, date.day) \in Int
           /\ getYearMonthDay(getJulianDayNumber(date.year, date.month, date.day)) = date
<1>1. /\ date.year \in Int /\ date.month \in Months /\ date.day \in Int
      /\ date = [year |-> date.year, month |-> date.month, day |-> date.day]
  BY DEF DateOK, Dates
<1>2. PICK y \in Nat : y = MarchYear(date.year, date.month)
  BY DateInYear
<1>3. PICK m \in 0 .. 11 : m = MarchMonth(date.month)
  BY DaysOfMonth
<1>4. PICK k \in 1 .. 31 : k = date.day
  BY DaysOfMonth
<1>5. PICK e \in 0 .. 365 : e = DayOfYear(date)
  BY DateInYear
<1>6. PICK q \in Nat, c \in 0 .. 3, t \in 0 .. 24, u \in 0 .. 3 :
         /\ y = 400 * q + 100 * c + 4 * t + u
         /\ y \div 400 = q /\ y \div 100 = 4 * q + c /\ y \div 4 = 100 * q + 25 * c + t
         /\ y % 4 = u /\ y % 100 = 4 * t + u /\ y % 400 = 100 * c + 4 * t + u
  BY YearParts
<1>7. y = 400 * q + 100 * c + 4 * t + u
  BY <1>6
<1>8. e = 365 => u = 3 /\ (t # 24 \/ c = 3)
  <2>1. DayOfYear(date) = 365 => IsLeap(MarchYear(date.year, date.month) + 1)
    BY DateInYear
  <2>2. e = 365 => IsLeap(y + 1)
    BY ONLY <1>2, <1>5, <2>1
  <2>3. (y + 1) % 4 = 0 <=> u = 3
    BY <1>7
  <2>4. (y + 1) % 100 = 0 <=> u = 3 /\ t = 24
    BY <1>7
  <2>5. (y + 1) % 400 = 0 <=> u = 3 /\ t = 24 /\ c = 3
    BY <1>7
  <2> QED BY <2>2, <2>3, <2>4, <2>5 DEF IsLeap
<1>9. PICK n \in Int, b \in Int, d \in Int :
         n = 365 * (4 * t + u) + t + e /\ b = 4 * q + c /\ d = 4 * t + u
  OBVIOUS
<1>10. PICK f \in Int : f = DaysBefore(m) /\ f = (153 * m + 2) \div 5 /\ e = f + k - 1
  BY <1>3, <1>4, <1>5 DEF DaysBefore, DayOfYear
<1>11. PICK a \in Int :
         /\ a = getJulianDayNumber(date.year, date.month, date.day) + 32044
         /\ getJulianDayNumber(date.year, date.month, date.day) \in Int
         /\ a = 146097 * q + 36524 * c + n
  <2>1. getJulianDayNumber(date.year, date.month, date.day)
          = k + f + 365 * y + y \div 4 - y \div 100 + y \div 400 - 32045
    <3>1. getJulianDayNumber(date.year, date.month, date.day) = Julian(y, m, k)
      BY ONLY <1>1, <1>2, <1>3, <1>4, JulianByMarch
    <3>2. Julian(y, m, k) = k + DaysBefore(m) + 365 * y + y \div 4 - y \div 100 + y \div 400 - 32045
      BY ONLY DEF Julian
    <3>3. DaysBefore(m) = f
      BY <1>10
    <3> QED BY ONLY <3>1, <3>2, <3>3
  <2>2. getJulianDayNumber(date.year, date.month, date.day)
          = k + f + 365 * y + (100 * q + 25 * c + t) - (4 * q + c) + q - 32045
    BY <1>6, <2>1
  <2> QED BY <1>7, <1>9, <1>10, <2>2
<1>12. b = (4 * a + 3) \div 146097
  <2>1. 4 * a + 3 = 146097 * b + (1460 * d + 4 * t + 4 * e + 3 - c)
    BY <1>9, <1>11
  <2>2. 0 <= 1460 * d + 4 * t + 4 * e + 3 - c /\ 1460 * d + 4 * t + 4 * e + 3 - c < 146097
    <3>1. CASE e <= 364
      BY <1>9, <3>1
    <3>2. CASE e = 365 /\ t <= 23
      BY <1>9, <3>2
    <3>3. CASE e = 365 /\ t = 24
      <4>1. u = 3 /\ c = 3
        BY <1>8, <3>3
      <4> QED BY <1>9, <3>3, <4>1
    <3> QED BY <3>1, <3>2, <3>3
  <2>3. 4 * a + 3 \in Int /\ 1460 * d + 4 * t + 4 * e + 3 - c \in Int
    OBVIOUS
  <2> QED BY <2>1, <2>2, <2>3, Quotient
<1>13. n = a - (b * 146097) \div 4
  <2>1. (b * 146097) \div 4 = 146097 * q + 36524 * c
    BY <1>9
  <2> QED BY <1>11, <2>1
<1>14. d = (4 * n + 3) \div 1461
  <2>1. 4 * n + 3 = 1461 * d + (4 * e + 3 - u)
    BY <1>9
  <2>2. 0 <= 4 * e + 3 - u /\ 4 * e + 3 - u < 1461
    BY <1>8
  <2>3. 4 * n + 3 \in Int /\ 4 * e + 3 - u \in Int
    OBVIOUS
  <2> QED BY <2>1, <2>2, <2>3, Quotient
<1>15. e = n - (1461 * d) \div 4
  <2>1. (1461 * d) \div 4 = 1461 * t + 365 * u
    BY <1>9
  <2> QED BY <1>9, <2>1
<1>16. m = (5 * e + 2) \div 153
  <2>1. (m \in {1, 3, 6, 8} => k <= 30) /\ (m = 11 => k <= 29)
    BY <1>3, <1>4, DaysOfMonth
  <2>2. (5 * (DaysBefore(m) + k - 1) + 2) \div 153 = m
    BY <2>1, InverseMonth
  <2> QED BY <1>10, <2>2
<1>17. getYearMonthDay(getJulianDayNumber(date.year, date.month, date.day)) = OfMonth(b, d, e, m)
  <2>1. \A x : getYearMonthDay(x) = OfDay(x + 32044)
    BY DEF getYearMonthDay, OfDay, OfCentury, OfYear, OfMonth
  <2>2. OfDay(a) = OfCentury(b, n)
    BY <1>12, <1>13 DEF OfDay
  <2>3. OfCentury(b, n) = OfYear(b, d, e)
    BY <1>14, <1>15 DEF OfCentury
  <2>4. OfYear(b, d, e) = OfMonth(b, d, e, m)
    BY <1>16 DEF OfYear
  <2>5. getYearMonthDay(getJulianDayNumber(date.year, date.month, date.day)) = OfDay(a)
    BY ONLY <1>11, <2>1
  <2> QED BY ONLY <2>2, <2>3, <2>4, <2>5
<1>18. b * 100 + d = y /\ e - (153 * m + 2) \div 5 + 1 = date.day
  BY <1>4, <1>7, <1>9, <1>10
<1>19. y - 4800 + m \div 10 = date.year /\ m + 3 - 12 * (m \div 10) = date.month
  <2>1. CASE date.month <= 2
    <3>1. y = date.year + 4799 /\ m = date.month + 9
      BY <1>2, <1>3, <2>1 DEF MarchYear, MarchMonth
    <3> QED BY <1>1, <2>1, <3>1 DEF Months
  <2>2. CASE ~(date.month <= 2)
    <3>1. y = date.year + 4800 /\ m = date.month - 3
      BY <1>2, <1>3, <2>2 DEF MarchYear, MarchMonth
    <3> QED BY <1>1, <2>2, <3>1 DEF Months
  <2> QED BY <2>1, <2>2
<1>20. OfMonth(b, d, e, m) = [year |-> date.year, month |-> date.month, day |-> date.day]
  BY <1>18, <1>19 DEF OfMonth
<1> QED BY ONLY <1>1, <1>11, <1>17, <1>20

JulianOf(d) == getJulianDayNumber(d.year, d.month, d.day)

\* The leap years before a year, and in it.
LeapsTo(y) == y \div 4 - y \div 100 + y \div 400
LEMMA LeapsCount ==
    ASSUME NEW y \in Int
    PROVE  /\ LeapsTo(y) \in Int /\ LeapsTo(y + 1) \in Int
           /\ LeapsTo(y + 1) = LeapsTo(y) + (IF IsLeap(y + 1) THEN 1 ELSE 0)
<1>1. (y + 1) \div 4 = y \div 4 + (IF (y + 1) % 4 = 0 THEN 1 ELSE 0)
  OBVIOUS
<1>2. (y + 1) \div 100 = y \div 100 + (IF (y + 1) % 100 = 0 THEN 1 ELSE 0)
  OBVIOUS
<1>3. (y + 1) \div 400 = y \div 400 + (IF (y + 1) % 400 = 0 THEN 1 ELSE 0)
  OBVIOUS
<1>4. ((y + 1) % 400 = 0 => (y + 1) % 100 = 0) /\ ((y + 1) % 100 = 0 => (y + 1) % 4 = 0)
  OBVIOUS
<1>5. PICK z \in Int : z = y + 1
  OBVIOUS
<1>6. /\ y \div 4 \in Int /\ y \div 100 \in Int /\ y \div 400 \in Int
      /\ z \div 4 \in Int /\ z \div 100 \in Int /\ z \div 400 \in Int
  OBVIOUS
<1>7. LeapsTo(y) \in Int /\ LeapsTo(z) \in Int
  BY <1>6 DEF LeapsTo
<1>8. LeapsTo(z) = LeapsTo(y) + (IF IsLeap(z) THEN 1 ELSE 0)
  <2>1. CASE z % 4 # 0
    BY <1>1, <1>2, <1>3, <1>4, <1>5, <1>6, <2>1 DEF LeapsTo, IsLeap
  <2>2. CASE z % 4 = 0 /\ z % 100 # 0
    BY <1>1, <1>2, <1>3, <1>4, <1>5, <1>6, <2>2 DEF LeapsTo, IsLeap
  <2>3. CASE z % 100 = 0 /\ z % 400 # 0
    BY <1>1, <1>2, <1>3, <1>4, <1>5, <1>6, <2>3 DEF LeapsTo, IsLeap
  <2>4. CASE z % 400 = 0
    BY <1>1, <1>2, <1>3, <1>4, <1>5, <1>6, <2>4 DEF LeapsTo, IsLeap
  <2> QED BY <1>4, <1>5, <2>1, <2>2, <2>3, <2>4
<1> QED BY ONLY <1>5, <1>7, <1>8

\* The calendar repeats itself every 400 years.
LEMMA LeapAgain ==
    ASSUME NEW y \in Int
    PROVE  IsLeap(y + 4800) <=> IsLeap(y)
<1>1. (y + 4800) % 4 = y % 4 /\ (y + 4800) % 100 = y % 100 /\ (y + 4800) % 400 = y % 400
  OBVIOUS
<1> QED BY <1>1 DEF IsLeap

\* The Julian day number as a sum.
LEMMA JulianSum ==
    ASSUME NEW year \in Int, NEW month \in Months, NEW k \in Int
    PROVE  /\ getJulianDayNumber(year, month, k) \in Int
           /\ getJulianDayNumber(year, month, k) =
                k + DaysBefore(MarchMonth(month)) + 365 * MarchYear(year, month)
                  + LeapsTo(MarchYear(year, month)) - 32045
<1>1. PICK y \in Int, m \in 0 .. 11 : y = MarchYear(year, month) /\ m = MarchMonth(month)
  BY JulianByMarch
<1>2. getJulianDayNumber(year, month, k) = Julian(y, m, k)
  BY ONLY <1>1, JulianByMarch, year \in Int, month \in Months, k \in Int
<1>3. PICK f \in Int, a \in Int, b \in Int, c \in Int :
         f = DaysBefore(m) /\ a = y \div 4 /\ b = y \div 100 /\ c = y \div 400
  BY DEF DaysBefore
<1>4. Julian(y, m, k) = k + f + 365 * y + a - b + c - 32045
  BY ONLY <1>3 DEF Julian
<1>5. LeapsTo(y) = a - b + c
  BY ONLY <1>3 DEF LeapsTo
<1>6. /\ k + f + 365 * y + a - b + c - 32045 \in Int
      /\ k + f + 365 * y + a - b + c - 32045 = k + f + 365 * y + (a - b + c) - 32045
  OBVIOUS
<1> QED BY ONLY <1>1, <1>2, <1>3, <1>4, <1>5, <1>6

\* The days of the calendar are counted one by one: the day after has the next number.
LEMMA DayAfter ==
    ASSUME NEW d, DateOK(d)
    PROVE  DateOK(Tomorrow(d)) /\ JulianOf(Tomorrow(d)) = JulianOf(d) + 1
<1>1. PICK y \in Int, m \in Months, k \in Int :
         /\ y = d.year /\ m = d.month /\ k = d.day /\ y >= -4799
         /\ 1 <= k /\ k <= DaysIn(y, m)
         /\ d = [year |-> y, month |-> m, day |-> k]
  BY DEF DateOK, Dates
<1>2. DaysIn(y, m) \in 28 .. 31 /\ (m = 12 => DaysIn(y, m) = 31)
  BY DEF DaysIn, Months
<1>3. JulianOf(d) \in Int /\ JulianOf(d) = k + DaysBefore(MarchMonth(m)) + 365 * MarchYear(y, m)
                                            + LeapsTo(MarchYear(y, m)) - 32045
  BY <1>1, JulianSum DEF JulianOf
<1>4. MarchMonth(m) \in 0 .. 11 /\ MarchYear(y, m) \in Int
  BY JulianByMarch
<1>5. DaysBefore(MarchMonth(m)) \in Int /\ LeapsTo(MarchYear(y, m)) \in Int
  BY <1>4, LeapsCount DEF DaysBefore
<1>6. CASE k < DaysIn(y, m)
  <2>1. Tomorrow(d) = [year |-> y, month |-> m, day |-> k + 1]
    BY <1>1, <1>6 DEF Tomorrow
  <2>2. DateOK(Tomorrow(d))
    BY <1>1, <1>2, <1>6, <2>1 DEF DateOK, Dates
  <2>3. JulianOf(Tomorrow(d)) = (k + 1) + DaysBefore(MarchMonth(m)) + 365 * MarchYear(y, m)
                                  + LeapsTo(MarchYear(y, m)) - 32045
    BY <1>1, <2>1, JulianSum DEF JulianOf
  <2> QED BY <1>3, <1>4, <1>5, <2>2, <2>3
<1>7. CASE k = DaysIn(y, m) /\ m < 12
  <2>1. Tomorrow(d) = [year |-> y, month |-> m + 1, day |-> 1] /\ m + 1 \in Months
    <3>1. ~(d.day < DaysIn(d.year, d.month)) /\ d.month < 12
      BY <1>1, <1>2, <1>7
    <3>2. Tomorrow(d) = [year |-> d.year, month |-> d.month + 1, day |-> 1]
      BY <3>1 DEF Tomorrow
    <3>3. m + 1 \in Months
      BY <1>7 DEF Months
    <3> QED BY ONLY <1>1, <3>2, <3>3
  <2>2. 1 <= DaysIn(y, m + 1) /\ DaysIn(y, m + 1) \in Int
    BY <2>1 DEF DaysIn, Months
  <2>3. DateOK(Tomorrow(d))
    BY <1>1, <2>1, <2>2 DEF DateOK, Dates
  <2>4. JulianOf(Tomorrow(d)) = 1 + DaysBefore(MarchMonth(m + 1)) + 365 * MarchYear(y, m + 1)
                                  + LeapsTo(MarchYear(y, m + 1)) - 32045
    BY <1>1, <2>1, JulianSum DEF JulianOf
  <2>5. CASE m = 2
    <3>1. /\ MarchMonth(m) = 11 /\ MarchMonth(m + 1) = 0
          /\ MarchYear(y, m) = y + 4799 /\ MarchYear(y, m + 1) = y + 4800
      BY <2>5 DEF MarchMonth, MarchYear
    <3>2. LeapsTo(y + 4800) = LeapsTo(y + 4799) + (IF IsLeap(y) THEN 1 ELSE 0)
      <4>1. PICK z \in Int : z = y + 4799 /\ z + 1 = y + 4800
        OBVIOUS
      <4>2. LeapsTo(z + 1) = LeapsTo(z) + (IF IsLeap(z + 1) THEN 1 ELSE 0)
        BY ONLY LeapsCount, z \in Int
      <4>3. IsLeap(z + 1) <=> IsLeap(y)
        BY ONLY <4>1, LeapAgain, y \in Int
      <4> QED BY ONLY <4>1, <4>2, <4>3
    <3>3. k = IF IsLeap(y) THEN 29 ELSE 28
      BY <1>7, <2>5 DEF DaysIn
    <3>4. JulianOf(d) = k + 337 + 365 * (y + 4799) + LeapsTo(y + 4799) - 32045
      BY ONLY <1>3, <3>1, DaysBeforeTable
    <3>5. JulianOf(Tomorrow(d)) = 1 + 0 + 365 * (y + 4800) + LeapsTo(y + 4800) - 32045
      BY ONLY <2>4, <3>1, DaysBeforeTable
    <3>6. LeapsTo(y + 4799) \in Int
      BY <1>5, <3>1
    <3>7. JulianOf(Tomorrow(d)) = JulianOf(d) + 1
      BY <3>2, <3>3, <3>4, <3>5, <3>6
    <3> QED BY <2>3, <3>7
  <2>6. CASE m # 2
    <3>1. MarchYear(y, m + 1) = MarchYear(y, m) /\ MarchMonth(m + 1) = MarchMonth(m) + 1
      BY <2>6, <1>7 DEF MarchMonth, MarchYear, Months
    <3>2. k = IF m \in {4, 6, 9, 11} THEN 30 ELSE 31
      BY <1>7, <2>6 DEF DaysIn
    <3>3. MarchMonth(m) = (IF m <= 2 THEN m + 9 ELSE m - 3)
      BY DEF MarchMonth
    <3>4. DaysBefore(MarchMonth(m) + 1) = DaysBefore(MarchMonth(m)) + k
      <4>1. m \in {1, 3, 4, 5, 6, 7, 8, 9, 10, 11}
        BY <1>7, <2>6 DEF Months
      <4> QED BY <3>2, <3>3, <4>1, DaysBeforeTable
    <3>5. JulianOf(Tomorrow(d)) = 1 + (DaysBefore(MarchMonth(m)) + k) + 365 * MarchYear(y, m)
                                    + LeapsTo(MarchYear(y, m)) - 32045
      BY ONLY <2>4, <3>1, <3>4
    <3> QED BY <1>3, <1>4, <1>5, <2>3, <3>5
  <2> QED BY <2>5, <2>6
<1>8. CASE k = DaysIn(y, m) /\ m = 12
  <2>1. Tomorrow(d) = [year |-> y + 1, month |-> 1, day |-> 1] /\ 1 \in Months /\ k = 31
    BY <1>1, <1>2, <1>8 DEF Tomorrow, Months
  <2>2. DaysIn(y + 1, 1) = 31
    BY DEF DaysIn
  <2>3. DateOK(Tomorrow(d))
    BY <1>1, <2>1, <2>2 DEF DateOK, Dates
  <2>4. JulianOf(Tomorrow(d)) = 1 + DaysBefore(MarchMonth(1)) + 365 * MarchYear(y + 1, 1)
                                  + LeapsTo(MarchYear(y + 1, 1)) - 32045
    BY <1>1, <2>1, JulianSum DEF JulianOf
  <2>5. /\ MarchMonth(m) = 9 /\ MarchMonth(1) = 10
        /\ MarchYear(y + 1, 1) = MarchYear(y, m)
    BY <1>8 DEF MarchMonth, MarchYear
  <2>6. DaysBefore(9) = 275 /\ DaysBefore(10) = 306
    BY DaysBeforeTable
  <2>7. /\ JulianOf(Tomorrow(d)) = 1 + 306 + 365 * MarchYear(y, m) + LeapsTo(MarchYear(y, m)) - 32045
        /\ JulianOf(d) = 31 + 275 + 365 * MarchYear(y, m) + LeapsTo(MarchYear(y, m)) - 32045
    BY ONLY <1>3, <2>1, <2>4, <2>5, <2>6
  <2> QED BY <1>4, <1>5, <2>3, <2>7
<1> QED BY <1>1, <1>2, <1>6, <1>7, <1>8 DEF Months

\* A year has as many days as the numbers of its first day and the next year's are apart.
LEMMA YearAfter ==
    ASSUME NEW y \in Int, y >= -4799
    PROVE  /\ DateOK(NewYear(y)) /\ DaysOf(y) \in Int
           /\ JulianOf(NewYear(y + 1)) = JulianOf(NewYear(y)) + DaysOf(y)
           /\ JulianOf(NewYear(y)) \in Int /\ JulianOf(NewYear(y + 1)) \in Int
<1>1. DateOK(NewYear(y))
  <2>1. DaysIn(y, 1) = 31
    BY DEF DaysIn
  <2> QED BY <2>1 DEF DateOK, Dates, NewYear, Months
<1>2. \A z \in Int : /\ JulianOf(NewYear(z)) \in Int
                     /\ JulianOf(NewYear(z)) = 1 + 306 + 365 * (z + 4799) + LeapsTo(z + 4799) - 32045
  <2> SUFFICES ASSUME NEW z \in Int
               PROVE  /\ JulianOf(NewYear(z)) \in Int
                      /\ JulianOf(NewYear(z)) = 1 + 306 + 365 * (z + 4799) + LeapsTo(z + 4799) - 32045
    OBVIOUS
  <2>1. /\ JulianOf(NewYear(z)) = getJulianDayNumber(z, 1, 1) /\ 1 \in Months
        /\ MarchMonth(1) = 10 /\ MarchYear(z, 1) = z + 4799
    BY DEF JulianOf, NewYear, Months, MarchMonth, MarchYear
  <2>2. DaysBefore(10) = 306
    BY DaysBeforeTable
  <2>3. /\ getJulianDayNumber(z, 1, 1) \in Int
        /\ getJulianDayNumber(z, 1, 1) =
             1 + DaysBefore(MarchMonth(1)) + 365 * MarchYear(z, 1) + LeapsTo(MarchYear(z, 1)) - 32045
    BY <2>1, JulianSum
  <2> QED BY ONLY <2>1, <2>2, <2>3
<1>3. PICK z \in Int : z = y + 4799 /\ z + 1 = y + 4800
  OBVIOUS
<1>4. /\ LeapsTo(z) \in Int /\ LeapsTo(z + 1) \in Int
      /\ LeapsTo(z + 1) = LeapsTo(z) + (IF IsLeap(z + 1) THEN 1 ELSE 0)
  BY ONLY LeapsCount, z \in Int
<1>5. IsLeap(z + 1) <=> IsLeap(y)
  BY ONLY <1>3, LeapAgain, y \in Int
<1>6. LeapsTo(z + 1) + 365 = LeapsTo(z) + DaysOf(y) /\ DaysOf(y) \in Int
  BY <1>4, <1>5 DEF DaysOf
<1>7. /\ JulianOf(NewYear(y)) \in Int
      /\ JulianOf(NewYear(y)) = 1 + 306 + 365 * z + LeapsTo(z) - 32045
  BY ONLY <1>2, <1>3, y \in Int
<1>8. /\ JulianOf(NewYear(y + 1)) \in Int
      /\ JulianOf(NewYear(y + 1)) = 1 + 306 + 365 * (z + 1) + LeapsTo(z + 1) - 32045
  <2>1. PICK w \in Int : w = y + 1 /\ w + 4799 = z + 1
    BY <1>3
  <2>2. /\ JulianOf(NewYear(w)) \in Int
        /\ JulianOf(NewYear(w)) = 1 + 306 + 365 * (w + 4799) + LeapsTo(w + 4799) - 32045
    BY ONLY <1>2, w \in Int
  <2> QED BY ONLY <2>1, <2>2
<1>9. JulianOf(NewYear(y + 1)) = JulianOf(NewYear(y)) + DaysOf(y)
  BY <1>4, <1>6, <1>7, <1>8
<1> QED BY <1>1, <1>6, <1>7, <1>8, <1>9

\* The day of the year, from January.
LEMMA DayOfTheYear ==
    ASSUME NEW d, DateOK(d)
    PROVE  JulianOf(d) - getJulianDayNumber(d.year, 1, 1)
             \in 0 .. (IF IsLeap(d.year) THEN 365 ELSE 364)
<1>1. PICK y \in Int, m \in Months, k \in Int :
         y = d.year /\ m = d.month /\ k = d.day /\ 1 <= k /\ k <= DaysIn(y, m)
  BY DEF DateOK, Dates
<1>2. JulianOf(d) = k + DaysBefore(MarchMonth(m)) + 365 * MarchYear(y, m)
                      + LeapsTo(MarchYear(y, m)) - 32045
  BY <1>1, JulianSum DEF JulianOf
<1>3. getJulianDayNumber(y, 1, 1) = 1 + 306 + 365 * (y + 4799) + LeapsTo(y + 4799) - 32045
  <2>1. 1 \in Months /\ MarchMonth(1) = 10 /\ MarchYear(y, 1) = y + 4799
    BY DEF Months, MarchMonth, MarchYear
  <2>2. DaysBefore(10) = 306
    BY DaysBeforeTable
  <2>3. getJulianDayNumber(y, 1, 1) =
          1 + DaysBefore(MarchMonth(1)) + 365 * MarchYear(y, 1) + LeapsTo(MarchYear(y, 1)) - 32045
    BY <2>1, JulianSum
  <2> QED BY ONLY <2>1, <2>2, <2>3
<1>4. PICK z \in Int : z = y + 4799 /\ z + 1 = y + 4800
  OBVIOUS
<1>5. /\ LeapsTo(z) \in Int /\ LeapsTo(z + 1) \in Int
      /\ LeapsTo(z + 1) = LeapsTo(z) + (IF IsLeap(z + 1) THEN 1 ELSE 0)
  BY ONLY LeapsCount, z \in Int
<1>6. IsLeap(z + 1) <=> IsLeap(y)
  BY ONLY <1>4, LeapAgain, y \in Int
<1>7. PICK g \in Int : g = JulianOf(d) - getJulianDayNumber(y, 1, 1)
  <2>1. JulianOf(d) \in Int
    BY DateRoundTrip DEF JulianOf
  <2>2. getJulianDayNumber(y, 1, 1) \in Int
    BY JulianSum, 1 \in Months DEF Months
  <2> QED BY <2>1, <2>2
<1>8. CASE m <= 2
  <2>1. MarchYear(y, m) = z /\ MarchMonth(m) = m + 9
    BY <1>4, <1>8 DEF MarchYear, MarchMonth
  <2>2. JulianOf(d) = k + DaysBefore(m + 9) + 365 * z + LeapsTo(z) - 32045
    BY ONLY <1>2, <2>1
  <2>3. m = 1 \/ m = 2
    BY <1>8 DEF Months
  <2>4. DaysBefore(10) = 306 /\ DaysBefore(11) = 337
    BY DaysBeforeTable
  <2>5. CASE m = 1
    <3>1. k <= 31
      BY <1>1, <2>5 DEF DaysIn
    <3>2. JulianOf(d) = k + 306 + 365 * z + LeapsTo(z) - 32045
      BY <2>2, <2>4, <2>5
    <3>3. g = k - 1
      BY <1>3, <1>4, <1>5, <1>7, <3>2
    <3> QED BY <1>1, <1>7, <3>1, <3>3
  <2>6. CASE m = 2
    <3>1. k <= 29
      BY <1>1, <2>6 DEF DaysIn
    <3>2. JulianOf(d) = k + 337 + 365 * z + LeapsTo(z) - 32045
      BY <2>2, <2>4, <2>6
    <3>3. g = k + 30
      BY <1>3, <1>4, <1>5, <1>7, <3>2
    <3> QED BY <1>1, <1>7, <3>1, <3>3
  <2> QED BY <2>3, <2>5, <2>6
<1>9. CASE ~(m <= 2)
  <2>1. MarchYear(y, m) = z + 1 /\ MarchMonth(m) = m - 3
    BY <1>4, <1>9 DEF MarchYear, MarchMonth
  <2>2. JulianOf(d) = k + DaysBefore(m - 3) + 365 * (z + 1) + LeapsTo(z + 1) - 32045
    BY ONLY <1>2, <2>1
  <2>3. DaysBefore(m - 3) \in 0 .. 275
    <3>1. m \in {3, 4, 5, 6, 7, 8, 9, 10, 11, 12}
      BY <1>9 DEF Months
    <3> QED BY <3>1, DaysBeforeTable
  <2>4. k <= 31
    BY <1>1, <1>9 DEF DaysIn, Months
  <2>5. g = k + DaysBefore(m - 3) + 58 + (IF IsLeap(y) THEN 1 ELSE 0)
    BY <1>3, <1>4, <1>5, <1>6, <1>7, <2>2, <2>3
  <2> QED BY <1>1, <1>7, <2>3, <2>4, <2>5
<1> QED BY <1>8, <1>9

\* The day and the second of it, before 1970 too.
LEMMA SplitDay ==
    ASSUME NEW n \in Int, NEW k \in Int, 0 <= k, k < kSecondsPerDay
    PROVE  Split(n * kSecondsPerDay + k) = [seconds |-> k, days |-> n]
<1>1. PICK w \in Nat : w = kSecondsPerDay /\ w > 0
  BY DEF kSecondsPerDay
<1>2. PICK s \in Int : s = n * w + k /\ s = w * n + k
  <2>1. n * w \in Int /\ n * w = w * n
    OBVIOUS
  <2> QED BY <2>1
<1>3. CASE n >= 0
  <2>1. s >= 0 /\ s \div w = n
    <3>1. n * w >= 0
      BY <1>3
    <3> QED BY <1>1, <1>2, <3>1, Quotient
  <2>2. CDiv(s, w) = n
    BY <2>1 DEF CDiv
  <2>3. CMod(s, w) = k
    BY <1>2, <2>2 DEF CMod
  <2> QED BY <1>1, <1>2, <2>2, <2>3 DEF Split
<1>4. CASE n < 0 /\ k = 0
  <2>1. -s = w * (-n) + 0
    BY <1>2, <1>4
  <2>2. (-s) \div w = -n
    BY <1>1, <2>1, Quotient
  <2>3. s < 0
    <3>1. n * w < 0
      BY <1>1, <1>4
    <3> QED BY <1>2, <1>4, <3>1
  <2>4. CDiv(s, w) = n
    BY <2>2, <2>3 DEF CDiv
  <2>5. CMod(s, w) = k
    BY <1>2, <2>4 DEF CMod
  <2> QED BY <1>1, <1>2, <2>4, <2>5 DEF Split
<1>5. CASE n < 0 /\ k > 0
  <2>1. -s = w * (-n - 1) + (w - k)
    BY <1>2
  <2>2. (-s) \div w = -n - 1
    <3>1. w - k \in Int /\ 0 <= w - k /\ w - k < w /\ -s \in Int /\ -n - 1 \in Int
      BY <1>1, <1>5
    <3> QED BY ONLY <1>1, <2>1, <3>1, Quotient, w \in Nat
  <2>3. s < 0
    <3>1. n * w <= -w
      BY <1>1, <1>5
    <3> QED BY <1>1, <1>2, <3>1
  <2>4. CDiv(s, w) = n + 1
    BY <2>2, <2>3 DEF CDiv
  <2>5. CMod(s, w) = k - w
    <3>1. (n + 1) * w = n * w + w
      OBVIOUS
    <3> QED BY <1>2, <2>4, <3>1 DEF CMod
  <2>6. k - w < 0 /\ (k - w) + w = k /\ (n + 1) - 1 = n
    BY <1>1
  <2> QED BY <1>1, <1>2, <2>4, <2>5, <2>6 DEF Split
<1> QED BY <1>3, <1>4, <1>5

\* 1970-01-01 was a Thursday, and the days of the week go on from there.
LEMMA Thursday ==
    ASSUME NEW n \in Int
    PROVE  /\ kJulianDayOf1970_01_01 \in Int
           /\ weekDay(kJulianDayOf1970_01_01 + n) = (n + 4) % 7
<1>1. LeapsTo(6769) = 1641
  BY SMT DEF LeapsTo
<1>2. 1 \in Months /\ MarchMonth(1) = 10 /\ MarchYear(1970, 1) = 6769
  BY SMT DEF Months, MarchMonth, MarchYear
<1>3. DaysBefore(10) = 306
  BY DaysBeforeTable, SMT
<1>4. getJulianDayNumber(1970, 1, 1) =
        1 + DaysBefore(MarchMonth(1)) + 365 * MarchYear(1970, 1) + LeapsTo(MarchYear(1970, 1)) - 32045
  BY <1>2, JulianSum, SMT
<1>5. kJulianDayOf1970_01_01 = 1 + 306 + 365 * 6769 + 1641 - 32045
  BY ONLY <1>1, <1>2, <1>3, <1>4, SMT DEF kJulianDayOf1970_01_01
<1> QED BY <1>5, SMT DEF weekDay

\* Hours, minutes and seconds are the second of the day again.
LEMMA HmsSum ==
    ASSUME NEW k \in Int, 0 <= k
    PROVE  fillHMS(k).tm_hour * 3600 + fillHMS(k).tm_min * 60 + fillHMS(k).tm_sec = k
<1>1. PICK a \in Int, b \in Int : a = k \div 60 /\ b = k % 60 /\ k = 60 * a + b
  OBVIOUS
<1>2. PICK h \in Int, m \in Int : h = a \div 60 /\ m = a % 60 /\ a = 60 * h + m
  OBVIOUS
<1>3. fillHMS(k) = [tm_sec |-> b, tm_min |-> m, tm_hour |-> h]
  BY ONLY <1>1, <1>2 DEF fillHMS
<1> QED BY <1>1, <1>2, <1>3, SMT

\* toUtcTime() and fromUtcTime(), for every second of a day.
LEMMA UtcOfDay ==
    ASSUME NEW d, DateOK(d), NEW n \in Int, JulianOf(d) = kJulianDayOf1970_01_01 + n,
           NEW k \in Int, 0 <= k, k < kSecondsPerDay,
           NEW utc, utc = toUtcTime(n * kSecondsPerDay + k)
    PROVE  /\ utc.ymd = d /\ fromUtcTime(utc) = n * kSecondsPerDay + k
           /\ utc.hms.tm_hour * 3600 + utc.hms.tm_min * 60 + utc.hms.tm_sec = k
           /\ utc.tm_yday \in 0 .. (IF IsLeap(d.year) THEN 365 ELSE 364)
<1>1. PICK w \in Nat : w = kSecondsPerDay
  BY DEF kSecondsPerDay
<1>2. Split(n * w + k) = [seconds |-> k, days |-> n]
  BY <1>1, SplitDay
<1>3. PICK jdn : jdn = JulianOf(d) /\ jdn = n + kJulianDayOf1970_01_01
  BY Thursday
<1>4. getYearMonthDay(jdn) = d
  BY <1>3, DateRoundTrip DEF JulianOf
<1>5. utc = [hms |-> fillHMS(k), ymd |-> d, tm_wday |-> weekDay(jdn),
             tm_yday |-> jdn - getJulianDayNumber(d.year, 1, 1)]
  BY ONLY <1>1, <1>2, <1>3, <1>4, utc = toUtcTime(n * kSecondsPerDay + k) DEF toUtcTime
<1>6. utc.hms = fillHMS(k) /\ utc.ymd = d /\ utc.tm_yday = jdn - getJulianDayNumber(d.year, 1, 1)
  BY ONLY <1>5
<1>7. utc.hms.tm_hour * 3600 + utc.hms.tm_min * 60 + utc.hms.tm_sec = k
  BY <1>6, HmsSum
<1>8. utc.tm_yday \in 0 .. (IF IsLeap(d.year) THEN 365 ELSE 364)
  <2>1. JulianOf(d) - getJulianDayNumber(d.year, 1, 1) \in 0 .. (IF IsLeap(d.year) THEN 365 ELSE 364)
    BY DayOfTheYear
  <2> QED BY ONLY <1>3, <1>6, <2>1
<1>9. fromUtcTime(utc) = n * w + k
  <2>1. getJulianDayNumber(utc.ymd.year, utc.ymd.month, utc.ymd.day) - kJulianDayOf1970_01_01 = n
    <3>1. getJulianDayNumber(utc.ymd.year, utc.ymd.month, utc.ymd.day) = n + kJulianDayOf1970_01_01
      BY ONLY <1>3, <1>6 DEF JulianOf
    <3> QED BY <3>1, Thursday
  <2>2. /\ fillHMS(k).tm_hour \in Int /\ fillHMS(k).tm_min \in Int /\ fillHMS(k).tm_sec \in Int
    BY DEF fillHMS
  <2>3. PICK h \in Int, m \in Int, s \in Int :
           h = utc.hms.tm_hour /\ m = utc.hms.tm_min /\ s = utc.hms.tm_sec
    BY <1>6, <2>2
  <2>4. fromUtcTime(utc) = n * w + h * 3600 + m * 60 + s
    BY ONLY <1>1, <2>1, <2>3 DEF fromUtcTime
  <2>5. h * 3600 + m * 60 + s = k
    BY ONLY <1>7, <2>3
  <2>6. PICK x \in Int : x = n * w
    OBVIOUS
  <2> QED BY <2>4, <2>5, <2>6, SMT
<1> QED BY ONLY <1>1, <1>6, <1>7, <1>8, <1>9

-----------------------------------------------------------------------------
(* The dates and UTC, as the days go by. *)

\* A date of the calendar, with the number the formula has for it.
DayInv ==
    /\ DateOK(day.ymd) /\ day.since1970 \in Int
    /\ JulianOf(day.ymd) = kJulianDayOf1970_01_01 + day.since1970
    /\ day.walked = 0 => day.ymd = NewYear(day.ymd.year)

DayFields == day = [ymd |-> day.ymd, since1970 |-> day.since1970, walked |-> day.walked]
DayTyped == DayFields /\ DayInv /\ day.walked \in Nat

\* The first day.
LEMMA DayInvInit == CalInit => DayTyped
<1> SUFFICES ASSUME CalInit PROVE DayTyped
  OBVIOUS
<1>1. day.ymd = NewYear(1970) /\ day.since1970 = 0 /\ day.walked = 0 /\ DayFields
  BY DEF CalInit, DayFields
<1>2. DateOK(NewYear(1970))
  BY YearAfter, SMT
<1>3. NewYear(1970).year = 1970 /\ JulianOf(NewYear(1970)) = kJulianDayOf1970_01_01
  BY DEF NewYear, JulianOf, kJulianDayOf1970_01_01
<1>4. kJulianDayOf1970_01_01 \in Int /\ kJulianDayOf1970_01_01 + 0 = kJulianDayOf1970_01_01
  BY Thursday
<1>5. DayInv
  BY ONLY <1>1, <1>2, <1>3, <1>4, 0 \in Int DEF DayInv
<1> QED BY <1>1, <1>5 DEF DayTyped

\* A step of the calendar.
LEMMA DayInvNext == DayTyped /\ [CalNext]_calVars => DayTyped'
<1> SUFFICES ASSUME DayTyped, [CalNext]_calVars PROVE DayTyped'
  OBVIOUS
<1>0. /\ DateOK(day.ymd) /\ day.since1970 \in Int /\ day.walked \in Nat
      /\ JulianOf(day.ymd) = kJulianDayOf1970_01_01 + day.since1970
      /\ day.walked = 0 => day.ymd = NewYear(day.ymd.year)
      /\ day = [ymd |-> day.ymd, since1970 |-> day.since1970, walked |-> day.walked]
  BY DEF DayTyped, DayInv, DayFields
<1>d. PICK d : d = day.ymd
  OBVIOUS
<1>1. PICK n \in Int, w \in Nat : d = day.ymd /\ n = day.since1970 /\ w = day.walked
  BY <1>0, <1>d
<1>2. PICK j \in Int : j = kJulianDayOf1970_01_01
  BY Thursday
<1>3. DateOK(d) /\ JulianOf(d) = j + n /\ day = [ymd |-> d, since1970 |-> n, walked |-> w]
  BY ONLY <1>0, <1>1, <1>2
<1>4. PICK y \in Int : y = d.year /\ y >= -4799
  BY <1>3 DEF DateOK, Dates
<1>5. CASE NextYear
  <2>1. w = 0 /\ d = NewYear(y)
    BY ONLY <1>0, <1>1, <1>4, <1>5 DEF NextYear, Counting
  <2>2. day' = [ymd |-> NewYear(y + 1), since1970 |-> n + DaysOf(y), walked |-> w]
    BY ONLY <1>1, <1>4, <1>5, <2>1 DEF NextYear
  <2>3. day'.ymd = NewYear(y + 1) /\ day'.since1970 = n + DaysOf(y) /\ day'.walked = w /\ DayFields'
    BY ONLY <2>2 DEF DayFields
  <2>4. /\ DaysOf(y) \in Int
        /\ JulianOf(NewYear(y + 1)) = JulianOf(NewYear(y)) + DaysOf(y)
    BY <1>4, YearAfter
  <2>5. DateOK(NewYear(y + 1)) /\ NewYear(y + 1).year = y + 1
    <3>1. PICK z \in Int : z = y + 1 /\ z >= -4799
      BY <1>4
    <3>2. DateOK(NewYear(z))
      BY <3>1, YearAfter
    <3> QED BY ONLY <3>1, <3>2 DEF NewYear
  <2>6. JulianOf(NewYear(y + 1)) = j + (n + DaysOf(y))
    BY <1>3, <2>1, <2>4
  <2>7. n + DaysOf(y) \in Int
    BY <2>4
  <2>8. DayInv'
    BY ONLY <1>2, <2>3, <2>5, <2>6, <2>7 DEF DayInv
  <2> QED BY <2>3, <2>8 DEF DayTyped
<1>6. CASE PreviousYear
  <2>1. w = 0 /\ d = NewYear(y) /\ y > FirstYear
    BY ONLY <1>0, <1>1, <1>4, <1>6 DEF PreviousYear, Counting
  <2>2. PICK z \in Int : z = y - 1 /\ z + 1 = y /\ z >= -4799
    BY <1>4, <2>1, CalendarConstants DEF CalendarConstants
  <2>3. day' = [ymd |-> NewYear(z), since1970 |-> n - DaysOf(z), walked |-> w]
    BY ONLY <1>1, <1>4, <1>6, <2>1, <2>2 DEF PreviousYear
  <2>4. day'.ymd = NewYear(z) /\ day'.since1970 = n - DaysOf(z) /\ day'.walked = w /\ DayFields'
    BY ONLY <2>3 DEF DayFields
  <2>5. /\ DaysOf(z) \in Int /\ DateOK(NewYear(z)) /\ JulianOf(NewYear(z)) \in Int
        /\ JulianOf(NewYear(z + 1)) = JulianOf(NewYear(z)) + DaysOf(z)
    BY <2>2, YearAfter
  <2>6. NewYear(z).year = z
    BY DEF NewYear
  <2>7. JulianOf(NewYear(z)) = j + (n - DaysOf(z)) /\ n - DaysOf(z) \in Int
    <3>1. JulianOf(NewYear(z + 1)) = j + n
      BY ONLY <1>3, <2>1, <2>2
    <3> QED BY <2>5, <3>1
  <2>8. DayInv'
    BY ONLY <1>2, <2>4, <2>5, <2>6, <2>7 DEF DayInv
  <2> QED BY <2>4, <2>8 DEF DayTyped
<1>7. CASE NextDay
  <2>1. day' = [ymd |-> Tomorrow(d), since1970 |-> n + 1, walked |-> w + 1]
    BY <1>1, <1>7 DEF NextDay
  <2>2. day'.ymd = Tomorrow(d) /\ day'.since1970 = n + 1 /\ day'.walked = w + 1 /\ DayFields'
    BY ONLY <2>1 DEF DayFields
  <2>3. DateOK(Tomorrow(d)) /\ JulianOf(Tomorrow(d)) = JulianOf(d) + 1
    BY <1>3, DayAfter
  <2>4. JulianOf(Tomorrow(d)) = j + (n + 1) /\ n + 1 \in Int /\ w + 1 \in Nat /\ w + 1 # 0
    BY <1>3, <2>3
  <2>5. DayInv'
    BY ONLY <1>2, <2>2, <2>3, <2>4 DEF DayInv
  <2> QED BY <2>2, <2>4, <2>5 DEF DayTyped
<1>8. CASE PickInstant \/ UNCHANGED calVars
  <2>1. day' = day
    BY <1>8 DEF PickInstant, calVars
  <2> QED BY <2>1 DEF DayTyped, DayInv, DayFields
<1> QED BY <1>5, <1>6, <1>7, <1>8 DEF CalNext

\* The formulas are exact on every day, and UTC at every second.
LEMMA DayExact == DayTyped => DatesExact /\ UtcExact
<1> SUFFICES ASSUME DayTyped PROVE DatesExact /\ UtcExact
  OBVIOUS
<1>d. PICK d : d = day.ymd
  OBVIOUS
<1>1. PICK n \in Int : /\ d = day.ymd /\ n = day.since1970 /\ DateOK(d)
                       /\ JulianOf(d) = kJulianDayOf1970_01_01 + n
  BY <1>d DEF DayTyped, DayInv
<1>2. DatesExact
  <2>1. getYearMonthDay(JulianOf(d)) = d
    BY <1>1, DateRoundTrip DEF JulianOf
  <2>2. weekDay(kJulianDayOf1970_01_01 + n) = (n + 4) % 7
    BY Thursday
  <2> QED BY ONLY <1>1, <2>1, <2>2 DEF DatesExact, JulianOf
<1>3. ASSUME NEW k \in EdgesOfDay PROVE UtcRight(k)
  <2>1. k \in Int /\ 0 <= k /\ k < kSecondsPerDay
    BY SMT DEF kSecondsPerDay, EdgesOfDay
  <2>2. PICK utc : utc = toUtcTime(n * kSecondsPerDay + k)
    OBVIOUS
  <2>3. /\ utc.ymd = d /\ fromUtcTime(utc) = n * kSecondsPerDay + k
        /\ utc.hms.tm_hour * 3600 + utc.hms.tm_min * 60 + utc.hms.tm_sec = k
        /\ utc.tm_yday \in 0 .. (IF IsLeap(d.year) THEN 365 ELSE 364)
    BY ONLY <1>1, <2>1, <2>2, UtcOfDay, n \in Int, SMT
  <2> QED BY ONLY <1>1, <2>2, <2>3, SMT DEF UtcRight
<1>4. UtcExact
  BY ONLY <1>3 DEF UtcExact
<1> QED BY <1>2, <1>4

-----------------------------------------------------------------------------
(* Local time. *)

\* Transitions that ascend in a field.
Ascending(ts, field) ==
    /\ ts \in Seq([gmttime : Int, localtimeIdx : Int, localtime : Int])
    /\ \A i \in 1 .. Len(ts) : ts[i][field] \in Int
    /\ \A i, j \in 1 .. Len(ts) : i < j => ts[i][field] < ts[j][field]

\* The search finds the last transition that is not after t.
LEMMA SearchFinds ==
    ASSUME NEW ts, NEW field, Ascending(ts, field), NEW t \in Int
    PROVE  \E k \in 0 .. Len(ts) :
             /\ \A i \in 1 .. Len(ts) : ts[i][field] <= t <=> i <= k
             /\ k = 0 <=> ts = <<>> \/ t < ts[1][field]
             /\ k > 0 => FoundIndex(ts, field, t) = k
<1>1. PICK n \in Nat : n = Len(ts) /\ DOMAIN ts = 1 .. n
  BY DEF Ascending
<1>2. PICK v : v = [i \in 1 .. n |-> ts[i][field]]
  OBVIOUS
<1>3. /\ \A i \in 1 .. n : v[i] \in Int /\ v[i] = ts[i][field]
      /\ \A i, j \in 1 .. n : i < j => v[i] < v[j]
  BY <1>1, <1>2 DEF Ascending
<1>4. PICK p \in 1 .. n + 1 : /\ p = n + 1 \/ t <= v[p]
                              /\ \A i \in 1 .. n : i < p => v[i] < t
  <2> DEFINE S == {i \in 1 .. n + 1 : i = n + 1 \/ t <= v[i]}
  <2>1. S \in SUBSET Nat /\ n + 1 \in S
    OBVIOUS
  <2>2. PICK p \in S : \A i \in S : p <= i
    BY <2>1, LeastOfNats
  <2>3. p \in 1 .. n + 1 /\ (p = n + 1 \/ t <= v[p])
    BY <2>2
  <2>4. ASSUME NEW i \in 1 .. n, i < p PROVE v[i] < t
    <3>1. i \notin S
      BY <2>2, <2>3, <2>4
    <3>2. ~(t <= v[i])
      BY <3>1
    <3> QED BY <1>3, <3>2
  <2> QED BY <2>3, <2>4
<1>5. \A i \in 1 .. n : v[i] < t <=> i < p
  <2> SUFFICES ASSUME NEW i \in 1 .. n, ~(i < p) PROVE ~(v[i] < t)
    BY <1>4
  <2>1. p \in 1 .. n /\ t <= v[p] /\ p <= i
    BY <1>4
  <2>2. v[p] <= v[i] /\ v[p] \in Int /\ v[i] \in Int
    BY <1>3, <2>1
  <2> QED BY <2>1, <2>2
<1>6. LowerBound(ts, field, t) = p
  <2>1. {i \in DOMAIN ts : ts[i][field] < t} = 1 .. p - 1
    <3>1. \A i \in 1 .. n : ts[i][field] < t <=> i < p
      BY <1>3, <1>5
    <3>2. \A i : i \in 1 .. p - 1 <=> i \in 1 .. n /\ i < p
      BY <1>4
    <3> QED BY <1>1, <3>1, <3>2
  <2>2. Cardinality(1 .. p - 1) = p - 1
    <3>1. 1 \in Int /\ p - 1 \in Int /\ (1 > p - 1 => p - 1 = 0)
      OBVIOUS
    <3>2. Cardinality(1 .. p - 1) = IF 1 > p - 1 THEN 0 ELSE (p - 1) - 1 + 1
      BY ONLY <3>1, FS_Interval
    <3> QED BY <3>1, <3>2
  <2>3. LowerBound(ts, field, t) = 1 + (p - 1)
    BY ONLY <2>1, <2>2 DEF LowerBound
  <2> QED BY <2>3
<1>7. CASE p = n + 1
  <2>1. FoundIndex(ts, field, t) = n
    BY <1>1, <1>6, <1>7 DEF FoundIndex
  <2>2. \A i \in 1 .. n : ts[i][field] <= t
    BY <1>3, <1>5, <1>7
  <2>3. n = 0 <=> ts = <<>> \/ t < ts[1][field]
    <3>1. ts = <<>> <=> n = 0
      BY <1>1 DEF Ascending
    <3>2. n # 0 => ~(t < ts[1][field])
      BY <1>3, <1>5, <1>7
    <3> QED BY <3>1, <3>2
  <2> QED BY <1>1, <2>1, <2>2, <2>3
<1>8. CASE p <= n /\ v[p] = t
  <2>1. FoundIndex(ts, field, t) = p
    BY <1>1, <1>3, <1>6, <1>8 DEF FoundIndex
  <2>2. \A i \in 1 .. n : ts[i][field] <= t <=> i <= p
    <3> SUFFICES ASSUME NEW i \in 1 .. n PROVE v[i] <= t <=> i <= p
      BY <1>3
    <3>1. i = p \/ i < p \/ p < i
      OBVIOUS
    <3>2. p < i => v[p] < v[i]
      BY <1>3, <1>8
    <3> QED BY <1>3, <1>5, <1>8, <3>1, <3>2
  <2>3. ~(ts = <<>> \/ t < ts[1][field])
    <3>1. ts # <<>>
      BY <1>1, <1>8
    <3>2. ts[1][field] <= t /\ ts[1][field] \in Int
      BY <1>3, <1>8, <2>2
    <3> QED BY <3>1, <3>2
  <2> QED BY <1>1, <1>8, <2>1, <2>2, <2>3
<1>9. CASE p <= n /\ v[p] # t
  <2>1. FoundIndex(ts, field, t) = p - 1
    BY <1>1, <1>3, <1>6, <1>9 DEF FoundIndex
  <2>2. \A i \in 1 .. n : ts[i][field] <= t <=> i <= p - 1
    <3> SUFFICES ASSUME NEW i \in 1 .. n PROVE v[i] <= t <=> i < p
      BY <1>3
    <3>1. i = p \/ i < p \/ p < i
      OBVIOUS
    <3>2. t < v[p]
      BY <1>3, <1>4, <1>9
    <3>3. p < i => v[p] < v[i]
      BY <1>3, <1>9
    <3> QED BY <1>3, <1>5, <1>9, <3>1, <3>2, <3>3
  <2>3. p - 1 = 0 <=> ts = <<>> \/ t < ts[1][field]
    <3>1. ts # <<>>
      BY <1>1, <1>9
    <3>2. ts[1][field] <= t <=> 1 <= p - 1
      BY <1>9, <2>2
    <3>3. ts[1][field] \in Int
      BY <1>3, <1>9
    <3> QED BY <3>1, <3>2, <3>3
  <2> QED BY <1>1, <1>9, <2>1, <2>2, <2>3
<1> QED BY <1>3, <1>7, <1>8, <1>9

\* The i-th transition is not after t, in the field compared.
Reached(data, field, t, k) ==
    \A i \in 1 .. Len(data.transitions) : data.transitions[i][field] <= t <=> i <= k

\* The transitions of a zone file as readTimeZoneFile() keeps them.
TransitionsRead(zone, data) ==
    \A i \in 1 .. Len(zone.trans) :
        /\ zone.trans[i].at \in Int /\ TypeAfter(zone, i).gmtOffset \in Int
        /\ data.transitions[i].gmttime = zone.trans[i].at
        /\ data.transitions[i].localtime = zone.trans[i].at + TypeAfter(zone, i).gmtOffset
        /\ zone.types[data.transitions[i].localtimeIdx] = TypeAfter(zone, i)

\* The local time after a transition is one of the types of the file.
TypesOf(zone) ==
    \A i \in 0 .. Len(zone.trans) :
        /\ \E k \in DOMAIN zone.types : TypeAfter(zone, i) = zone.types[k]
        /\ TypeAfter(zone, i) \in [gmtOffset : Int, isDst : BOOLEAN]

\* What readTimeZoneFile() keeps of a zone file.
LEMMA ZoneRead ==
    ASSUME NEW zone, ZoneFile(zone), NEW data, data = readTimeZoneFile(zone)
    PROVE  /\ data.localtimes = zone.types /\ Len(data.transitions) = Len(zone.trans)
           /\ Len(zone.trans) \in Nat /\ DOMAIN zone.trans = 1 .. Len(zone.trans)
           /\ data.transitions \in Seq([gmttime : Int, localtimeIdx : Int, localtime : Int])
           /\ TransitionsRead(zone, data) /\ TypesOf(zone)
<1>1. /\ zone.types \in Seq([gmtOffset : Int, isDst : BOOLEAN]) /\ zone.types # <<>>
      /\ zone.trans \in Seq([at : Int, type : DOMAIN zone.types])
  BY DEF ZoneFile
<1>2. PICK n \in Nat : n = Len(zone.trans) /\ DOMAIN zone.trans = 1 .. n
  BY <1>1
<1>3. DOMAIN zone.types = 1 .. Len(zone.types) /\ Len(zone.types) \in Nat /\ 1 \in DOMAIN zone.types
  BY <1>1
<1>4. \A i \in 1 .. n : zone.trans[i].at \in Int /\ zone.trans[i].type \in DOMAIN zone.types
  <2>1. PICK R : R = [at : Int, type : DOMAIN zone.types] /\ zone.trans \in Seq(R)
    BY <1>1
  <2>2. \A i \in 1 .. Len(zone.trans) : zone.trans[i] \in R
    BY ONLY <2>1, ElementOfSeq
  <2> QED BY ONLY <1>2, <2>1, <2>2
<1>5. \A k \in DOMAIN zone.types : zone.types[k] \in [gmtOffset : Int, isDst : BOOLEAN]
  <2>1. PICK R : R = [gmtOffset : Int, isDst : BOOLEAN] /\ zone.types \in Seq(R)
    BY <1>1
  <2>2. \A k \in 1 .. Len(zone.types) : zone.types[k] \in R
    BY ONLY <2>1, ElementOfSeq
  <2> QED BY ONLY <1>3, <2>1, <2>2
<1>6. \A i \in 0 .. n : \E k \in DOMAIN zone.types : TypeAfter(zone, i) = zone.types[k]
  <2> SUFFICES ASSUME NEW i \in 0 .. n
               PROVE  \E k \in DOMAIN zone.types : TypeAfter(zone, i) = zone.types[k]
    OBVIOUS
  <2>1. CASE i = 0
    BY <1>3, <2>1 DEF TypeAfter
  <2>2. CASE i # 0
    <3>1. i \in 1 .. n
      BY <2>2
    <3> QED BY <1>4, <2>2, <3>1 DEF TypeAfter
  <2> QED BY <2>1, <2>2
<1>7. \A i \in 0 .. n : TypeAfter(zone, i) \in [gmtOffset : Int, isDst : BOOLEAN]
  BY <1>5, <1>6
<1>8. /\ data.localtimes = zone.types
      /\ data.transitions =
           [i \in 1 .. n |->
              [gmttime |-> zone.trans[i].at, localtimeIdx |-> zone.trans[i].type,
               localtime |-> zone.trans[i].at + zone.types[zone.trans[i].type].gmtOffset]]
  BY ONLY <1>2, data = readTimeZoneFile(zone) DEF readTimeZoneFile
<1>9. \A i \in 1 .. n :
         /\ TypeAfter(zone, i) = zone.types[zone.trans[i].type]
         /\ TypeAfter(zone, i).gmtOffset \in Int
         /\ zone.trans[i].at + zone.types[zone.trans[i].type].gmtOffset \in Int
         /\ zone.trans[i].type \in Int
  <2> SUFFICES ASSUME NEW i \in 1 .. n
               PROVE  /\ TypeAfter(zone, i) = zone.types[zone.trans[i].type]
                      /\ TypeAfter(zone, i).gmtOffset \in Int
                      /\ zone.trans[i].at + zone.types[zone.trans[i].type].gmtOffset \in Int
                      /\ zone.trans[i].type \in Int
    OBVIOUS
  <2>1. TypeAfter(zone, i) = zone.types[zone.trans[i].type]
    BY DEF TypeAfter
  <2>2. TypeAfter(zone, i).gmtOffset \in Int
    BY <1>7
  <2>3. zone.trans[i].at \in Int /\ zone.trans[i].type \in DOMAIN zone.types
    BY <1>4
  <2> QED BY <1>3, <2>1, <2>2, <2>3
<1>10. \A i \in 1 .. n :
         /\ data.transitions[i] \in [gmttime : Int, localtimeIdx : Int, localtime : Int]
         /\ data.transitions[i].gmttime = zone.trans[i].at
         /\ data.transitions[i].localtime = zone.trans[i].at + zone.types[zone.trans[i].type].gmtOffset
         /\ data.transitions[i].localtimeIdx = zone.trans[i].type
  BY <1>4, <1>8, <1>9
<1>11. DOMAIN data.transitions = 1 .. n
  BY <1>8
<1>12. data.transitions \in Seq([gmttime : Int, localtimeIdx : Int, localtime : Int])
  <2>1. PICK R : R = [gmttime : Int, localtimeIdx : Int, localtime : Int]
    OBVIOUS
  <2>2. \A i \in 1 .. n : data.transitions[i] \in R
    BY ONLY <1>10, <2>1
  <2>3. PICK ts : ts = data.transitions
    OBVIOUS
  <2>4. ts \in [1 .. n -> R]
    BY <1>8, <2>2, <2>3
  <2>5. ts \in Seq(R)
    BY ONLY <2>4, n \in Nat
  <2> QED BY ONLY <2>1, <2>3, <2>5
<1>13. Len(data.transitions) = n
  BY <1>11, <1>12
<1>14. \A i \in 1 .. n :
         /\ zone.trans[i].at \in Int /\ TypeAfter(zone, i).gmtOffset \in Int
         /\ data.transitions[i].gmttime = zone.trans[i].at
         /\ data.transitions[i].localtime = zone.trans[i].at + TypeAfter(zone, i).gmtOffset
         /\ zone.types[data.transitions[i].localtimeIdx] = TypeAfter(zone, i)
  BY ONLY <1>4, <1>9, <1>10
<1>15. data.localtimes = zone.types
  BY ONLY <1>8
<1>16. TransitionsRead(zone, data) /\ TypesOf(zone)
  BY ONLY <1>2, <1>6, <1>7, <1>14 DEF TransitionsRead, TypesOf
<1> QED BY ONLY <1>2, <1>12, <1>13, <1>15, <1>16, n \in Nat

\* The local time found is the one after the last transition reached.
LEMMA FoundType ==
    ASSUME NEW zone, ZoneFile(zone), NEW data, data = readTimeZoneFile(zone),
           NEW field, Ascending(data.transitions, field), NEW t \in Int
    PROVE  \E k \in 0 .. Len(zone.trans) :
             Reached(data, field, t, k) /\ findLocaltime(data, field, t) = TypeAfter(zone, k)
<1>1. PICK ts : ts = data.transitions
  OBVIOUS
<1>2. PICK k \in 0 .. Len(ts) :
         /\ \A i \in 1 .. Len(ts) : ts[i][field] <= t <=> i <= k
         /\ k = 0 <=> ts = <<>> \/ t < ts[1][field]
         /\ k > 0 => FoundIndex(ts, field, t) = k
  BY <1>1, SearchFinds
<1>3. Len(ts) = Len(zone.trans) /\ data.localtimes = zone.types /\ Len(zone.trans) \in Nat
  BY <1>1, ZoneRead
<1>4. Reached(data, field, t, k)
  BY ONLY <1>1, <1>2 DEF Reached
<1>5. CASE k = 0
  <2>1. findLocaltime(data, field, t) = zone.types[1]
    BY ONLY <1>1, <1>2, <1>3, <1>5 DEF findLocaltime
  <2> QED BY <1>3, <1>4, <1>5, <2>1 DEF TypeAfter
<1>6. CASE k # 0
  <2>1. k \in 1 .. Len(zone.trans) /\ k > 0
    BY <1>3, <1>6
  <2>2. findLocaltime(data, field, t) = zone.types[ts[k].localtimeIdx]
    BY ONLY <1>1, <1>2, <1>3, <1>6, <2>1 DEF findLocaltime
  <2>3. zone.types[ts[k].localtimeIdx] = TypeAfter(zone, k)
    <3>1. TransitionsRead(zone, data)
      BY ZoneRead
    <3> QED BY ONLY <1>1, <2>1, <3>1 DEF TransitionsRead
  <2> QED BY <1>3, <1>4, <2>1, <2>2, <2>3
<1> QED BY <1>5, <1>6

\* By gmttime the transitions always ascend: the local time found is the one in force.
LEMMA TypeInForce ==
    ASSUME NEW zone, ZoneFile(zone), NEW data, data = readTimeZoneFile(zone), NEW s \in Int
    PROVE  \E k \in 0 .. Len(zone.trans) :
             /\ \A i \in 1 .. Len(zone.trans) : zone.trans[i].at <= s <=> i <= k
             /\ findLocaltime(data, "gmttime", s) = TypeAfter(zone, k)
             /\ OffsetAt(zone, s) = TypeAfter(zone, k)
<1>1. PICK n \in Nat : /\ n = Len(zone.trans) /\ DOMAIN zone.trans = 1 .. n /\ Len(data.transitions) = n
                       /\ \A i \in 1 .. n : data.transitions[i].gmttime = zone.trans[i].at
                       /\ \A i \in 1 .. n : zone.trans[i].at \in Int
  <2>1. /\ Len(zone.trans) \in Nat /\ DOMAIN zone.trans = 1 .. Len(zone.trans)
        /\ Len(data.transitions) = Len(zone.trans)
    BY ZoneRead
  <2>2. \A i \in 1 .. Len(zone.trans) :
           data.transitions[i].gmttime = zone.trans[i].at /\ zone.trans[i].at \in Int
    <3>1. TransitionsRead(zone, data)
      BY ZoneRead
    <3> QED BY ONLY <3>1 DEF TransitionsRead
  <2> QED BY ONLY <2>1, <2>2
<1>2. Ascending(data.transitions, "gmttime")
  <2>1. data.transitions \in Seq([gmttime : Int, localtimeIdx : Int, localtime : Int])
    BY ZoneRead
  <2>2. \A i, j \in 1 .. n : i < j => zone.trans[i].at < zone.trans[j].at
    BY <1>1 DEF ZoneFile
  <2>3. \A i \in 1 .. n : data.transitions[i]["gmttime"] = zone.trans[i].at
    BY <1>1
  <2>4. Len(data.transitions) = n /\ \A i \in 1 .. n : zone.trans[i].at \in Int
    BY <1>1
  <2> QED BY ONLY <2>1, <2>2, <2>3, <2>4 DEF Ascending
<1>3. PICK k \in 0 .. n :
         Reached(data, "gmttime", s, k) /\ findLocaltime(data, "gmttime", s) = TypeAfter(zone, k)
  BY <1>1, <1>2, FoundType
<1>4. \A i \in 1 .. n : zone.trans[i].at <= s <=> i <= k
  BY <1>1, <1>3 DEF Reached
<1>5. OffsetAt(zone, s) = TypeAfter(zone, k)
  <2> DEFINE past == {i \in DOMAIN zone.trans : zone.trans[i].at <= s}
  <2>1. past = 1 .. k
    BY <1>1, <1>4
  <2>2. CASE k = 0
    <3>1. past = {}
      BY <2>1, <2>2
    <3> QED BY <2>2, <3>1 DEF OffsetAt, TypeAfter
  <2>3. CASE k # 0
    <3>1. past # {} /\ k \in past /\ \A j \in past : j <= k
      BY <2>1, <2>3
    <3>2. (CHOOSE i \in past : \A j \in past : j <= i) = k
      <4>1. \A i \in past : (\A j \in past : j <= i) => i = k
        BY <2>1, <3>1
      <4> HIDE DEF past
      <4> QED BY <3>1, <4>1
    <3> QED BY <2>3, <3>1, <3>2 DEF OffsetAt, TypeAfter
  <2> QED BY <2>2, <2>3
<1> QED BY <1>1, <1>3, <1>4, <1>5

\* The next transition is further off than the offsets differ, whichever types it is between.
LEMMA FarApart ==
    ASSUME NEW zone, ZoneFile(zone), Invertible(zone), NEW n \in Nat, n = Len(zone.trans),
           NEW i \in 1 .. n, NEW j \in 1 .. n, i < j, NEW x \in 0 .. n, NEW y \in 0 .. n
    PROVE  zone.trans[j].at - zone.trans[i].at > TypeAfter(zone, x).gmtOffset - TypeAfter(zone, y).gmtOffset
<1>1. DOMAIN zone.trans = 1 .. n /\ TypesOf(zone)
  BY ZoneRead
<1>2. PICK k \in DOMAIN zone.types : TypeAfter(zone, x) = zone.types[k]
  BY <1>1 DEF TypesOf
<1>3. PICK l \in DOMAIN zone.types : TypeAfter(zone, y) = zone.types[l]
  BY <1>1 DEF TypesOf
<1>4. zone.trans[j].at - zone.trans[i].at > zone.types[k].gmtOffset - zone.types[l].gmtOffset
  BY <1>1 DEF Invertible
<1> QED BY ONLY <1>2, <1>3, <1>4

\* By local time they ascend where the transitions are further apart than the offsets.
LEMMA LocalAscends ==
    ASSUME NEW zone, ZoneFile(zone), Invertible(zone), NEW data, data = readTimeZoneFile(zone)
    PROVE  Ascending(data.transitions, "localtime")
<1>1. /\ Len(zone.trans) \in Nat /\ DOMAIN zone.trans = 1 .. Len(zone.trans)
      /\ Len(data.transitions) = Len(zone.trans)
      /\ data.transitions \in Seq([gmttime : Int, localtimeIdx : Int, localtime : Int])
      /\ TransitionsRead(zone, data) /\ TypesOf(zone)
  BY ZoneRead
<1>2. PICK n \in Nat : n = Len(zone.trans)
  BY <1>1
<1>3. \A i \in 1 .. n : /\ zone.trans[i].at \in Int /\ TypeAfter(zone, i).gmtOffset \in Int
                        /\ data.transitions[i]["localtime"]
                             = zone.trans[i].at + TypeAfter(zone, i).gmtOffset
  BY ONLY <1>1, <1>2 DEF TransitionsRead
<1>4. ASSUME NEW i \in 1 .. n, NEW j \in 1 .. n, i < j
      PROVE  data.transitions[i]["localtime"] < data.transitions[j]["localtime"]
  <2>1. i \in 0 .. n /\ j \in 0 .. n
    OBVIOUS
  <2>2. zone.trans[j].at - zone.trans[i].at > TypeAfter(zone, i).gmtOffset - TypeAfter(zone, j).gmtOffset
    BY <1>2, <1>4, <2>1, FarApart
  <2> QED BY <1>3, <2>2
<1>5. \A i \in 1 .. n : data.transitions[i]["localtime"] \in Int
  BY <1>3
<1> QED BY ONLY <1>1, <1>2, <1>4, <1>5 DEF Ascending

\* fromLocalTime() takes local time back to the second it came from.
LEMMA LocalRoundTrip ==
    ASSUME NEW zone, ZoneFile(zone), Invertible(zone), NEW data, data = readTimeZoneFile(zone),
           NEW s \in Int
    PROVE  fromLocalTime(data, toLocalTime(data, s)) = s
<1>1. PICK n \in Nat : /\ n = Len(zone.trans) /\ DOMAIN zone.trans = 1 .. n
                       /\ Len(data.transitions) = n
                       /\ TransitionsRead(zone, data) /\ TypesOf(zone)
  BY ZoneRead
<1>2. PICK a : a = [i \in 1 .. n |-> zone.trans[i].at]
  OBVIOUS
<1>3. PICK o : o = [i \in 0 .. n |-> TypeAfter(zone, i).gmtOffset]
  OBVIOUS
<1>4. /\ \A i \in 1 .. n : a[i] \in Int /\ a[i] = zone.trans[i].at
      /\ \A i \in 1 .. n : data.transitions[i]["localtime"] = a[i] + o[i]
  BY <1>1, <1>2, <1>3 DEF TransitionsRead
<1>5. \A i \in 0 .. n : o[i] \in Int /\ o[i] = TypeAfter(zone, i).gmtOffset
                        /\ TypeAfter(zone, i).isDst \in BOOLEAN
  BY <1>1, <1>3 DEF TypesOf
<1>6. \A i, j \in 1 .. n : i < j => \A x, y \in 0 .. n : a[j] - a[i] > o[x] - o[y]
  BY <1>1, <1>4, <1>5, FarApart
<1>7. ASSUME NEW t \in Int
      PROVE  \E k \in 0 .. n : /\ \A i \in 1 .. n : a[i] <= t <=> i <= k
                               /\ toLocalTime(data, t) = [secs |-> t + o[k],
                                                          tm_isdst |-> TypeAfter(zone, k).isDst]
  <2>1. PICK k \in 0 .. n :
           /\ \A i \in 1 .. n : zone.trans[i].at <= t <=> i <= k
           /\ findLocaltime(data, "gmttime", t) = TypeAfter(zone, k)
    BY <1>1, TypeInForce
  <2>2. toLocalTime(data, t) = [secs |-> t + o[k], tm_isdst |-> TypeAfter(zone, k).isDst]
    BY <1>5, <2>1 DEF toLocalTime
  <2> QED BY <1>4, <2>1, <2>2
<1>8. PICK k \in 0 .. n : /\ \A i \in 1 .. n : a[i] <= s <=> i <= k
                          /\ toLocalTime(data, s) = [secs |-> s + o[k],
                                                     tm_isdst |-> TypeAfter(zone, k).isDst]
  BY <1>7
<1>9. PICK loc : loc = toLocalTime(data, s)
  OBVIOUS
<1>10. PICK b \in Int : b = s + o[k] /\ loc.secs = b /\ loc.tm_isdst = TypeAfter(zone, k).isDst
  BY <1>5, <1>8, <1>9
<1>11. PICK j \in 0 .. n : /\ \A i \in 1 .. n : a[i] + o[i] <= b <=> i <= j
                           /\ findLocaltime(data, "localtime", b) = TypeAfter(zone, j)
  <2>1. Ascending(data.transitions, "localtime")
    BY LocalAscends
  <2>2. PICK j \in 0 .. n : /\ Reached(data, "localtime", b, j)
                            /\ findLocaltime(data, "localtime", b) = TypeAfter(zone, j)
    BY <1>1, <2>1, FoundType
  <2> QED BY <1>1, <1>4, <2>2 DEF Reached
<1>12. j >= k
  <2>1. CASE k = 0
    BY <2>1
  <2>2. CASE k > 0
    <3>1. k \in 1 .. n /\ a[k] <= s /\ a[k] \in Int /\ o[k] \in Int
      BY <1>4, <1>5, <1>8, <2>2
    <3>2. a[k] + o[k] <= b
      BY <1>10, <3>1
    <3> QED BY <1>11, <3>1, <3>2
  <2> QED BY <2>1, <2>2
<1>13. j <= k + 1
  <2> SUFFICES ASSUME j > k + 1 PROVE FALSE
    OBVIOUS
  <2>1. j \in 1 .. n /\ k + 1 \in 1 .. n /\ k + 1 < j
    OBVIOUS
  <2>2. a[j] + o[j] <= b /\ ~(a[k + 1] <= s)
    BY <1>8, <1>11, <2>1
  <2>3. a[j] - a[k + 1] > o[k] - o[j]
    BY <1>6, <2>1
  <2>4. a[j] \in Int /\ a[k + 1] \in Int /\ o[k] \in Int /\ o[j] \in Int
    BY <1>4, <1>5, <2>1
  <2> QED BY <1>10, <2>2, <2>3, <2>4
<1>14. PICK try : try = toLocalTime(data, b - o[j])
  OBVIOUS
<1>15. fromLocalTime(data, loc) =
         b - (IF /\ loc.tm_isdst /\ ~try.tm_isdst /\ HourMinute(try.secs) = HourMinute(b)
              THEN 3600 ELSE 0) - o[j]
  <2>1. findLocaltime(data, "localtime", loc.secs).gmtOffset = o[j]
    BY <1>5, <1>10, <1>11
  <2>2. try = toLocalTime(data, loc.secs - findLocaltime(data, "localtime", loc.secs).gmtOffset)
    BY <1>10, <1>14, <2>1
  <2> QED BY ONLY <1>10, <2>1, <2>2 DEF fromLocalTime
<1>16. CASE j = k
  <2>1. b - o[j] = s
    BY <1>5, <1>10, <1>16
  <2>2. try = loc
    BY ONLY <1>9, <1>14, <2>1
  <2>3. fromLocalTime(data, loc) = b - 0 - o[j]
    BY ONLY <1>15, <2>2
  <2>4. b - 0 - o[j] = s
    BY <1>5, <2>1
  <2> QED BY ONLY <1>9, <2>3, <2>4
<1>17. CASE j = k + 1
  <2>1. j \in 1 .. n /\ k = j - 1
    BY <1>17
  <2>2. /\ a[j] \in Int /\ o[j] \in Int /\ o[k] \in Int
        /\ a[j] + o[j] <= b /\ s < a[j]
    BY <1>4, <1>5, <1>8, <1>11, <1>17, <2>1
  <2>3. o[j] < o[k]
    BY <1>10, <2>2
  <2>4. o[k] - o[j] = 3600 /\ TypeAfter(zone, k).isDst /\ ~TypeAfter(zone, j).isDst
    <3>1. TypeAfter(zone, j).gmtOffset < TypeAfter(zone, j - 1).gmtOffset
      BY <1>5, <2>1, <2>3
    <3>2. /\ TypeAfter(zone, j - 1).gmtOffset - TypeAfter(zone, j).gmtOffset = 3600
          /\ TypeAfter(zone, j - 1).isDst /\ ~TypeAfter(zone, j).isDst
      BY <1>1, <2>1, <3>1 DEF Invertible
    <3> QED BY <1>5, <2>1, <3>2
  <2>5. PICK t \in Int : t = b - o[j] /\ t = s + 3600
    BY <1>10, <2>2, <2>4
  <2>6. PICK l \in 0 .. n : /\ \A i \in 1 .. n : a[i] <= t <=> i <= l
                            /\ toLocalTime(data, t) = [secs |-> t + o[l],
                                                       tm_isdst |-> TypeAfter(zone, l).isDst]
    BY <1>7
  <2>7. l = j
    <3>1. a[j] <= t
      BY <2>2, <2>5
    <3>2. l >= j
      BY <2>1, <2>6, <3>1
    <3>3. ~(l > j)
      <4> SUFFICES ASSUME l > j PROVE FALSE
        OBVIOUS
      <4>1. l \in 1 .. n
        BY <2>1
      <4>2. a[l] <= t /\ a[l] \in Int
        BY <1>4, <2>6, <4>1
      <4>3. a[l] - a[j] > o[k] - o[j]
        BY <1>6, <2>1, <4>1
      <4> QED BY <2>2, <2>4, <2>5, <4>2, <4>3
    <3> QED BY <3>2, <3>3
  <2>8. try.secs = b /\ ~try.tm_isdst
    <3>1. try = [secs |-> t + o[j], tm_isdst |-> TypeAfter(zone, j).isDst]
      BY ONLY <1>14, <2>5, <2>6, <2>7
    <3>2. t + o[j] = b
      BY <2>2, <2>5
    <3> QED BY ONLY <2>4, <3>1, <3>2
  <2>9. fromLocalTime(data, loc) = b - 3600 - o[j]
    BY ONLY <1>10, <1>15, <2>4, <2>8
  <2>10. b - 3600 - o[j] = s
    BY <2>2, <2>5
  <2> QED BY ONLY <1>9, <2>9, <2>10
<1> QED BY <1>12, <1>13, <1>16, <1>17

\* An instant, in one of the zones.
InstantInv ==
    instant # NoInstant => instant.zone \in DOMAIN Zones /\ instant.at \in Int

\* Dates, UTC and local time, as long as the calendar is walked.
CalInv == DayTyped /\ InstantInv

\* A step keeps it in one of the zones.
LEMMA InstantNext == InstantInv /\ [CalNext]_calVars => InstantInv'
<1> SUFFICES ASSUME InstantInv, [CalNext]_calVars PROVE InstantInv'
  OBVIOUS
<1>1. CASE NextYear \/ PreviousYear \/ NextDay \/ UNCHANGED calVars
  <2>1. instant' = instant
    BY <1>1 DEF NextYear, PreviousYear, NextDay, calVars
  <2> QED BY <2>1 DEF InstantInv
<1>2. CASE PickInstant
  <2>1. PICK z \in DOMAIN Zones, t \in Instants : instant' = [zone |-> z, at |-> t]
    BY <1>2 DEF PickInstant
  <2>2. t \in Int
    BY CalendarConstants DEF CalendarConstants
  <2>3. instant'.zone = z /\ instant'.at = t
    BY <2>1
  <2> QED BY <2>2, <2>3 DEF InstantInv
<1> QED BY <1>1, <1>2 DEF CalNext

\* Local time is exact at every instant.
LEMMA InstantExact == InstantInv => LocalExact
<1> SUFFICES ASSUME InstantInv, instant # NoInstant PROVE LocalExact
  BY DEF LocalExact
<1>1. PICK zone : zone = Zones[instant.zone] /\ ZoneFile(zone)
  BY CalendarConstants DEF CalendarConstants, InstantInv
<1>2. PICK s \in Int : s = instant.at
  BY DEF InstantInv
<1>3. PICK data : data = readTimeZoneFile(zone)
  OBVIOUS
<1>4. PICK k \in 0 .. Len(zone.trans) :
         findLocaltime(data, "gmttime", s) = TypeAfter(zone, k) /\ OffsetAt(zone, s) = TypeAfter(zone, k)
  BY <1>1, <1>3, TypeInForce
<1>5. TypeAfter(zone, k).gmtOffset \in Int
  BY <1>1, <1>3, ZoneRead DEF TypesOf
<1>6. PICK loc : loc = toLocalTime(data, s)
  OBVIOUS
<1>7. loc = [secs |-> s + TypeAfter(zone, k).gmtOffset, tm_isdst |-> TypeAfter(zone, k).isDst]
  BY ONLY <1>4, <1>6 DEF toLocalTime
<1>8. /\ loc.secs - s = OffsetAt(zone, s).gmtOffset
      /\ loc.tm_isdst = OffsetAt(zone, s).isDst
  BY <1>4, <1>5, <1>7
<1>9. Invertible(zone) => fromLocalTime(data, loc) = s
  BY <1>1, <1>3, <1>6, LocalRoundTrip
<1> QED BY ONLY <1>1, <1>2, <1>3, <1>6, <1>8, <1>9 DEF LocalExact

\* Date and TimeZone: for every year the formulas are made for, every day and
\* every zone file, whatever is counted and walked.
THEOREM CalendarIsExact == CalSpec => []CalendarExact
<1>1. CalInit => CalInv
  <2>1. CalInit => InstantInv
    BY DEF CalInit, InstantInv
  <2> QED BY <2>1, DayInvInit DEF CalInv
<1>2. CalInv /\ [CalNext]_calVars => CalInv'
  BY DayInvNext, InstantNext DEF CalInv
<1>3. CalInv => CalendarExact
  BY DayExact, InstantExact DEF CalInv, CalendarExact
<1> QED BY <1>1, <1>2, <1>3, PTL DEF CalSpec
=============================================================================
