------------------------------ MODULE FcgiCodec ------------------------------
(***************************************************************************)
(* FastCgiCodec byte by byte: the records of a connection are parsed as    *)
(* TCP delivers them, the parameters are decoded, and respond() cuts the   *)
(* answer into records.  cocgi and mucgi have the same codec; pieces of a  *)
(* request reach it in mucgi (onMessage), while cocgi gives a connection   *)
(* up at the first piece (CocgiServer).                                    *)
(*                                                                         *)
(* A byte is a number below Base, 256 in the code.  With a smaller Base    *)
(* the limits that follow from it (two-byte and four-byte lengths, the     *)
(* marker bit of a long length) are reached by short inputs.               *)
(***************************************************************************)
EXTENDS Integers, SequencesExt

CONSTANTS
    Base,
    Requests,    \* the requests of a connection: the i-th is in Requests[i]
    Pieces,      \* bound: sizes of the pieces that arrive (or all there is)
    OutLens,     \* bound: lengths of what the backend returns
    EmptyPage    \* the page sent when the backend returns nothing

kRecordHeader == 8
kFcgiBeginRequest == 1
kFcgiEndRequest == 3
kFcgiParams == 4
kFcgiStdin == 5
kFcgiStdout == 6
kFcgiResponder == 1
kFcgiKeepConn == 1
FCGI_MAX_CONTENT_LENGTH == Base * Base - 1

ASSUME CodecConstants ==
    /\ Base \in Nat /\ Base > kRecordHeader /\ Base % 2 = 0
    /\ OutLens \subseteq Nat /\ Len(EmptyPage) \in 1 .. FCGI_MAX_CONTENT_LENGTH

VARIABLES
    wire,      \* bytes on their way to the codec
    inBuf,     \* inputBuffer_ of the connection
    codec,     \* stdin_, paramsStream_, params_, gotRequest_, keepConn_
    sent,      \* the requests sent: how many, and the last one
    handed,    \* what the callback was called with since the last one was sent
    answers,   \* for each call the backend's output and the bytes written
    closed     \* shutdown() was called

codecVars == <<wire, inBuf, codec, sent, handed, answers, closed>>

-----------------------------------------------------------------------------
(* Buffer as the codec uses it: its content, and integers of w bytes in    *)
(* network order.                                                          *)

AppendInt(s, x, w) == s \o [i \in 1 .. w |-> (x \div Base^(w - i)) % Base]
PeekInt(s, w) == FoldLeft(LAMBDA x, b : x * Base + b, 0, SubSeq(s, 1, w))
Retrieved(s, n) == SubSeq(s, n + 1, Len(s))
Fill0(n) == [i \in 1 .. n |-> 0]

\* A record: header, content, padding.
RecordOf(type, content, padding) ==
    AppendInt(<<1, type, 0, 1>>, Len(content), 2)
        \o <<padding, 0>> \o content \o Fill0(padding)

-----------------------------------------------------------------------------
(* What the web server sends. *)

BeginRequestBody(role, flags) == AppendInt(<<>>, role, 2) \o <<flags>> \o Fill0(5)

\* One byte for a short length, four with the high bit set for a long one.
LengthOf(n) ==
    IF n < Base \div 2 THEN <<n>> ELSE AppendInt(<<>>, n + (Base \div 2) * Base^3, 4)

NameValuePair(p) ==
    LengthOf(Len(p.name)) \o LengthOf(Len(p.value)) \o p.name \o p.value

\* The parameters, without the last r.drop bytes when they were cut off.
ParamBytes(r) ==
    LET all == FlattenSeq([i \in DOMAIN r.pairs |-> NameValuePair(r.pairs[i])])
    IN  SubSeq(all, 1, Len(all) - r.drop)

\* The parameters go in two records, cut anywhere, the body in one per piece;
\* a record of a type the codec does not know may come between.
Encoded(r) ==
    LET s == ParamBytes(r)
        params == SelectSeq(<<SubSeq(s, 1, r.cut), SubSeq(s, r.cut + 1, Len(s))>>,
                            LAMBDA c : c # <<>>)
        Content(type, pieces) ==
            FlattenSeq([i \in DOMAIN pieces |-> RecordOf(type, pieces[i], r.pad)])
    IN  RecordOf(kFcgiBeginRequest, BeginRequestBody(r.role, r.flags), 0)
            \o Content(kFcgiParams, params) \o RecordOf(kFcgiParams, <<>>, 0)
            \o Content(r.noise, <<<<9>>>>)
            \o Content(kFcgiStdin, r.body) \o RecordOf(kFcgiStdin, <<>>, 0)

-----------------------------------------------------------------------------
(* The codec. *)

NewCodec ==
    [stdin_ |-> <<>>, paramsStream_ |-> <<>>, params_ |-> <<>>,
     gotRequest_ |-> FALSE, keepConn_ |-> FALSE]

\* readLen: the length at the head of s and how many bytes it takes; none (-1)
\* when it is not there in full.
NoLen == [len |-> -1, size |-> 0]

readLen(s) ==
    IF s = <<>> THEN NoLen
    ELSE IF s[1] < Base \div 2 THEN [len |-> s[1], size |-> 1]
    ELSE IF Len(s) < 4 THEN NoLen
    ELSE [len |-> PeekInt(s, 4) % ((Base \div 2) * Base^3), size |-> 4]

\* parseAllParams: pair after pair, until the stream ends or one is not whole;
\* what is left stays in the stream.  The result (false) is not looked at.
RECURSIVE parseAllParams(_)
parseAllParams(c) ==
    LET s == c.paramsStream_
        name == readLen(s)
        value == readLen(Retrieved(s, name.size))
        rest == Retrieved(s, name.size + value.size)
    IN  IF s = <<>> \/ name = NoLen THEN c
        ELSE IF value = NoLen THEN [c EXCEPT !.paramsStream_ = Retrieved(s, name.size)]
        ELSE IF Len(rest) < name.len + value.len THEN [c EXCEPT !.paramsStream_ = rest]
        ELSE parseAllParams(
               [c EXCEPT
                  !.paramsStream_ = Retrieved(rest, name.len + value.len),
                  !.params_ = (SubSeq(rest, 1, name.len) :>
                                 SubSeq(rest, name.len + 1, name.len + value.len)) @@ @])

onBeginRequest(c, content) ==
    IF Len(content) >= kRecordHeader /\ PeekInt(content, 2) = kFcgiResponder
    THEN [c EXCEPT !.keepConn_ = content[3] = kFcgiKeepConn]
    ELSE c

onParams(c, content) ==
    IF content # <<>> THEN [c EXCEPT !.paramsStream_ = @ \o content]
    ELSE parseAllParams(c)

onStdin(c, content) ==
    IF content # <<>> THEN [c EXCEPT !.stdin_ = @ \o content]
    ELSE [c EXCEPT !.gotRequest_ = TRUE]

\* parseRequest (parseFcgiPackage): every record that is there in full.
Total(s) == kRecordHeader + PeekInt(SubSeq(s, 5, 6), 2) + s[7]

RECURSIVE parseRequest(_, _)
parseRequest(s, c) ==
    IF Len(s) < kRecordHeader \/ Len(s) < Total(s) THEN [inBuf |-> s, codec |-> c]
    ELSE LET content == SubSeq(s, kRecordHeader + 1,
                               kRecordHeader + PeekInt(SubSeq(s, 5, 6), 2))
         IN  parseRequest(Retrieved(s, Total(s)),
                          CASE s[2] = kFcgiBeginRequest -> onBeginRequest(c, content)
                            [] s[2] = kFcgiParams -> onParams(c, content)
                            [] s[2] = kFcgiStdin -> onStdin(c, content)
                            [] OTHER -> c)

\* Between requests, after the callback.
ClearedKeepStream(c) == [NewCodec EXCEPT !.keepConn_ = c.keepConn_,
                                         !.paramsStream_ = c.paramsStream_]  \* mutant
Cleared(c) == [NewCodec EXCEPT !.keepConn_ = c.keepConn_]

\* respond: records of at most FCGI_MAX_CONTENT_LENGTH bytes, each padded to a
\* multiple of 8, then an empty STDOUT record and END_REQUEST.
StdoutRecord(content) == RecordOf(kFcgiStdout, content, (-Len(content)) % 8)

PartsRounded(out) == Len(out) \div FCGI_MAX_CONTENT_LENGTH + 1  \* mutant
Parts(out) ==
    Len(out) \div FCGI_MAX_CONTENT_LENGTH
        + (IF Len(out) % FCGI_MAX_CONTENT_LENGTH # 0 THEN 1 ELSE 0)

endStdout == RecordOf(kFcgiStdout, <<>>, 0)
endRequest == RecordOf(kFcgiEndRequest, AppendInt(AppendInt(<<>>, 0, 4), 0, 4), 0)

Part(out, i) ==
    SubSeq(out, (i - 1) * FCGI_MAX_CONTENT_LENGTH + 1,
           IF i * FCGI_MAX_CONTENT_LENGTH < Len(out) THEN i * FCGI_MAX_CONTENT_LENGTH
           ELSE Len(out))

Page(out) == IF out = <<>> THEN EmptyPage ELSE out

respond(out) ==
    FlattenSeq([i \in 1 .. Parts(Page(out)) |-> StdoutRecord(Part(Page(out), i))])
        \o endStdout \o endRequest

-----------------------------------------------------------------------------
(* The connection. *)

CodecInit ==
    /\ wire = <<>> /\ inBuf = <<>> /\ codec = NewCodec
    /\ sent = [count |-> 0, last |-> <<>>] /\ handed = <<>> /\ answers = <<>> /\ closed = FALSE

Answered == sent.count = 0 \/ handed # <<>>

\* The web server sends the next request once the last one is answered.
SendRequest ==
    /\ ~closed /\ Answered /\ sent.count < Len(Requests)
    /\ \E r \in Requests[sent.count + 1] :
          sent' = [count |-> sent.count + 1, last |-> r] /\ wire' = Encoded(r)
    /\ handed' = <<>> /\ answers' = <<>>
    /\ UNCHANGED <<inBuf, codec, closed>>

\* onMessage, with what the loop just read: the callback (onRequest) is run and
\* its answer written when the request is complete.
onMessage(n) ==
    LET p == parseRequest(inBuf \o SubSeq(wire, 1, n), codec)
    IN  /\ wire' = Retrieved(wire, n) /\ inBuf' = p.inBuf
        /\ IF p.codec.gotRequest_
           THEN /\ \E len \in OutLens :
                     LET out == [i \in 1 .. len |-> i % Base]
                     IN  answers' = Append(answers, [out |-> out, bytes |-> respond(out)])
                /\ handed' = Append(handed, [params |-> p.codec.params_,
                                             in |-> p.codec.stdin_])
                /\ codec' = Cleared(p.codec)
                /\ closed' = ~p.codec.keepConn_
           ELSE codec' = p.codec /\ UNCHANGED <<handed, answers, closed>>
        /\ UNCHANGED sent

Receive == \E n \in Pieces \cup {Len(wire)} : n \in 1 .. Len(wire) /\ onMessage(n)

CodecNext == SendRequest \/ Receive

-----------------------------------------------------------------------------
(* Properties. *)

\* The members keep their types; what is in the buffer is less than a record.
CodecTypeOK ==
    /\ codec.keepConn_ \in BOOLEAN /\ codec.gotRequest_ = FALSE
    /\ inBuf \in Seq(0 .. Base - 1) /\ codec.stdin_ \in Seq(0 .. Base - 1)
    /\ Len(inBuf) >= kRecordHeader => Len(inBuf) < Total(inBuf)

\* The parameters as the web server meant them: all pairs that were not cut
\* off, the last value of a name that is there twice.
WholePairs(r) ==
    LET upTo(i) == FlattenSeq([j \in 1 .. i |-> NameValuePair(r.pairs[j])])
    IN  {i \in DOMAIN r.pairs : Len(upTo(i)) <= Len(ParamBytes(r))}

Meaning(r) ==
    LET names == {r.pairs[i].name : i \in WholePairs(r)}
        last(n) == CHOOSE i \in WholePairs(r) :
                     /\ r.pairs[i].name = n
                     /\ \A j \in WholePairs(r) : r.pairs[j].name = n => j <= i
    IN  [params |-> [n \in names |-> r.pairs[last(n)].value], in |-> FlattenSeq(r.body)]

\* However TCP cuts the stream, wherever a pair is cut between two PARAMS
\* records, whatever the padding, and whatever the request before it left
\* behind (parameters that were cut off), the callback gets the parameters and
\* the body of its own request, once.
RequestExact == handed # <<>> => handed = <<Meaning(sent.last)>>

\* The codec is between two requests with nothing left over when the web server
\* has its answer, and every request that arrived in full was answered.
InSync == wire = <<>> => inBuf = <<>> /\ Answered

\* The stream of records becomes the requests that were sent, one by one.
RequestsExact == CodecTypeOK /\ RequestExact /\ InSync

\* Records by the web server's reading of the format.
RECURSIVE Records(_)
Records(s) ==
    IF s = <<>> THEN <<>>
    ELSE LET len == s[5] * Base + s[6]
         IN  <<[type |-> s[2], content |-> SubSeq(s, 9, 8 + len),
                size |-> 8 + len + s[7]]>> \o Records(SubSeq(s, 9 + len + s[7], Len(s)))

\* The web server reads from the records what the backend returned (or the page
\* for an empty result), at any length: the only empty STDOUT record is the one
\* that ends the stream, it is followed by END_REQUEST, and every record ends on
\* a multiple of 8 bytes.
AnswerDecodes ==
    \A i \in DOMAIN answers :
        LET recs == Records(answers[i].bytes)
            n == Len(recs)
            out == SubSeq(recs, 1, n - 2)
        IN  /\ FlattenSeq([j \in DOMAIN out |-> out[j].content]) = Page(answers[i].out)
            /\ \A j \in DOMAIN out : out[j].type = kFcgiStdout /\ out[j].content # <<>>
            /\ recs[n - 1].type = kFcgiStdout /\ recs[n - 1].content = <<>>
            /\ recs[n].type = kFcgiEndRequest
            /\ \A j \in DOMAIN recs : recs[j].size % 8 = 0

\* The connection is closed after the answer exactly when the request that was
\* answered (in the responder role) did not ask to keep it, whatever earlier
\* requests on the connection asked for.
ClosesAsAsked ==
    handed # <<>> /\ sent.last.role = kFcgiResponder =>
        (closed <=> sent.last.flags # kFcgiKeepConn)

\* What the web server sees of an answer: its content, its end, and whether the
\* connection stays.
AnswersExact == AnswerDecodes /\ ClosesAsAsked
=============================================================================
