-------------------------------- MODULE Cgicc --------------------------------
(***************************************************************************)
(* cgicc as the two servers use it: the constructor parses the posted data *)
(* (urlencoded or multipart), then the query string, then the cookies; the *)
(* servers copy what it found into the maps the backend gets.              *)
(*                                                                         *)
(* A character is its code.  The fixed words of a multipart header are one *)
(* symbol each, with the part that two of them share a symbol of its own   *)
(* (filename=" ends in name=").  The positions are those of std::string,   *)
(* npos included: -1, as far as arithmetic modulo 2^64 goes.               *)
(***************************************************************************)
EXTENDS Integers, SequencesExt, FiniteSetsExt

CONSTANTS
    Submissions,   \* what browsers submit
    MaxLens        \* bound: the limits callers pass to makeString

VARIABLES
    submission,  \* the request being served, none at first
    cgi,         \* the Cgicc object
    given        \* qmap and header, as each of the two servers builds them

cgiVars == <<submission, cgi, given>>

NoSubmission == [kind |-> "none"]
NewCgi == [fFormData |-> <<>>, fFormFiles |-> <<>>, fCookies |-> <<>>, thrown |-> FALSE]

CgiInit == submission = NoSubmission /\ cgi = NewCgi /\ given = <<>>

-----------------------------------------------------------------------------
(* std::string *)

Npos == -1
Find(s, sub, from) ==
    LET at == {p \in from .. Len(s) - Len(sub) : SubSeq(s, p + 1, p + Len(sub)) = sub}
    IN  IF at = {} THEN Npos ELSE Min(at)

\* A count below 0 is one above any length.
Substr(s, pos, n) == SubSeq(s, pos + 1, IF n < 0 \/ pos + n > Len(s) THEN Len(s) ELSE pos + n)

\* *(iter + i), with the 0 behind the last character.
At(s, i) == IF i <= Len(s) THEN s[i] ELSE 0

IsXDigit(c) == c \in (48 .. 57) \cup (65 .. 70) \cup (97 .. 102)
IsSpace(c) == c \in {9, 10, 11, 12, 13, 32}
ToLower(s) == [i \in DOMAIN s |-> IF s[i] \in 65 .. 90 THEN s[i] + 32 ELSE s[i]]

Cr == 13
Lf == 10
Percent == 37
Plus == 43
Dashes == <<45, 45>>
CrLf == <<Cr, Lf>>
DispositionIs == 300    \* Content-Disposition:
File == 301             \* file, of filename="
NameIs == 302           \* name="
TypeIs == 303           \* Content-Type:
TextPlain == <<304>>    \* text/plain
On == <<111, 110>>

-----------------------------------------------------------------------------
(* CgiUtils *)

\* Letters are the same in either case.
stringsAreEqualExactly(s1, s2) == s1 = s2  \* mutant
stringsAreEqual(s1, s2) == ToLower(s1) = ToLower(s2)

HexDigit(d) == d + (IF d > 9 THEN 65 - 10 ELSE 48)
charToHex(c) == <<HexDigit(c \div 16), HexDigit(c % 16)>>

HexValue(c) == IF c >= 65 THEN (IF c >= 97 THEN c - 32 ELSE c) - 65 + 10 ELSE c - 48
hexToChar(first, second) == HexValue(first) * 16 + HexValue(second)

\* Letters, digits and -_.!~*'() stand for themselves.
Plain ==
    (65 .. 90) \cup (97 .. 122) \cup (48 .. 57) \cup {45, 95, 46, 33, 126, 42, 39, 40, 41}
form_urlencode(s) ==
    FlattenSeq([i \in DOMAIN s |->
        CASE s[i] = 32 -> <<Plus>>
          [] s[i] \in Plain -> <<s[i]>>
          [] OTHER -> <<Percent>> \o charToHex(s[i])])

\* form_urldecode: a percent sign without two hex digits is passed through.
EscapeAt(s, i) == Len(s) - i + 1 >= 2 /\ IsXDigit(At(s, i + 1)) /\ IsXDigit(At(s, i + 2))

RECURSIVE DecodeFrom(_, _)
DecodeFrom(s, i) ==
    IF i > Len(s) THEN <<>>
    ELSE IF s[i] = Plus THEN <<32>> \o DecodeFrom(s, i + 1)
    ELSE IF s[i] = Percent /\ EscapeAt(s, i)
         THEN <<hexToChar(At(s, i + 1), At(s, i + 2))>> \o DecodeFrom(s, i + 3)
    ELSE <<s[i]>> \o DecodeFrom(s, i + 1)
form_urldecode(s) == DecodeFrom(s, 1)

extractBetween(data, separator1, separator2) ==
    LET start == Find(data, separator1, 0) + Len(separator1)
        limit == Find(data, separator2, start)
    IN  IF Find(data, separator1, 0) = Npos \/ limit = Npos THEN <<>>
        ELSE Substr(data, start, limit - start)

-----------------------------------------------------------------------------
(* FormEntry::makeString: a run of line breaks becomes as many line feeds  *)
(* as it has of the more frequent kind, or nothing.                        *)

RECURSIVE makeStringFrom(_, _, _, _, _)
makeStringFrom(value, src, maxLen, allowNewlines, dst) ==
    IF src > Len(value) \/ Len(dst) >= maxLen THEN dst
    ELSE IF value[src] \notin {Cr, Lf}
         THEN makeStringFrom(value, src + 1, maxLen, allowNewlines, Append(dst, value[src]))
    ELSE LET end == Min({j \in src .. Len(value) + 1 : At(value, j) \notin {Cr, Lf}})
             Number(c) == Cardinality({j \in src .. end - 1 : value[j] = c})
             add == IF allowNewlines THEN Max({Number(Cr), Number(Lf)}) ELSE 0
         IN  makeStringFrom(value, end, maxLen, allowNewlines,
                            dst \o [j \in 1 .. add |-> Lf])

makeString(value, maxLen, allowNewlines) ==
    makeStringFrom(value, 1, maxLen, allowNewlines, <<>>)

-----------------------------------------------------------------------------
(* Cgicc *)

FormEntry(name, value) == [name |-> name, value |-> value]
HTTPCookie(name, value) == [name |-> name, value |-> value]
FormFile(name, filename, dataType, data) ==
    [name |-> name, filename |-> filename, data |-> data,
     dataType |-> IF dataType = <<>> THEN TextPlain ELSE dataType]

\* The urlencoded branch of parseFormInput, from oldPos on.
RECURSIVE ParsePairs(_, _)
ParsePairs(data, oldPos) ==
    LET eq == Find(data, <<61>>, oldPos)
        amp == Find(data, <<38>>, eq + 1)
    IN  IF eq = Npos THEN <<>>
        ELSE <<FormEntry(form_urldecode(Substr(data, oldPos, eq - oldPos)),
                         form_urldecode(Substr(data, eq + 1, amp - (eq + 1))))>>
               \o (IF amp = Npos THEN <<>> ELSE ParsePairs(data, amp + 1))

MultipartHeader(disposition, name, filename, cType) ==
    [disposition |-> disposition, name |-> name, filename |-> filename, cType |-> cType]

parseHeader(data) ==
    MultipartHeader(extractBetween(data, <<DispositionIs>>, <<59>>),
                    extractBetween(data, <<NameIs>>, <<34>>),
                    form_urldecode(extractBetween(data, <<File, NameIs>>, <<34>>)),
                    extractBetween(data, <<TypeIs>>, CrLf \o CrLf))

\* parseMIME: the header up to the blank line, then the value without the line
\* break before the separator.  No blank line is an exception nobody catches.
ValueWithBreak(data, start) == Substr(data, start, Len(data) - start)  \* mutant
ValueOf(data, start) == Substr(data, start, Len(data) - start - 2)

parseMIME(c, data) ==
    LET headLimit == Find(data, CrLf \o CrLf, 0)
        valueStart == headLimit + 4
        head == parseHeader(Substr(data, 0, valueStart))
        value == ValueOf(data, valueStart)
    IN  IF headLimit = Npos THEN [c EXCEPT !.thrown = TRUE]
        ELSE IF head.filename = <<>>
        THEN [c EXCEPT !.fFormData = Append(@, FormEntry(head.name, value))]
        ELSE [c EXCEPT !.fFormFiles =
                Append(@, FormFile(head.name, head.filename, head.cType, value))]

\* The multipart branch: the items between the separators, then the last one.
Sep1(boundary) == Dashes \o boundary \o CrLf
Sep2(boundary) == Dashes \o boundary \o Dashes \o CrLf

RECURSIVE ParseItems(_, _, _, _)
ParseItems(c, data, boundary, oldPos) ==
    LET pos == Find(data, Sep1(boundary), oldPos)
        last == Find(data, Sep2(boundary), oldPos)
    IN  IF c.thrown THEN c
        ELSE IF pos # Npos
        THEN ParseItems(parseMIME(c, Substr(data, oldPos, pos - oldPos)), data, boundary,
                        pos + Len(Sep1(boundary)))
        ELSE IF last = Npos THEN c ELSE parseMIME(c, Substr(data, oldPos, last - oldPos))

parseFormInput(c, data, type) ==
    IF data = <<>> THEN c
    ELSE IF type.is = "urlencoded" THEN [c EXCEPT !.fFormData = @ \o ParsePairs(data, 0)]
    ELSE IF type.is = "multipart"
    THEN ParseItems(c, data, type.boundary,
                    Find(data, Sep1(type.boundary), 0) + Len(Sep1(type.boundary)))
    ELSE c

\* parseCookie: leading white space is skipped, nothing is decoded.
Skipped(data) == Min({i \in 0 .. Len(data) : ~IsSpace(At(data, i + 1))})

parseCookie(c, data) ==
    LET pos == Find(data, <<61>>, 0)
    IN  IF pos = Npos THEN c
        ELSE [c EXCEPT !.fCookies =
                Append(@, HTTPCookie(Substr(data, Skipped(data), pos - Skipped(data)),
                                     Substr(data, pos + 1, -1)))]

RECURSIVE ParseCookiesFrom(_, _, _)
ParseCookiesFrom(c, data, oldPos) ==
    LET pos == Find(data, <<59>>, oldPos)
    IN  IF pos = Npos THEN parseCookie(c, Substr(data, oldPos, -1))
        ELSE ParseCookiesFrom(parseCookie(c, Substr(data, oldPos, pos - oldPos)), data,
                              pos + 1)
parseCookies(c, data) == IF data = <<>> THEN c ELSE ParseCookiesFrom(c, data, 0)

\* The constructor; parseMIME's exception ends it.

Constructed(query, cookie, data, type) ==
    LET posted == parseFormInput(NewCgi, data, type)
    IN  IF posted.thrown THEN posted
        ELSE parseCookies(parseFormInput(posted, query, [is |-> "urlencoded"]), cookie)

\* Looking elements up: the place of the first, 0 (end()) if there is none.
FE_nameCompare(name, entry) == stringsAreEqual(name, entry.name)
FE_valueCompare(value, entry) == stringsAreEqual(value, entry.value)
FF_compare(name, file) == stringsAreEqual(name, file.name)

getElement(c, name) == SelectInSeq(c.fFormData, LAMBDA e : FE_nameCompare(name, e))
getElementByValue(c, value) == SelectInSeq(c.fFormData, LAMBDA e : FE_valueCompare(value, e))
getFile(c, name) == SelectInSeq(c.fFormFiles, LAMBDA f : FF_compare(name, f))

findEntries(c, param, byName) ==
    SelectSeq(c.fFormData,
              LAMBDA e : IF byName THEN FE_nameCompare(param, e) ELSE FE_valueCompare(param, e))

ElementValue(c, name) ==  \* operator()
    LET i == getElement(c, name) IN IF i # 0 THEN c.fFormData[i].value ELSE <<>>
queryCheckbox(c, name) ==
    LET i == getElement(c, name) IN i # 0 /\ stringsAreEqual(c.fFormData[i].value, On)

-----------------------------------------------------------------------------
(* The servers.  cocgi assigns to the map, so the last of several values   *)
(* stays; mucgi inserts, so the first does, and it lowers the names of the *)
(* form elements, not those of files.                                      *)

Assigned(m, name, value) == (name :> value) @@ m
Inserted(m, name, value) == m @@ (name :> value)

\* doRequest (cocgi)
QmapOfCocgi(c) ==
    FoldLeft(LAMBDA m, f : Assigned(m, f.name, f.data),
             FoldLeft(LAMBDA m, e : Assigned(m, e.name, e.value), <<>>, c.fFormData),
             c.fFormFiles)
\* onRequest (mucgi)
QmapOfMucgi(c) ==
    FoldLeft(LAMBDA m, f : Inserted(m, f.name, f.data),
             FoldLeft(LAMBDA m, e : Inserted(m, ToLower(e.name), e.value), <<>>, c.fFormData),
             c.fFormFiles)

\* Both put the cookies over the parameters of the request.
HeaderWithCookies(params, c) ==
    FoldLeft(LAMBDA m, k : Assigned(m, k.name, k.value), params, c.fCookies)

-----------------------------------------------------------------------------
(* What a browser sends. *)

Joined(strings, between) ==
    FlattenSeq([i \in DOMAIN strings |->
        IF i = 1 THEN strings[i] ELSE between \o strings[i]])
UrlEncoded(entries) ==
    Joined([i \in DOMAIN entries |->
        form_urlencode(entries[i].name) \o <<61>> \o form_urlencode(entries[i].value)], <<38>>)
CookieLine(cookies) ==
    Joined([i \in DOMAIN cookies |-> cookies[i].name \o <<61>> \o cookies[i].value], <<59, 32>>)

\* One part of a multipart body: the name, for a file its name and type too.
ItemOf(p) ==
    <<DispositionIs, 100, 59, 32, NameIs>> \o p.name \o <<34>>
      \o (IF p.filename = <<>> THEN <<>>
          ELSE <<59, 32, File, NameIs>> \o form_urlencode(p.filename) \o <<34>>)
      \o (IF p.cType = <<>> THEN <<>> ELSE CrLf \o <<TypeIs>> \o p.cType)
      \o CrLf \o CrLf \o p.value \o CrLf
MultipartBody(parts, boundary) ==
    FlattenSeq([i \in DOMAIN parts |-> Sep1(boundary) \o ItemOf(parts[i])]) \o Sep2(boundary)

DataOf(s) ==
    IF s.type.is = "multipart" THEN MultipartBody(s.parts, s.type.boundary)
    ELSE UrlEncoded(s.posted)

\* A request arrives and is parsed; kind raw is any query string at all.
Parse ==
    /\ submission = NoSubmission
    /\ submission' \in Submissions
    /\ cgi' = IF submission'.kind = "raw"
              THEN Constructed(submission'.query, <<>>, <<>>, [is |-> "none"])
              ELSE Constructed(UrlEncoded(submission'.query), CookieLine(submission'.cookies),
                               DataOf(submission'), submission'.type)
    /\ UNCHANGED given

HandOver ==
    /\ submission # NoSubmission /\ given = <<>> /\ ~cgi.thrown
    /\ given' = [cocgi |-> QmapOfCocgi(cgi), mucgi |-> QmapOfMucgi(cgi),
                 header |-> HeaderWithCookies(<<>>, cgi)]
    /\ UNCHANGED <<submission, cgi>>

CgiNext == Parse \/ HandOver

-----------------------------------------------------------------------------
(* Properties. *)

IsForm == submission.kind = "form"
Fields(s) ==
    IF s.type.is = "multipart"
    THEN LET fields == SelectSeq(s.parts, LAMBDA p : p.filename = <<>>)
         IN  [i \in DOMAIN fields |-> FormEntry(fields[i].name, fields[i].value)]
    ELSE s.posted

\* The posted fields and then those of the query string, each once and in the
\* order sent, whatever characters are in them: separators and percent signs
\* survive the encoding, line breaks and dashes the multipart separators.
FieldsExact == IsForm => cgi.fFormData = Fields(submission) \o submission.query

\* Uploaded files keep name, type and content, byte by byte, the last part and
\* an empty file included; the exception of parseMIME is for malformed data only.
FilesExact ==
    IsForm /\ submission.type.is = "multipart" =>
        LET files == SelectSeq(submission.parts, LAMBDA p : p.filename # <<>>)
        IN  /\ ~cgi.thrown
            /\ cgi.fFormFiles =
                 [i \in DOMAIN files |->
                     [name |-> files[i].name, filename |-> files[i].filename,
                      dataType |-> IF files[i].cType = <<>> THEN TextPlain ELSE files[i].cType,
                      data |-> files[i].value]]

\* The cookies come back as they were set, "=" in a value included.
CookiesExact == IsForm => cgi.fCookies = submission.cookies

\* Decoding any string, well-formed or not: every escape becomes the character
\* it stands for, everything else is kept, in order.
Covered(s) ==
    {j \in DOMAIN s : \E i \in DOMAIN s :
        s[i] = Percent /\ i < j /\ j <= i + 2 /\ i + 2 <= Len(s)
        /\ IsXDigit(s[i + 1]) /\ IsXDigit(s[i + 2])}
DecodesAll ==
    submission.kind = "raw" =>
        LET s == submission.query
        IN  form_urldecode(s) =
              FlattenSeq([i \in DOMAIN s |->
                  IF i \in Covered(s) THEN <<>>
                  ELSE IF i + 1 \in Covered(s)
                  THEN <<CHOOSE c \in 0 .. 255 : charToHex(c) =
                           [j \in 1 .. 2 |-> IF s[i + j] >= 97 THEN s[i + j] - 32
                                             ELSE s[i + j]]>>
                  ELSE IF s[i] = Plus THEN <<32>> ELSE <<s[i]>>])

\* What was submitted is what is parsed, whatever characters it is made of.
FormsExact == FieldsExact /\ FilesExact /\ CookiesExact /\ DecodesAll

\* getValue(maxChars) and getStrippedValue(maxChars): the text without its line
\* breaks is the beginning of the value's, the limit is reached or nothing is
\* missing, and only line feeds at the end may go beyond the limit.
Stripped(s) == SelectSeq(s, LAMBDA c : c \notin {Cr, Lf})
Truncates ==
    submission.kind = "raw" =>
        \A maxLen \in MaxLens, allow \in BOOLEAN :
            LET v == submission.query
                r == makeString(v, maxLen, allow)
            IN  /\ IsPrefix(Stripped(r), Stripped(v))
                /\ Len(r) >= maxLen \/ Stripped(r) = Stripped(v)
                /\ \A i \in maxLen + 1 .. Len(r) : allow /\ r[i] = Lf
                /\ ~allow => r = Stripped(r)

\* When no name occurs twice, the two servers give the backend the same values,
\* and each name gets the value the browser sent for it, not another field's.
ServersAgree ==
    given # <<>> =>
        LET entries == cgi.fFormData \o
                [i \in DOMAIN cgi.fFormFiles |->
                    FormEntry(cgi.fFormFiles[i].name, cgi.fFormFiles[i].data)]
            names == [i \in DOMAIN entries |-> ToLower(entries[i].name)]
        IN  IsInjective(names) =>
              \A i \in DOMAIN entries :
                  LET key == IF i <= Len(cgi.fFormData) THEN names[i] ELSE entries[i].name
                  IN  given.cocgi[entries[i].name] = given.mucgi[key]
                        /\ given.mucgi[key] = entries[i].value

\* mucgi's map answers as cgicc's own lookups would: the lower-case name of a
\* field finds the first of all the fields of that name in whatever case, the
\* ones findEntries() lists, and a file is found unless a field has its name.
LookupsAgree ==
    given # <<>> =>
        /\ \A i \in DOMAIN cgi.fFormData :
             LET e == cgi.fFormData[i]
                 m == given.mucgi[ToLower(e.name)]
             IN  /\ m = ElementValue(cgi, e.name)
                 /\ findEntries(cgi, e.name, TRUE)[1].value = m
                 /\ queryCheckbox(cgi, e.name) = (ToLower(m) = On)
                 /\ e \in Range(findEntries(cgi, e.value, FALSE))
                 /\ getElementByValue(cgi, m) <= getElement(cgi, e.name)
        /\ \A i \in DOMAIN cgi.fFormFiles :
             LET n == cgi.fFormFiles[i].name
             IN  getElement(cgi, n) = 0 =>
                   given.mucgi[n] = cgi.fFormFiles[getFile(cgi, n)].data

\* The backend of either server is given what the form says.
LookupsExact == Truncates /\ ServersAgree /\ LookupsAgree
=============================================================================
