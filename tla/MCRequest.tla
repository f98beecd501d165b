------------------------------ MODULE MCRequest ------------------------------
(* Instances of what a request goes through: Buffer, the codec and cgicc.     *)
EXTENDS FcgiCodec, Cgicc, Buffer

Word(n, b) == [i \in 1 .. n |-> b]
MCPairs ==
    LET p(n, v) == [name |-> Word(n, 1), value |-> Word(v, 2)]
    IN  {p(1, 0), p(1, 8), p(9, 7)}

Request(pairs, drop, cut, pad, body, noise, role, flags) ==
    [pairs |-> pairs, drop |-> drop, cut |-> cut, pad |-> pad, body |-> body,
     noise |-> noise, role |-> role, flags |-> flags]

\* Up to two pairs, in two records cut anywhere; parameters cut off; bodies.
MCFirst ==
    {Request(ps, 0, cut, 3, <<>>, 2, 1, 1) :
        ps \in {<<>>} \cup {<<p>> : p \in MCPairs} \cup {<<p, q>> : p, q \in MCPairs},
        cut \in 0 .. 30}
    \cup {Request(<<p, q>>, drop, 4, 15, <<>>, 11, 1, 1) :
            p, q \in MCPairs, drop \in 1 .. 12}
    \cup {Request(<<>>, 0, 0, pad, body, 8, role, flags) :
            pad \in {0, 7}, body \in {<<<<5>>>>, <<<<1, 4>>, <<6>>>>},
            role \in {1, 2}, flags \in {0, 1, 2}}

MCSecond ==
    {Request(<<p>>, 0, 2, 1, <<<<5, 0>>>>, 9, 1, flags) : p \in MCPairs, flags \in {0, 1}}

MCRequests == <<{r \in MCFirst : r.cut <= Len(ParamBytes(r))}, MCSecond>>
MCEmptyPage == <<7, 7, 7>>

-----------------------------------------------------------------------------
\* Any four characters of a, 4, G, %, +, CR, LF.
MCRaw ==
    {[kind |-> "raw", query |-> q] :
        q \in UNION {[1 .. n -> {97, 52, 71, 37, 43, 13, 10}] : n \in 0 .. 4}}

Form(posted, parts, type, query, cookies) ==
    [kind |-> "form", posted |-> posted, parts |-> parts, type |-> type,
     query |-> query, cookies |-> cookies]

\* Values made of the characters the encodings give a meaning to.
MCValues == {<<>>, <<37, 52>>, <<61, 38>>, <<43, 32>>, <<255, 0>>, <<13, 10>>, <<79, 110>>}
MCEntries == {FormEntry(<<n>>, v) : n \in {97, 65, 61}, v \in MCValues}
MCCookies ==
    {<<>>, <<FormEntry(<<97>>, <<61, 37>>)>>,
     <<FormEntry(<<97>>, <<>>), FormEntry(<<98>>, <<61>>)>>}
MCUrlencoded ==
    {Form(ps, <<>>, [is |-> "urlencoded"], q, c) :
        ps \in {<<>>} \cup {<<e>> : e \in MCEntries} \cup {<<e, f>> : e, f \in MCEntries},
        q \in {<<>>, <<FormEntry(<<97>>, <<49>>)>>}, c \in MCCookies}

\* Values that look like parts of a separator, of a header or of a line break.
MCParts ==
    {[name |-> <<97>>, filename |-> f, cType |-> t, value |-> v] :
        f \in {<<>>, <<102, 34>>}, t \in {<<>>, <<116>>},
        v \in {<<>>, <<13, 10>>, <<45, 45>>, <<98, 45, 45>>, <<13, 10, 13, 10>>,
               <<NameIs, 98, 34>>, <<13>>}}
MCMultipart ==
    {Form(<<>>, ps, [is |-> "multipart", boundary |-> <<98>>], <<>>, <<>>) :
        ps \in {<<p>> : p \in MCParts} \cup {<<p, q>> : p, q \in MCParts}}

MCSubmissions == MCRaw \cup MCUrlencoded \cup MCMultipart

-----------------------------------------------------------------------------
\* The three side by side, one of them at a time.
RequestInit == Init /\ CodecInit /\ CgiInit
RequestNext ==
    \/ Init /\ submission = NoSubmission /\ CodecNext /\ UNCHANGED <<vars, cgiVars>>
    \/ Init /\ sent.count = 0 /\ CgiNext /\ UNCHANGED <<vars, codecVars>>
    \/ sent.count = 0 /\ submission = NoSubmission /\ Next /\ UNCHANGED <<codecVars, cgiVars>>
=============================================================================
