------------------------------ MODULE Formats -------------------------------
(***************************************************************************)
(* The text and wire formats checked against reference definitions over    *)
(* bounded inputs, together with the registry a decoded request is         *)
(* dispatched by.  A behaviour examines one input, or builds up a registry.*)
(***************************************************************************)
EXTENDS Wire

CONSTANTS
    MaxTokens,     \* tokens in a structured JSON text (at most 5)
    MaxPieces,     \* pieces between the quotes of a JSON string
    MaxNumber,     \* bytes of a JSON number
    MaxUtf8,       \* bytes of a text checked for UTF-8
    MaxBody,       \* bytes of a request body
    Names          \* names of services and methods

VARIABLE input     \* what is examined: a record with its kind

vars == <<input, registry>>

(***************************************************************************)
(* Well-formed UTF-8: a concatenation of encodings of scalar values.       *)
(***************************************************************************)
Assembled(s) ==
    CASE Len(s) = 1 -> s[1]
      [] Len(s) = 2 -> 64 * (s[1] - 192) + (s[2] - 128)
      [] Len(s) = 3 -> 4096 * (s[1] - 224) + 64 * (s[2] - 128) + (s[3] - 128)
      [] Len(s) = 4 -> 262144 * (s[1] - 240) + 4096 * (s[2] - 128) + 64 * (s[3] - 128) + (s[4] - 128)
RECURSIVE WellFormed(_)
WellFormed(text) ==
    \/ text = <<>>
    \/ \E n \in 1..Min({4, Len(text)}) :
           LET s == SubSeq(text, 1, n)
           IN  /\ Assembled(s) \in 0..1114111 /\ Assembled(s) \notin Surrogates
               /\ s = appendUtf8(Assembled(s))
               /\ WellFormed(SubSeq(text, n + 1, Len(text)))

(***************************************************************************)
(* JSON values: scalars at every boundary, containers one deeper than      *)
(* allowed, duplicate keys.                                                *)
(***************************************************************************)
Doubles ==
    {NonFinite, Double(TRUE, 0, 0), Double(FALSE, 0, 0)}
        \cup {Double(neg, m, e) : neg \in BOOLEAN, m \in {1, 15, 123}, e \in (-6)..6}
Strings == {<<>>, <<97>>, <<34, 92>>, <<10, 31>>, <<0>>, <<195, 169>>, <<195>>, <<127, 240, 159, 152, 128>>}
Scalars ==
    {Null, Bool(TRUE), Bool(FALSE)}
        \cup {Integer(n) : n \in {0, 7, -10, Int64Max, -Int64Max - 1}}
        \cup {Number(d) : d \in Doubles} \cup {String(s) : s \in Strings}
FewScalars ==
    {Null, Integer(-10), Number(Double(FALSE, 1, 2)), Number(NonFinite), String(<<34, 92>>), String(<<195>>)}
Members(S) == {<<k, v>> : k \in {<<>>, <<97>>, <<195>>}, v \in S}
RECURSIVE Wrapped(_, _)
Wrapped(v, n) ==
    IF n = 0 THEN v
    ELSE Wrapped(IF n % 2 = 0 THEN Array(<<Null, v>>) ELSE Object(<< <<(<<97>>), v>> >>), n - 1)
Values ==
    Scalars \cup {Array(a) : a \in BoundedSeq(FewScalars, 2)}
            \cup {Object(o) : o \in BoundedSeq(Members(FewScalars), 2)}
            \cup {Wrapped(v, n) : v \in Scalars \cup {Array(<<>>), Object(<<>>)}, n \in 1..(maxDepth_ + 1)}

\* The values that have a JSON text of depth at most d.
RECURSIVE Writable(_, _)
Writable(v, d) ==
    CASE v.type \in {"kNull", "kBool"} -> TRUE
      [] v.type = "kNumber" -> v.isInteger \/ v.number.finite
      [] v.type = "kString" -> WellFormed(v.string)
      [] v.type = "kArray" -> d > 0 /\ \A i \in DOMAIN v.array : Writable(v.array[i], d - 1)
      [] v.type = "kObject" ->
             d > 0 /\ \A i \in DOMAIN v.object : WellFormed(v.object[i][1]) /\ Writable(v.object[i][2], d - 1)

(***************************************************************************)
(* The language of JSON, as sets of <<text, value>>.                       *)
(***************************************************************************)
\* -- numbers over the bytes - + 0 1 . e
NumberBytes == {45, 43, 48, 49, 46, 101}
DigitRuns(n) == BoundedSeq({48, 49}, n) \ {<<>>}
Integers_ == {ds \in DigitRuns(MaxNumber) : ds = <<48>> \/ ds[1] # 48}
Fractions == {<<>>} \cup {<<46>> \o ds : ds \in DigitRuns(MaxNumber - 2)}
Exponents == {<<>>} \cup {<<101>> \o sign \o ds : sign \in {<<>>, <<43>>, <<45>>}, ds \in DigitRuns(MaxNumber - 2)}
NumberParts ==
    {p \in {<<>>, <<45>>} \X Integers_ \X Fractions \X Exponents :
         Len(p[1]) + Len(p[2]) + Len(p[3]) + Len(p[4]) <= MaxNumber}
ExponentValue(x) ==
    IF x = <<>> THEN 0
    ELSE (IF x[2] = 45 THEN -1 ELSE 1) * DigitsValue(SelectSeq(x, LAMBDA c : c \in Digits))
NumberValue(p) ==
    LET integer == (IF p[1] = <<>> THEN 1 ELSE -1) * DigitsValue(p[2])
        fraction == SelectSeq(p[3], LAMBDA c : c \in Digits)
    IN  IF p[3] = <<>> /\ p[4] = <<>> /\ integer \in (-Int64Max - 1)..Int64Max THEN Integer(integer)
        ELSE Number(from_chars(p[1] # <<>>, DigitsValue(p[2] \o fraction), ExponentValue(p[4]) - Len(fraction)))
NumberLanguage ==
    {<<p[1] \o p[2] \o p[3] \o p[4], NumberValue(p)>> : p \in {p \in NumberParts : Writable(NumberValue(p), 0)}}

\* -- strings: what stands between the quotes, and the bytes it means
StringPieces ==
    {<<34>>, <<92>>, <<92, 117>>, <<110>>, <<100, 56, 51, 100>>, <<68, 69, 48, 48>>, <<48, 48, 101, 57>>,
     <<195>>, <<169>>, <<31>>}
Units ==
    {[size |-> 1, text |-> s, means |-> s] : s \in {<<110>>, <<100, 56, 51, 100>>, <<68, 69, 48, 48>>, <<48, 48, 101, 57>>}}
        \cup {[size |-> 2, text |-> <<92, 110>>, means |-> <<10>>],
              [size |-> 2, text |-> <<92, 92>>, means |-> <<92>>],
              [size |-> 2, text |-> <<92, 92, 117>>, means |-> <<92, 117>>],
              [size |-> 2, text |-> <<92, 34>>, means |-> <<34>>],
              [size |-> 2, text |-> <<195, 169>>, means |-> <<195, 169>>],
              [size |-> 2, text |-> <<92, 117, 48, 48, 101, 57>>, means |-> <<195, 169>>],
              [size |-> 4, text |-> <<92, 117, 100, 56, 51, 100, 92, 117, 68, 69, 48, 48>>,
               means |-> <<240, 159, 152, 128>>]}
UnitSeqs == {us \in BoundedSeq(Units, MaxPieces) : FoldLeft(LAMBDA n, u : n + u.size, 0, us) <= MaxPieces}
StringLanguage ==
    {<<(<<34>> \o FlattenSeq([i \in DOMAIN us |-> us[i].text]) \o <<34>>),
       String(FlattenSeq([i \in DOMAIN us |-> us[i].means]))>> : us \in UnitSeqs}

\* -- arrays and objects of at most MaxTokens tokens, without whitespace
Tokens == {<<91>>, <<93>>, <<123>>, <<125>>, <<58>>, <<44>>, <<34, 34>>, <<49>>, <<32>>}
Ones == {<<ds, NumberValue(<<(<<>>), ds, <<>>, <<>>>>)>> : ds \in {[i \in 1..n |-> 49] : n \in 1..MaxTokens}}
Leaves == Ones \cup {<<(<<34, 34>>), String(<<>>)>>}
ArrayOf(ps) ==
    <<(<<91>> \o FlattenSeq([i \in DOMAIN ps |-> (IF i = 1 THEN <<>> ELSE <<44>>) \o ps[i][1]]) \o <<93>>),
      Array([i \in DOMAIN ps |-> ps[i][2]])>>
ObjectOf(ps) ==
    <<(<<123>> \o FlattenSeq([i \in DOMAIN ps |-> <<34, 34, 58>> \o ps[i][1]]) \o <<125>>),
      Object([i \in DOMAIN ps |-> <<(<<>>), ps[i][2]>>])>>
Flat == Leaves \cup {ArrayOf(ps) : ps \in BoundedSeq(Leaves, 2)} \cup {ObjectOf(ps) : ps \in BoundedSeq(Leaves, 1)}
\* Arrays in arrays up to one level too deep, around an array or an object.
Nested ==
    {[i \in 1..(2 * n) |-> CASE i < n -> <<91>> [] i = n -> inner[1] [] i = n + 1 -> inner[2] [] i > n + 1 -> <<93>>] :
         n \in 1..(maxDepth_ + 1), inner \in {<<(<<91>>), (<<93>>)>>, <<(<<123>>), (<<125>>)>>}}
TokenLanguage == Flat \cup {ArrayOf(<<p>>) : p \in Flat}

NumberTexts == {p[1] : p \in NumberLanguage}
StringTexts == {p[1] : p \in StringLanguage}
TokenTexts == {p[1] : p \in TokenLanguage}

\* parse() accepts text exactly when it is in the language, and reads its value.
ReadsAs(text, stripped, language, texts) ==
    LET r == parse(text)
    IN  IF r.ok THEN <<stripped, r.v>> \in language ELSE stripped \notin texts

\* Whitespace that splits a number in two.
SplitsNumber(tokens) ==
    \E i, j \in DOMAIN tokens :
        /\ i + 1 < j /\ tokens[i] = <<49>> /\ tokens[j] = <<49>>
        /\ \A k \in (i + 1)..(j - 1) : tokens[k] = <<32>>

(***************************************************************************)
(* Inputs.                                                                 *)
(***************************************************************************)
Utf8Boundaries == {127, 128, 143, 144, 159, 160, 191, 193, 194, 224, 237, 240, 244, 245}
Payloads == {[i \in 1..n |-> 1] : n \in 0..kMaxBodyLen}
Byte == 0..(ByteBase - 1)
U32 == {0, 1, ByteBase, ByteBase ^ 2 + 1, ByteBase ^ 4 - 1}
Headers ==
    [version : {1, ByteBase - 1}, type : {1, 2}, flags : {0, 3}, status : Byte, serializerId : {0, 1},
     requestId : U32, bodyLen : U32]

Init ==
    /\ RegistryInit
    /\ \/ input \in [kind : {"value"}, value : Values]
       \/ input \in [kind : {"tokens"}, tokens : BoundedSeq(Tokens, MaxTokens) \cup Nested]
       \/ input \in [kind : {"string"}, pieces : BoundedSeq(StringPieces, MaxPieces)]
       \/ input \in [kind : {"number"}, text : BoundedSeq(NumberBytes, MaxNumber)]
       \/ input \in [kind : {"bytes"}, text : BoundedSeq(Utf8Boundaries, MaxUtf8)]
       \/ input \in [kind : {"header"}, header : Headers]
       \/ input \in [kind : {"body"}, body : BoundedSeq(Byte, MaxBody)]
       \/ input \in [kind : {"request"}, request : {Request(s, m, p) : s \in Names, m \in Names, p \in Payloads}]
       \/ input = [kind |-> "registry"]

Next ==
    /\ input.kind = "registry" /\ UNCHANGED input
    /\ \/ \E service, method \in Names : registerMethod(service, method)
       \/ freeze

Spec == Init /\ [][Next]_vars

(***************************************************************************)
(* Properties.                                                             *)
(***************************************************************************)
\* JsonWriter::write() fails exactly for a value nested too deeply, a string that is not
\* UTF-8 or a non-finite double, and JsonParser::parse() reads what it wrote as the same
\* value: an integer stays one, a whole double too, the sign of zero and repeated keys are kept.
JsonRoundTrip ==
    input.kind = "value" =>
        LET text == write(input.value)
        IN  /\ text.ok <=> Writable(input.value, maxDepth_)
            /\ text.ok => parse(text.text).ok /\ parse(text.text).v = input.value

\* JsonParser::parse() accepts exactly the JSON language and reads its values: numbers
\* (no leading zero, digits where the grammar wants them, doubles when they exceed
\* int64_t), strings (escapes, surrogate pairs, control characters, raw UTF-8), and
\* containers with whitespace between any two tokens, nested at most maxDepth_ deep.
JsonAccepts ==
    /\ input.kind = "number" => ReadsAs(input.text, input.text, NumberLanguage, NumberTexts)
    /\ input.kind = "string" =>
           LET text == <<34>> \o FlattenSeq(input.pieces) \o <<34>>
           IN  ReadsAs(text, text, StringLanguage, StringTexts)
    /\ input.kind = "tokens" =>
           LET text == FlattenSeq(input.tokens)
           IN  IF SplitsNumber(input.tokens) THEN ~parse(text).ok
               ELSE ReadsAs(text, SelectSeq(text, LAMBDA c : c # 32), TokenLanguage, TokenTexts)

\* isValidUtf8() accepts exactly the concatenations of what appendUtf8() writes for scalar
\* values: no overlong form, no surrogate, nothing above U+10FFFF, nothing truncated.
Utf8Exact == input.kind = "bytes" => (isValidUtf8(input.text) <=> WellFormed(input.text))

\* A header or request that is encoded decodes to itself, a request that cannot be encoded
\* is one with a name that does not fit or a body too large, and decodeRequest() accepts no
\* body that encodeRequest() would not have written; a raw response is its payload.
WireExact ==
    /\ input.kind = "header" =>
           LET text == encodeHeader(input.header)
           IN  /\ decodeHeader(text).ok /\ decodeHeader(text).v = input.header
               /\ \A n \in 0..(Len(text) - 1) : ~decodeHeader(SubSeq(text, 1, n)).ok
    /\ input.kind = "request" =>
           LET body == encodeRequest(input.request)
               size == 4 + Len(input.request.service) + Len(input.request.method) + Len(input.request.payload)
           IN  /\ body.ok <=> /\ input.request.service # <<>> /\ input.request.method # <<>>
                              /\ Len(input.request.service) < ByteBase ^ 2
                              /\ Len(input.request.method) < ByteBase ^ 2
                              /\ size <= kMaxBodyLen
               /\ body.ok => /\ Len(body.text) = size
                             /\ decodeRequest(body.text).ok
                             /\ decodeRequest(body.text).v = input.request
    /\ input.kind = "body" =>
           LET r == decodeRequest(input.body)
               response == encodeResponse(RawEncode(String(input.body)).text)
           IN  /\ r.ok => encodeRequest(r.v) = Written(input.body)
               /\ RawDecode(decodeResponse(response.text).v).v = String(input.body)

\* What a server does with the body of a request frame, and what the handler is given.
Served(service, method, value) ==
    dispatch(decodeRequest(encodeRequest(Request(service, method, JsonEncode(value).text)).text).v)

\* A request for a registered pair reaches the handler registered for that very pair, with
\* the value that was sent, also when another pair with dots has the same key (its
\* registration is then refused).  A request for any other pair reaches a handler only under
\* such an alias, and is otherwise answered kUnknownMethod exactly when its service is known.
DispatchExact ==
    LET registered == {methods_[key] : key \in DOMAIN methods_}
        value == Integer(7)
    IN  \A service, method \in {n \in Names : nameFits(n)} :
            LET resp == Served(service, method, value)
                alias == \E p \in registered : makeKey(p[1], p[2]) = makeKey(service, method)
            IN  /\ alias <=> resp.status = "kOk"
                /\ alias => /\ JsonDecode(resp.argument).v = value
                            /\ <<service, method>> \in registered => resp.handler = <<service, method>>
                /\ ~alias => (resp.status = "kUnknownMethod" <=> \E p \in registered : p[1] = service)

=============================================================================
