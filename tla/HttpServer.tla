----------------------------- MODULE HttpServer -----------------------------
(***************************************************************************)
(* One keep-alive connection of the static file server (http_server.cpp)   *)
(* with HttpRequest and HttpResponse.  The peer's bytes arrive in pieces   *)
(* of any size; onMessage() runs after each.  A token stands for a run of  *)
(* bytes: CR, LF, the text of a header line, or the text of a request      *)
(* line.  The target of a request line is spelled out in bytes, because    *)
(* the code decodes it.                                                    *)
(***************************************************************************)
EXTENDS Naturals, SequencesExt

CONSTANTS
    Streams,       \* what the peer may send: sequences of tokens
    Files,         \* what std::ifstream opens as docRoot_ + path: a function from path to content
    MimeTypes,     \* the suffixes getMimeType() knows: a function to the type
    IndexPath      \* "/index.html"

VARIABLES
    unsent,        \* tokens that have not arrived yet
    received,      \* all that arrived (history)
    buf,           \* the connection's input buffer
    answers,       \* the responses sent, in order
    running        \* FALSE once an exception has left the callback

vars == <<unsent, received, buf, answers, running>>

CR == [is |-> "CR"]
LF == [is |-> "LF"]
HeaderText == [is |-> "header"]
RequestText(method, path, target, version) ==
    [is |-> "request", method |-> method, target |-> target, version |-> version,
     path |-> path]              \* what the client means by target; the code never sees it
CrLf == <<CR, LF>>

Slash == 47
Percent == 37
PlusSign == 43
SpaceChar == 32
Query == 63
Dots == <<46, 46>>

\* std::search from position from on: where what begins, Len + 1 when it does not occur.
Search(data, from, what) ==
    Min({Len(data) + 1} \cup
        {i \in from..Len(data) : IsPrefix(what, SubSeq(data, i, Len(data)))})

(***************************************************************************)
(* HttpRequest.                                                            *)
(***************************************************************************)
hexToInt(c) ==
    CASE c \in 48..57 -> c - 48
      [] c \in 97..102 -> c - 97 + 10
      [] c \in 65..70 -> c - 65 + 10
      [] OTHER -> 16                                  \* not a digit

\* Mutated form of IsEscape: an escape at the very end of the path is not seen.
EscapeNotLast(in, i) ==
    /\ in[i] = Percent /\ i + 2 < Len(in)
    /\ hexToInt(in[i + 1]) < 16 /\ hexToInt(in[i + 2]) < 16

IsEscape(in, i) ==
    /\ in[i] = Percent /\ i + 2 <= Len(in)
    /\ hexToInt(in[i + 1]) < 16 /\ hexToInt(in[i + 2]) < 16

urlDecode(in) ==
    LET RECURSIVE From(_)
        From(i) ==
            CASE i > Len(in) -> <<>>
              [] i <= Len(in) /\ IsEscape(in, i) ->
                     <<16 * hexToInt(in[i + 1]) + hexToInt(in[i + 2])>> \o From(i + 3)
              [] OTHER -> <<IF in[i] = PlusSign THEN SpaceChar ELSE in[i]>> \o From(i + 1)
    IN  From(1)

\* The path of a request line: the target up to the query, decoded.
DecodedPath(target) ==
    urlDecode(SubSeq(target, 1, Search(target, 1, <<Query>>) - 1))

\* The words of a line: istringstream skips CR and LF like any whitespace.
Words(line) == SelectSeq(line, LAMBDA t : t.is \notin {"CR", "LF"})

\* What parseRequestLine() does: refuse the line, throw out of std::stoi, or find a path.
parseRequestLine(line) ==
    LET words == Words(line)
        path == DecodedPath(words[1].target)
    IN  CASE words = <<>> -> [result |-> "false"]
          [] words # <<>> /\ words[1].is # "request" -> [result |-> "false"]
          [] OTHER ->
                 CASE \/ words[1].method # "GET"
                      \/ Search(path, 1, Dots) <= Len(path) -> [result |-> "false"]
                   [] /\ words[1].method = "GET"
                      /\ Search(path, 1, Dots) > Len(path) ->
                          IF words[1].version = "notNumeric" THEN [result |-> "throws"]
                          ELSE [result |-> "true", path |-> IF path = <<Slash>> THEN IndexPath ELSE path]

\* parseHeaders(): TRUE when an empty line is found; the headers themselves are not used.
parseHeaders(data, begin) ==
    LET RECURSIVE From(_)
        From(current) ==
            /\ current <= Len(data)
            /\ LET crlf == Search(data, current, CrLf)
               IN  /\ crlf <= Len(data)
                   /\ crlf = current \/ From(crlf + 2)
    IN  From(begin)

parseRequest(data) ==
    LET crlf == Search(data, 1, CrLf)
        line == parseRequestLine(SubSeq(data, 1, crlf - 1))
    IN  CASE crlf > Len(data) -> [result |-> "false"]
          [] crlf <= Len(data) /\ line.result = "true" ->
                 IF parseHeaders(data, crlf + 2) THEN line ELSE [result |-> "false"]
          [] OTHER -> line

(***************************************************************************)
(* HttpResponse and the server.                                            *)
(***************************************************************************)
getMimeType(path) ==
    LET suffixes == {s \in DOMAIN MimeTypes : IsSuffix(s, path)}
    IN  IF suffixes = {} THEN "application/octet-stream"
        ELSE MimeTypes[CHOOSE s \in suffixes : TRUE]

NotFoundBody == <<0>>

\* appendToBuffer(): the parts of the response that is put on the wire.
Response(status, type, body) ==
    [status |-> status, close |-> FALSE, contentLength |-> Len(body), contentType |-> type, body |-> body]

Answer(path) ==
    IF path \in DOMAIN Files THEN Response("200", getMimeType(path), Files[path])
    ELSE Response("404", "text/html", NotFoundBody)

\* Mutated form of Consumed: the rest of the buffer goes with the request.
ConsumesAll(data) == Len(data)

\* How much onMessage() retrieves for the request at the front.
Consumed(data) == Search(data, 1, CrLf \o CrLf) + 3

\* onMessage()'s loop over the complete requests of the buffer.
RECURSIVE onMessage(_, _)
onMessage(data, sent) ==
    LET req == parseRequest(data)
    IN  CASE req.result = "throws" -> [buf |-> data, answers |-> sent, running |-> FALSE]
          [] req.result = "false" -> [buf |-> data, answers |-> sent, running |-> TRUE]
          [] req.result = "true" ->
                 IF Search(data, 1, CrLf \o CrLf) > Len(data)
                 THEN [buf |-> data, answers |-> sent, running |-> TRUE]
                 ELSE onMessage(SubSeq(data, Consumed(data) + 1, Len(data)), Append(sent, Answer(req.path)))

Init ==
    /\ unsent \in Streams
    /\ received = <<>> /\ buf = <<>> /\ answers = <<>>
    /\ running = TRUE

\* n more tokens arrive and the message callback handles them.
Receive(n) ==
    /\ running
    /\ LET after == onMessage(buf \o SubSeq(unsent, 1, n), answers)
       IN  buf' = after.buf /\ answers' = after.answers /\ running' = after.running
    /\ received' = received \o SubSeq(unsent, 1, n)
    /\ unsent' = SubSeq(unsent, n + 1, Len(unsent))

Next == \E n \in 1..Len(unsent) : Receive(n)

Spec == Init /\ [][Next]_vars

(***************************************************************************)
(* What the answers ought to be: the stream is a sequence of blocks that   *)
(* end with an empty line; blocks are answered up to the first whose       *)
(* request line is no good.                                                *)
(***************************************************************************)
Wanted(path) == IF path = <<Slash>> THEN IndexPath ELSE path

\* The first line is a GET for a path without two dots in a row.
Good(block) ==
    /\ block # <<>> /\ Words(SubSeq(block, 1, Search(block, 1, CrLf) - 1)) # <<>>
    /\ LET word == Words(block)[1]
       IN  /\ word.is = "request" /\ word.method = "GET" /\ word.version # "notNumeric"
           /\ \A i \in 1..(Len(word.path) - 1) : ~(word.path[i] = 46 /\ word.path[i + 1] = 46)

RECURSIVE Expected(_, _)
Expected(data, sent) ==
    LET ends == {i \in 1..(Len(data) - 3) : SubSeq(data, i, i + 3) = <<CR, LF, CR, LF>>}
        block == SubSeq(data, 1, Min(ends) - 1)
    IN  IF ends = {} THEN [buf |-> data, answers |-> sent]
        ELSE IF ~Good(block) THEN [buf |-> data, answers |-> sent]
        ELSE Expected(SubSeq(data, Min(ends) + 4, Len(data)),
                      Append(sent, Answer(Wanted(Words(block)[1].path))))

\* However the stream is cut, onMessage() has answered exactly the complete requests received
\* so far, in order, each with the file whose path the client spelled, and keeps exactly the
\* bytes after them; a request it refuses (and all that follows it) stays in the buffer.
AnswersExact ==
    LET expected == Expected(received, <<>>)
    IN  answers = expected.answers /\ buf = expected.buf

\* http_server.cpp:35 "handle every complete request already buffered": no complete
\* request that asks for a file waits in the buffer after the callback. It does not
\* hold and no run checks it: a request that parseRequest() refuses (another method than
\* GET, a bad line) is never retrieved (http_server.cpp:41) and holds back those behind it.
EveryCompleteRequestHandled ==
    running =>
        ~\E i \in 1..Len(buf) :
            LET rest == SubSeq(buf, i, Len(buf))
            IN  /\ i = 1 \/ (i > 4 /\ SubSeq(buf, i - 4, i - 1) = CrLf \o CrLf)
                /\ Search(rest, 1, CrLf \o CrLf) <= Len(rest)
                /\ Good(rest)

=============================================================================
