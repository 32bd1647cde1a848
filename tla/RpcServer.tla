------------------------------ MODULE RpcServer ------------------------------
(***************************************************************************)
(* One connection of an RpcServer: the byte stream a peer sends, however   *)
(* the network cuts it, goes through the connection's input Buffer and     *)
(* FrameReader::parse() to onMessage(), which answers, rejects and closes. *)
(*                                                                         *)
(* A byte is <<k, j>>, the j-th byte of the k-th frame sent.  A frame has  *)
(* a body length and a kind, which says what the checks of onMessage(),    *)
(* decodeRequest(), the dispatch and encodeResponse() make of it.  The     *)
(* output side is the sequence of responses handed to the TcpConnection,   *)
(* and whether a part of them is still in its output buffer.  The peer     *)
(* sends frame after frame while the server reads, and closes its end.     *)
(***************************************************************************)
EXTENDS Buffer, FiniteSets, FiniteSetsExt

CONSTANTS kHeaderSize,   \* bytes in a header (16)
          MaxFrameSize,  \* what setMaxFrameSize() was given
          kMaxBodyLen,   \* the protocol's ceiling (16 MiB)
          InputLimits,   \* what setMaxInputBufferSize() may have been given
          BodyLens,      \* lengths of the bodies sent
          MaxFrames      \* bound on the frames of a stream

ASSUME ServerAssumption ==
    /\ kHeaderSize \in Nat \ {0}
    /\ MaxFrameSize \in Nat /\ kMaxBodyLen \in Nat /\ MaxFrames \in Nat
    /\ InputLimits \subseteq Nat /\ BodyLens \subseteq Nat

VARIABLES
    frames,              \* the frames the peer has sent, in order
    unread,              \* bytes sent and not yet read
    inputBuffer_,        \* of the TcpConnection
    maxInputBufferSize_, \* 0: follow maxFrameSize_
    state_,              \* of the TcpConnection
    closePosted,         \* forceCloseInLoop() is queued
    output,              \* outputBuffer_ of the TcpConnection is not empty
    halfClosed,          \* the end of the stream was read with output pending
    pc,                  \* the loop thread: "poll", or "parse" inside onMessage()
    responses,           \* <<frame, status>> handed to the connection while kConnected
    handled,             \* frames taken from the buffer
    dispatched           \* frames given to the ServiceRegistry

vars == <<frames, unread, inputBuffer_, maxInputBufferSize_, state_, closePosted, output,
          halfClosed, pc, responses, handled, dispatched>>

\* The status each kind of frame is answered with.  "magic" is not answered, nor is a
\* request whose reply is too large to encode.  A kind is what the code makes of a frame:
\* RFC-0001 would have it reject a request with id 0 or a status and ignore flag bits 2 to
\* 7, but onMessage() serves the former ("ok") and rejects any flag bit ("flags").
Status ==
    [ok |-> "kOk", noService |-> "kUnknownService", noMethod |-> "kUnknownMethod",
     throws |-> "kInternalError", serializer |-> "kUnsupportedSerializer",
     version |-> "kUnsupportedVersion", type |-> "kUnsupportedMsgType",
     flags |-> "kUnsupportedFlag", envelope |-> "kMalformedBody",
     huge |-> "kBodyTooLarge"]

Kinds == DOMAIN Status \cup {"magic", "bigReply"}
PolicyKinds == {"version", "type", "flags"}

\* What ServiceRegistry::dispatch() can make of a request whose reply can be encoded.
DispatchKinds == {"ok", "noService", "noMethod", "throws"}
Rejections == {Status[k] : k \in PolicyKinds \cup {"envelope", "huge"}}

maxFrameSize_ == Max({MaxFrameSize, kHeaderSize})
maxBody == Min({maxFrameSize_ - kHeaderSize, kMaxBodyLen})

\* Only a frame over the limit declares more than it sends.
Declared(f) == IF f.kind = "huge" THEN maxBody + 1 + f.body ELSE f.body
Frame == {f \in [kind : Kinds, body : BodyLens] : f.kind # "huge" => f.body <= maxBody}

\* The bytes of frame f, the k-th sent.
FrameSize(f) == kHeaderSize + f.body
FrameBytes(f, k) == [j \in 1..FrameSize(f) |-> <<k, j>>]

TypeOK ==
    /\ frames \in Seq(Frame)
    /\ \A byte \in ToSet(unread) : byte[1] \in DOMAIN frames
    /\ BufferOK(inputBuffer_)
    /\ maxInputBufferSize_ \in Nat
    /\ state_ \in {"kConnected", "kDisconnecting", "kDisconnected"}
    /\ closePosted \in BOOLEAN /\ output \in BOOLEAN /\ halfClosed \in BOOLEAN
    /\ pc \in {"poll", "parse"}
    /\ \A r \in ToSet(responses) : r[1] \in DOMAIN frames
    /\ handled \in Seq(DOMAIN frames) /\ dispatched \in Seq(DOMAIN frames)

Init ==
    /\ frames = <<>> /\ unread = <<>>
    /\ inputBuffer_ = NewBuffer
    /\ \E limit \in InputLimits :
           maxInputBufferSize_ = IF limit = 0 THEN 0 ELSE Max({limit, kHeaderSize})
    /\ state_ = "kConnected" /\ closePosted = FALSE
    /\ output = FALSE /\ halfClosed = FALSE
    /\ pc = "poll"
    /\ responses = <<>> /\ handled = <<>> /\ dispatched = <<>>

(***************************************************************************)
(* Mutated forms of definitions below: bugs this code could have.          *)
(***************************************************************************)

\* rejectAndClose() shuts the connection down before it sends.
ShutsDownFirst(k) ==
    /\ state_' = IF state_ = "kConnected" THEN "kDisconnecting" ELSE state_
    /\ UNCHANGED <<responses, output>>

\* The check of the input buffer's size is a factor off.
TwiceTheLimit(n) == 2 * (IF n # 0 THEN n ELSE maxFrameSize_)

\* onMessage() returns after every frame.
OneFramePerRead == "poll"

(***************************************************************************)
(* FrameReader::parse() on the input buffer.                               *)
(***************************************************************************)
readable == readableBytes(inputBuffer_)
peek == Head(Readable(inputBuffer_))

\* decodeHeader(): the bytes at peek() are a header with the right magic.
decodeHeader ==
    readable >= kHeaderSize /\ peek[2] = 1 /\ frames[peek[1]].kind # "magic"

bodyLen == Declared(frames[peek[1]])

ParseResult ==
    IF readable < kHeaderSize THEN "kNeedMore"
    ELSE IF ~decodeHeader \/ bodyLen > maxBody THEN "kProtocolError"
    ELSE IF readable < kHeaderSize + bodyLen THEN "kNeedMore"
    ELSE "kOk"

Consumed(k) == retrieve(inputBuffer_, kHeaderSize + Declared(frames[k]))

(***************************************************************************)
(* What onMessage() does to the connection.                                *)
(***************************************************************************)

\* TcpConnection::send() of a response: dropped unless kConnected; what the kernel does not
\* take of it goes to the output buffer.
sendResponse(k) ==
    \/ /\ state_ = "kConnected"
       /\ responses' = Append(responses, <<k, Status[frames[k].kind]>>)
       /\ output' \in {output, TRUE}
    \/ /\ state_ # "kConnected"
       /\ UNCHANGED <<responses, output>>

\* rejectAndClose(): send, then shutdown().
rejectAndClose(k) ==
    /\ sendResponse(k)
    /\ state_' = IF state_ = "kConnected" THEN "kDisconnecting" ELSE state_

\* forceClose(): the close itself is posted.
forceClose == state_' = "kDisconnecting" /\ closePosted' = TRUE

\* onMessage() goes round its loop.
NextFrame == "parse"

\* The peer sends a frame.  It may close its end behind any frame (HalfClose, HandleClose).
PeerSends(f) ==
    /\ state_ # "kDisconnected" /\ ~halfClosed
    /\ Len(frames) < MaxFrames
    /\ frames' = Append(frames, f)
    /\ unread' = unread \o FrameBytes(f, Len(frames) + 1)
    /\ UNCHANGED <<inputBuffer_, maxInputBufferSize_, state_, closePosted, output, halfClosed,
                   pc, responses, handled, dispatched>>

(***************************************************************************)
(* The steps of the loop thread.                                           *)
(***************************************************************************)

\* TcpConnection::handleRead(): readv() takes some of the bytes, onMessage() starts.
\* The loop runs a posted close before it polls again.
HandleRead ==
    /\ pc = "poll"
    /\ ~closePosted
    /\ state_ # "kDisconnected"
    /\ \E n \in 1..Min({Len(unread), ReadCapacity(inputBuffer_)}) :
           /\ inputBuffer_' = readCore(inputBuffer_, SubSeq(unread, 1, n))
           /\ unread' = SubSeq(unread, n + 1, Len(unread))
    /\ pc' = "parse"
    /\ UNCHANGED <<frames, maxInputBufferSize_, state_, closePosted, output, halfClosed,
                   responses, handled, dispatched>>

InputLimit(n) == IF n # 0 THEN n ELSE maxFrameSize_

\* kNeedMore: wait for the next read, unless too much is left unparsed.
NeedMore ==
    /\ pc = "parse"
    /\ ParseResult = "kNeedMore"
    /\ pc' = "poll"
    /\ IF readable > InputLimit(maxInputBufferSize_)
       THEN forceClose ELSE UNCHANGED <<state_, closePosted>>
    /\ UNCHANGED <<frames, unread, inputBuffer_, maxInputBufferSize_, output, halfClosed,
                   responses, handled, dispatched>>

\* kProtocolError: reject a declared length over the limit, drop anything else.
ProtocolError ==
    /\ pc = "parse"
    /\ ParseResult = "kProtocolError"
    /\ pc' = "poll"
    /\ IF decodeHeader
       THEN rejectAndClose(peek[1]) /\ UNCHANGED closePosted
       ELSE forceClose /\ UNCHANGED <<responses, output>>
    /\ UNCHANGED <<frames, unread, inputBuffer_, maxInputBufferSize_, halfClosed, handled,
                   dispatched>>

\* kOk: one frame is taken from the buffer.
Takes(k) ==
    /\ pc = "parse"
    /\ ParseResult = "kOk"
    /\ k = peek[1]
    /\ inputBuffer_' = Consumed(k)
    /\ handled' = Append(handled, k)
    /\ UNCHANGED <<frames, unread, maxInputBufferSize_, halfClosed>>

\* A version, type or flag this server does not know: onMessage() returns.
RejectsHeader(k) ==
    /\ Takes(k)
    /\ frames[k].kind \in PolicyKinds
    /\ rejectAndClose(k)
    /\ pc' = "poll"
    /\ UNCHANGED <<closePosted, dispatched>>

\* An unknown serializer is answered, and the loop goes on.
RejectsSerializer(k) ==
    /\ Takes(k)
    /\ frames[k].kind = "serializer"
    /\ sendResponse(k)
    /\ pc' = NextFrame
    /\ UNCHANGED <<state_, closePosted, dispatched>>

\* handleRequest() of a malformed envelope: rejected, and the loop goes on.
RejectsEnvelope(k) ==
    /\ Takes(k)
    /\ frames[k].kind = "envelope"
    /\ rejectAndClose(k)
    /\ pc' = NextFrame
    /\ UNCHANGED <<closePosted, dispatched>>

\* handleRequest(): dispatch, and answer with what came of it.
HandleRequest(k) ==
    /\ Takes(k)
    /\ frames[k].kind \in DispatchKinds
    /\ dispatched' = Append(dispatched, k)
    /\ sendResponse(k)
    /\ pc' = NextFrame
    /\ UNCHANGED <<state_, closePosted>>

\* handleRequest() when the reply cannot be encoded: the loop goes on here too.
ReplyTooLarge(k) ==
    /\ Takes(k)
    /\ frames[k].kind = "bigReply"
    /\ dispatched' = Append(dispatched, k)
    /\ forceClose
    /\ pc' = NextFrame
    /\ UNCHANGED <<responses, output>>

\* handleWrite() sends what is left in the output buffer.
HandleWrite ==
    /\ pc = "poll"
    /\ state_ # "kDisconnected"
    /\ output /\ output' = FALSE
    /\ UNCHANGED <<frames, unread, inputBuffer_, maxInputBufferSize_, state_, closePosted,
                   halfClosed, pc, responses, handled, dispatched>>

\* handleRead() at the end of the stream, with output pending: the connection stays to send
\* it, but send() drops what comes from now on.
HalfClose ==
    /\ pc = "poll"
    /\ ~closePosted
    /\ state_ # "kDisconnected"
    /\ unread = <<>> /\ output
    /\ state_' = "kDisconnecting" /\ halfClosed' = TRUE
    /\ UNCHANGED <<frames, unread, inputBuffer_, maxInputBufferSize_, closePosted, output, pc,
                   responses, handled, dispatched>>

\* handleClose(), from the posted forceCloseInLoop() or at the end of the stream with no
\* output pending.
HandleClose ==
    /\ pc = "poll"
    /\ state_ # "kDisconnected"
    /\ closePosted \/ (unread = <<>> /\ ~output)
    /\ state_' = "kDisconnected"
    /\ closePosted' = FALSE
    /\ UNCHANGED <<frames, unread, inputBuffer_, maxInputBufferSize_, output, halfClosed, pc,
                   responses, handled, dispatched>>

OnMessage ==
    \/ NeedMore \/ ProtocolError
    \/ \E k \in DOMAIN frames :
           \/ RejectsHeader(k) \/ RejectsSerializer(k) \/ RejectsEnvelope(k)
           \/ HandleRequest(k) \/ ReplyTooLarge(k)

Next ==
    \/ HandleRead \/ OnMessage \/ HandleWrite \/ HalfClose \/ HandleClose
    \/ \E f \in Frame : PeerSends(f)

Spec == Init /\ [][Next]_vars

(***************************************************************************)
(* Properties                                                              *)
(***************************************************************************)

\* The byte behind a byte of the stream: the next of its frame, or the first of the next.
Following(byte) ==
    IF byte[2] < FrameSize(frames[byte[1]]) THEN <<byte[1], byte[2] + 1>> ELSE <<byte[1] + 1, 1>>

\* However the stream is cut into reads, the frames are taken from it in order and
\* each once (FrameReader::parse is stateless and consumes whole frames).  What the
\* input buffer holds, followed by what has not been read, is the stream from the first
\* frame not yet taken: growing, moving and overflowing into the stack buffer (readCore,
\* makeSpace, retrieve) lose, repeat and reorder no byte.
FramesInOrder ==
    LET bytes == Readable(inputBuffer_) \o unread
        first == Len(handled) + 1
    IN  /\ TypeOK
        /\ handled = [i \in 1..Len(handled) |-> i]
        /\ bytes = <<>> <=> first > Len(frames)
        /\ bytes # <<>> => /\ bytes[1] = <<first, 1>>
                           /\ Following(Last(bytes)) = <<Len(frames) + 1, 1>>
        /\ \A i \in 2..Len(bytes) : bytes[i] = Following(bytes[i - 1])

\* The i-th response answers the i-th frame with the status of its kind.  While the
\* connection is up every frame taken has been answered, and a rejection is the last
\* response.  In kDisconnecting the rejection has been sent (rejectAndClose sends before it
\* shuts down), or a close is on its way, or the peer closed its end: then every frame taken
\* before that has been answered too, also when the answers were still in the buffer.
Answered ==
    /\ \A i \in DOMAIN responses : responses[i] = <<i, Status[frames[i].kind]>>
    /\ \A i \in DOMAIN responses : responses[i][2] \in Rejections => i = Len(responses)
    /\ state_ = "kConnected" =>
           /\ Len(responses) = Len(handled)
           /\ \A r \in ToSet(responses) : r[2] \notin Rejections
    /\ state_ = "kDisconnecting" =>
           \/ responses # <<>> /\ Last(responses)[2] \in Rejections
           \/ closePosted
           \/ halfClosed /\ Len(responses) = Len(handled)

\* onMessage() does not return to the loop with a complete or a hopeless frame at the
\* front of the buffer of a connection that is up: nothing would parse it before the
\* peer sends more.
ParsedAsFarAsPossible ==
    (pc = "poll" /\ state_ = "kConnected") => ParseResult = "kNeedMore"

\* A connection that is up holds no more unparsed bytes than the configured limit.
InputBounded ==
    (pc = "poll" /\ state_ = "kConnected") =>
        readable <= (IF maxInputBufferSize_ = 0 THEN maxFrameSize_ ELSE maxInputBufferSize_)

\* A rejection is "then close: the rest of the stream is unknowable"
\* (rpc_server.cpp:107) and "the stream cannot continue" (:163): no request behind a
\* rejected frame is dispatched.  It does not hold: the connection keeps reading until
\* the peer closes, and onMessage() dispatches what it reads.
RejectionIsFinal ==
    \A k \in ToSet(dispatched), r \in ToSet(responses) : r[2] \in Rejections => k < r[1]

==============================================================================
