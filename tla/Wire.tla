-------------------------------- MODULE Wire --------------------------------
(***************************************************************************)
(* What travels in an RPC frame and where it is delivered: the frame       *)
(* header (protocol.cpp), the request and response envelopes (RawCodec),   *)
(* the payload serializers, and the ServiceRegistry that picks the         *)
(* handler.  A byte takes ByteBase values; the field widths and offsets    *)
(* are the ones of the code.                                               *)
(***************************************************************************)
EXTENDS Json

CONSTANTS
    ByteBase,      \* values of a byte (256)
    kMagic,        \* 0x4E52, scaled down
    kMaxBodyLen,   \* the largest body (16 MiB), scaled down
    Dot_           \* the byte '.' in a name

ASSUME WireAssumption ==
    /\ ByteBase \in Nat \ {0, 1} /\ kMagic \in 0..(ByteBase ^ 2 - 1)
    /\ kMaxBodyLen \in Nat /\ Dot_ \in 0..(ByteBase - 1)

kHeaderSize == 16
kMaxNameLen == ByteBase ^ 2 - 1

\* value as n bytes, the least significant one first, and back.
putU(n, value) == [i \in 1..n |-> (value \div ByteBase ^ (i - 1)) % ByteBase]
getU(n, in, offset) ==
    FoldRight(LAMBDA byte, v : ByteBase * v + byte, SubSeq(in, offset + 1, offset + n), 0)

(***************************************************************************)
(* The frame header.  Byte 7 is reserved: written as zero, never read.     *)
(***************************************************************************)
encodeHeader(h) ==
    putU(2, kMagic)
        \o <<h.version, h.type, h.flags, h.status, h.serializerId, 0>>
        \o putU(4, h.requestId) \o putU(4, h.bodyLen)

decodeHeader(in) ==
    IF Len(in) < kHeaderSize \/ getU(2, in, 0) # kMagic THEN Fail
    ELSE [ok |-> TRUE,
          v |-> [version |-> in[3], type |-> in[4], flags |-> in[5], status |-> in[6],
                 serializerId |-> in[7],
                 requestId |-> getU(4, in, 8), bodyLen |-> getU(4, in, 12)]]

(***************************************************************************)
(* RawCodec.                                                               *)
(***************************************************************************)
Request(service, method, payload) ==
    [service |-> service, method |-> method, payload |-> payload]

nameFits(name) == Len(name) \in 1..kMaxNameLen

encodeRequest(r) ==
    LET body == putU(2, Len(r.service)) \o r.service
                    \o putU(2, Len(r.method)) \o r.method \o r.payload
    IN  IF nameFits(r.service) /\ nameFits(r.method) /\ Len(body) <= kMaxBodyLen
        THEN Written(body) ELSE Fail

\* Mutated form of decodeRequest: an empty method name is let through.
EmptyMethodDecoded(in) ==
    LET svcLen == getU(2, in, 0)
        methodLen == getU(2, in, 2 + svcLen)
    IN  IF \/ Len(in) < 2 \/ Len(in) > kMaxBodyLen \/ svcLen = 0
           \/ Len(in) < 2 + svcLen + 2 \/ Len(in) < 4 + svcLen + methodLen
        THEN Fail
        ELSE [ok |-> TRUE, v |-> Request(SubSeq(in, 3, 2 + svcLen),
                                         SubSeq(in, 5 + svcLen, 4 + svcLen + methodLen),
                                         SubSeq(in, 5 + svcLen + methodLen, Len(in)))]

decodeRequest(in) ==
    LET svcLen == getU(2, in, 0)
        methodLen == getU(2, in, 2 + svcLen)
    IN  IF \/ Len(in) < 2 \/ Len(in) > kMaxBodyLen \/ svcLen = 0
           \/ Len(in) < 2 + svcLen + 2 \/ methodLen = 0
           \/ Len(in) < 4 + svcLen + methodLen
        THEN Fail
        ELSE [ok |-> TRUE, v |-> Request(SubSeq(in, 3, 2 + svcLen),
                                         SubSeq(in, 5 + svcLen, 4 + svcLen + methodLen),
                                         SubSeq(in, 5 + svcLen + methodLen, Len(in)))]

\* The payload is the whole body; status and serializer id travel in the header.
encodeResponse(payload) == IF Len(payload) <= kMaxBodyLen THEN Written(payload) ELSE Fail
decodeResponse(in) == IF Len(in) <= kMaxBodyLen THEN [ok |-> TRUE, v |-> in] ELSE Fail

(***************************************************************************)
(* The serializers: what a payload says, and back.                         *)
(***************************************************************************)
JsonEncode(value) ==
    LET text == write(value)
    IN  IF text.ok /\ Len(text.text) <= kMaxBodyLen THEN text ELSE Fail
JsonDecode(in) == IF Len(in) <= kMaxBodyLen THEN parse(in) ELSE Fail

RawEncode(value) ==
    IF value.type = "kString" /\ Len(value.string) <= kMaxBodyLen
    THEN Written(value.string) ELSE Fail
RawDecode(in) == IF Len(in) <= kMaxBodyLen THEN Read(String(in), Len(in) + 1) ELSE Fail

(***************************************************************************)
(* ServiceRegistry.  A handler is named by the pair it was registered for. *)
(***************************************************************************)
VARIABLES
    methods_,      \* the handler of each key
    services_,     \* service names with at least one method
    frozen_        \* set when the server starts

registry == <<methods_, services_, frozen_>>

RegistryInit == methods_ = <<>> /\ services_ = {} /\ frozen_ = FALSE

makeKey(service, method) == service \o <<Dot_>> \o method

\* Mutated form of registerMethod: a second registration of a key replaces the first.
RegisterOverwrites(service, method) ==
    /\ ~frozen_ /\ service # <<>> /\ method # <<>>
    /\ methods_' = (makeKey(service, method) :> <<service, method>>) @@ methods_
    /\ services_' = services_ \cup {service}
    /\ UNCHANGED frozen_

\* A successful registration; every other one leaves the registry alone.
registerMethod(service, method) ==
    /\ ~frozen_ /\ service # <<>> /\ method # <<>>
    /\ makeKey(service, method) \notin DOMAIN methods_
    /\ methods_' = (makeKey(service, method) :> <<service, method>>) @@ methods_
    /\ services_' = services_ \cup {service}
    /\ UNCHANGED frozen_

freeze == frozen_' = TRUE /\ UNCHANGED <<methods_, services_>>

dispatch(r) ==
    LET key == makeKey(r.service, r.method)
    IN  CASE key \in DOMAIN methods_ ->
                 [status |-> "kOk", handler |-> methods_[key], argument |-> r.payload]
          [] key \notin DOMAIN methods_ /\ r.service \in services_ -> [status |-> "kUnknownMethod"]
          [] OTHER -> [status |-> "kUnknownService"]

=============================================================================
