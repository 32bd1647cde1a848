---------------------------- MODULE MCHttpServer ----------------------------
(***************************************************************************)
(* HttpServer on short streams: up to MaxRequests well-separated requests, *)
(* and arbitrary sequences of up to MaxNoise tokens.                       *)
(***************************************************************************)
EXTENDS HttpServer

CONSTANTS MaxRequests, MaxNoise

\* A byte as an escape with the hexadecimal digits 0-9, A-F.
HexChar(d) == IF d < 10 THEN 48 + d ELSE 55 + d
Escaped(c) == <<Percent, HexChar(c \div 16), HexChar(c % 16)>>

\* The path with every byte after the first escaped.
Spelled(path) ==
    FlattenSeq([i \in DOMAIN path |-> IF i = 1 THEN <<path[i]>> ELSE Escaped(path[i])])

\* Paths: the root, a script, a name with a space and a plus sign, two dots, a missing file.
Root == <<Slash>>
Script == <<Slash, 97, 46, 106, 115>>
Spaced == <<Slash, SpaceChar, PlusSign>>
DotDot == <<Slash, 46, 46>>
Missing == <<Slash, 122>>

Get(path, target) == RequestText("GET", path, target, "numeric")
Plain == Get(Script, Script \o <<Query, 46, 46>>)
Requests ==
    {Plain, Get(Root, Root), Get(Script, Spelled(Script)), Get(Spaced, <<Slash, PlusSign>> \o Escaped(PlusSign)),
     Get(DotDot, Spelled(DotDot)), Get(Missing, Missing),
     RequestText("GET", Missing, Missing, "other"), RequestText("GET", Root, Root, "notNumeric"),
     RequestText("POST", Root, Root, "numeric")}

MCIndexPath == <<Slash, 105>>
MCFiles == (MCIndexPath :> <<1>>) @@ (Script :> <<2, 2>>) @@ (Spaced :> <<>>)
MCMimeTypes == (<<46, 106, 115>> :> "application/javascript")

Whole(request, headers) ==
    <<request>> \o CrLf \o FlattenSeq([i \in 1..headers |-> <<HeaderText>> \o CrLf]) \o CrLf
MCStreams ==
    {FlattenSeq([i \in DOMAIN rs |-> Whole(rs[i][1], rs[i][2])]) : rs \in BoundedSeq(Requests \X {0, 1}, MaxRequests)}
        \cup BoundedSeq({CR, LF, HeaderText, Plain}, MaxNoise)

=============================================================================
