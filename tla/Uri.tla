--------------------------------- MODULE Uri -----------------------------------
(***************************************************************************)
(* Gateway URIs: internal/aggregate/uri.go, with what it uses of net/url,  *)
(* and the expansion of a template by the client (RFC 6570).               *)
(*                                                                         *)
(* A text is a sequence of characters; the two hexadecimal digits of a     *)
(* percent-encoded byte are one character, which is unreserved, so that    *)
(* encoding a text twice, or decoding it twice, shows.  A URI is its       *)
(* scheme and what comes after "://".  A partial operator returns the set  *)
(* of its at most one result.                                              *)
(***************************************************************************)
EXTENDS Naturals, SequencesExt

Scheme == "mcp-proxy"

\* The reserved characters that are told apart, and their bytes.
Codes ==
    {<<"/", "2F">>, <<":", "3A">>, <<"?", "3F">>, <<"#", "23">>, <<"@", "40">>, <<"=", "3D">>,
     <<"%", "25">>, <<"{", "7B">>, <<"}", "7D">>, <<" ", "20">>}
Reserved == {c[1] : c \in Codes}
Bytes == {c[2] : c \in Codes}
ByteOf(char) == (CHOOSE c \in Codes : c[1] = char)[2]
CharOf(byte) == (CHOOSE c \in Codes : c[2] = byte)[1]

Escape(text) ==
    LET Escaped(i) == IF text[i] \in Reserved THEN <<"%", ByteOf(text[i])>> ELSE <<text[i]>>
    IN FlattenSeq([i \in DOMAIN text |-> Escaped(i)])

Unescapes(text) ==
    \A i \in DOMAIN text : text[i] = "%" => i < Len(text) /\ text[i + 1] \in Bytes
\* url.PathUnescape, of a text that Unescapes.
Unescape(text) ==
    LET Decoded(i) == IF text[i] = "%" THEN <<CharOf(text[i + 1])>>
                      ELSE IF i > 1 /\ text[i - 1] = "%" THEN <<>> ELSE <<text[i]>>
    IN FlattenSeq([i \in DOMAIN text |-> Decoded(i)])

WrapURI(id, uri) == [scheme |-> Scheme, rest |-> id \o <<"/">> \o Escape(uri)]

-----------------------------------------------------------------------------
(* url.Parse, and what UnwrapURI makes of it.                              *)

Before(char, text) ==
    LET at == {i \in DOMAIN text : text[i] = char}
    IN IF at = {} THEN text ELSE SubSeq(text, 1, Min(at) - 1)
\* From the character on.
From(char, text) == SubSeq(text, Len(Before(char, text)) + 1, Len(text))

Location(rest) == Before("?", Before("#", rest))
Authority(rest) == Before("/", Location(rest))
Path(rest) == From("/", Location(rest))

\* User information is cut off the host, of which only an empty port may follow a
\* colon (no character here is a digit).
Host(authority) ==
    LET at == {i \in DOMAIN authority : authority[i] = "@"}
    IN IF at = {} THEN authority ELSE SubSeq(authority, Max(at) + 1, Len(authority))
HostParses(host) ==
    /\ ToSet(host) \cap {"%", "{", "}", " "} = {}
    /\ \A i \in DOMAIN host : host[i] = ":" => i = Len(host)

IsGatewayURI(uri) ==
    LET rest == uri.rest
        host == Host(Authority(rest))
    IN /\ uri.scheme = Scheme /\ HostParses(host) /\ host # <<>>
       /\ Unescapes(Path(rest)) /\ Unescapes(From("#", rest)) /\ Len(Path(rest)) > 1

\* Faulty: the path that url.Parse has decoded is decoded once more.
UnwrapURITwice(uri) ==
    LET own == Unescape(Tail(Path(uri.rest)))
    IN IF ~IsGatewayURI(uri) THEN {}
       ELSE {[backend |-> Host(Authority(uri.rest)),
              own |-> IF Unescapes(own) THEN Unescape(own) ELSE own]}

UnwrapURI(uri) ==
    IF ~IsGatewayURI(uri) THEN {}
    ELSE {[backend |-> Host(Authority(uri.rest)), own |-> Unescape(Tail(Path(uri.rest)))]}

-----------------------------------------------------------------------------
(* Templates.                                                              *)

\* The character belongs to an expression, braces included; one that is never
\* closed is none.
Inside(template, i) ==
    /\ \E open \in 1..i :
         template[open] = "{" /\ \A k \in open..(i - 1) : template[k] # "}"
    /\ \E end \in i..Len(template) : template[end] = "}"

WrapURITemplate(id, template) ==
    LET Kept(i) == IF Inside(template, i) THEN <<template[i]>> ELSE Escape(<<template[i]>>)
    IN [scheme |-> Scheme,
        rest |-> id \o <<"/">> \o FlattenSeq([i \in DOMAIN template |-> Kept(i)])]

\* The client: each expression gives way to the value, as its operator says.
Expansion(operator, value) ==
    CASE operator = "?" -> <<"?", "v", "=">> \o Escape(value)
      [] operator = "#" -> <<"#">> \o value
      [] OTHER -> Escape(value)
Expand(template, value) ==
    LET Expanded(i) == IF ~Inside(template, i) THEN <<template[i]>>
                       ELSE IF template[i] = "{" THEN Expansion(template[i + 1], value) ELSE <<>>
    IN FlattenSeq([i \in DOMAIN template |-> Expanded(i)])
=============================================================================
