----------------------------- MODULE OriginWire -----------------------------
(* What hns-transport writes on an HTTP/1.1 connection and how it reads the  *)
(* answer.  The stream is a sequence of tokens: a head block, a chunk line,  *)
(* a unit of data, a line end, a trailer line.  An origin that follows the   *)
(* protocol answers two requests on the connection; one that does not may    *)
(* send anything.                                                            *)

EXTENDS Naturals, Sequences, FiniteSets, SequencesExt

CONSTANTS WireMethods,    \* request methods
          WireFields,     \* request fields [name, value], a value being a set of tokens
          WireReplies,    \* [infos, version, status, framing, size, close, trailers]
          WireStray,      \* token sequences of origins that do not follow the protocol
          BodyLimit,      \* max_response_body_bytes
          HeadLimit,      \* max_response_header_bytes, in lines
          MaxInfos,       \* MAX_INFORMATIONAL_RESPONSES
          MaxTrailers     \* MAX_HTTP_TRAILER_FIELDS

VARIABLES outgoing, \* the request written: [form, fields, body, written]
          method,   \* of the first request
          first,    \* its reply, or NoReply for a stray stream
          second,   \* tokens of the second reply
          stream,   \* tokens not read yet
          phase,    \* where the reader is
          reader    \* [headLeft, infos, left, total, reusable, status]

wireVars == <<outgoing, method, first, second, stream, phase, reader>>

HopByHop == {"connection", "keep-alive", "proxy-authenticate", "proxy-authorization",
             "proxy-connection", "te", "trailer", "transfer-encoding", "upgrade"}
Names(fields) == {f.name : f \in ToSet(fields)}

\* connection_nominated_headers.
Nominated(fields) == UNION {f.value : f \in {g \in ToSet(fields) : g.name = "connection"}}

\* What the three forms of a request say themselves, around the caller's fields.
Own(name, value) == <<[name |-> name, value |-> {value}]>>
OwnUnless(name, fields, value) ==
    IF name \in Names(fields) \union Nominated(fields) THEN << >> ELSE Own(name, value)
Preface(fields) == OwnUnless("user-agent", fields, "hns") \o OwnUnless("accept", fields, "any")

\* build_http_request and build_http2_request, whose authority is a pseudo-field.
BuildRequest(form, fields, body) ==
    LET kept == SelectSeq(fields, LAMBDA f : f.name \notin HopByHop \union Nominated(fields)
                                             \union {"host", "content-length"})
        length == IF body = 0 THEN << >> ELSE Own("content-length", "n")
    IN  Own("host", "h") \o Preface(fields) \o kept \o length
        \o (IF form = "http11" THEN Own("connection", "keep-alive") ELSE << >>)

\* build_http_upgrade_request: the upgrade's own hop-by-hop fields stay.
BuildUpgradeRequest(fields) ==
    LET dropped == (HopByHop \ {"connection", "upgrade"}) \union {"host", "content-length"}
                   \union (Nominated(fields) \ {"upgrade"})
        kept == SelectSeq(fields, LAMBDA f : f.name \notin dropped)
        asks == \E f \in ToSet(kept) : f.name = "connection" /\ "upgrade" \in f.value
    IN  Own("host", "h") \o Preface(fields) \o kept
        \o (IF asks THEN << >> ELSE Own("connection", "upgrade"))
        \o (IF "upgrade" \in Names(kept) THEN << >> ELSE Own("upgrade", "websocket"))

\* validate_request and validate_tunnel_request, as far as the fields go.
IsProtocolUpgrade(fields) == "upgrade" \in Names(fields) \union Nominated(fields)
Writable(form, fields, body) ==
    /\ "" \notin Nominated(fields)
    /\ Cardinality({i \in DOMAIN fields : fields[i].name = "user-agent"}) =< 1
    /\ IsProtocolUpgrade(fields) = (form = "upgrade")
    /\ form = "upgrade" => body = 0

HeadToken(version, status, codings, lengths, close) ==
    [kind |-> "head", version |-> version, status |-> status, codings |-> codings,
     lengths |-> lengths, close |-> close]
ChunkToken(n) == [kind |-> "chunk", size |-> n]
Data == [kind |-> "data"]
LineEnd == [kind |-> "crlf"]
TrailerToken(name) == [kind |-> "field", name |-> name]
Blank == [kind |-> "blank"]
Repeat(token, n) == [i \in 1..n |-> token]

\* response_has_no_body.
NoBody(m, status) == m = "HEAD" \/ status \in 100..199 \/ status \in {204, 304}

\* The tokens a conforming origin sends for a reply to a method.
Sent(reply, m) ==
    LET infos == Repeat(HeadToken("HTTP/1.1", 103, << >>, {}, FALSE), reply.infos)
        head == HeadToken(reply.version, reply.status,
                    IF reply.framing = "chunked" THEN <<"chunked">> ELSE << >>,
                    IF reply.framing = "length" THEN {reply.size} ELSE {},
                    reply.close)
        chunk == <<ChunkToken(reply.size)>> \o Repeat(Data, reply.size) \o <<LineEnd>>
        body == CASE NoBody(m, reply.status) -> << >>
                  [] reply.framing = "chunked" ->
                        (IF reply.size > 0 THEN chunk ELSE << >>) \o <<ChunkToken(0)>>
                        \o Repeat(TrailerToken("x-note"), reply.trailers) \o <<Blank>>
                  [] OTHER -> Repeat(Data, reply.size)
    IN  infos \o <<head>> \o body

\* The reply ends with the connection: no second reply can follow it.
ClosesAfter(reply, m) == reply.close \/ reply.version = "HTTP/1.0"
                         \/ (~NoBody(m, reply.status) /\ reply.framing = "close")

NoReply == [infos |-> 0, version |-> "none", status |-> 0, framing |-> "none", size |-> 0,
            close |-> FALSE, trailers |-> 0]

NewReader == [headLeft |-> HeadLimit, infos |-> 0, left |-> 0, total |-> 0, trailers |-> 0,
              reusable |-> FALSE, status |-> 0]

NoRequest == [form |-> "none", fields |-> << >>, body |-> 0, written |-> << >>]

WireInit ==
    /\ outgoing = NoRequest
    /\ method \in WireMethods
    /\ phase = "head"
    /\ reader = NewReader
    /\ \/ /\ first \in WireReplies
          /\ IF ClosesAfter(first, method) THEN second = << >>
             ELSE second \in {Sent(r, "GET") : r \in WireReplies}
          /\ stream = Sent(first, method) \o second
       \/ first = NoReply /\ second = << >> /\ stream \in WireStray

------------------------------------------------------------------------------
\* The request is written before the reply is read.
WriteRequest(form, fields, body) ==
    /\ phase = "head" /\ outgoing = NoRequest /\ stream = << >> /\ first = NoReply
    /\ Writable(form, fields, body)
    /\ outgoing' = [form |-> form, fields |-> fields, body |-> body,
                    written |-> IF form = "upgrade" THEN BuildUpgradeRequest(fields)
                                ELSE BuildRequest(form, fields, body)]
    /\ phase' = "written"
    /\ UNCHANGED <<method, first, second, stream, reader>>

Spoil == phase' = "error" /\ UNCHANGED <<outgoing, method, first, second, reader>>
Token(kind) == stream # << >> /\ Head(stream).kind = kind

\* connection_close and the reusable flag.
Reusable(head, selfDelimited) == head.version = "HTTP/1.1" /\ selfDelimited /\ ~head.close

\* How the body of a final head is delimited: transfer_encoding and
\* content_length decide, and must not contradict each other.
BodyPhase(head) ==
    IF NoBody(method, head.status) THEN "done"
    ELSE IF head.codings # << >>
    THEN IF head.lengths # {} \/ head.codings # <<"chunked">> THEN "error" ELSE "chunk"
    ELSE IF Cardinality(head.lengths) > 1 THEN "error"
    ELSE IF head.lengths # {} THEN "fixed" ELSE "eof"

\* read_header_bytes and parse_http11_header_block, then the loop of
\* parse_http_response_to_writer_reusable over informational responses.
ReadHead ==
    /\ phase = "head"
    /\ stream' = IF stream = << >> THEN stream ELSE Tail(stream)
    /\ IF ~Token("head") \/ reader.headLeft = 0 THEN Spoil
       ELSE LET head == Head(stream)
                left == reader.headLeft - 1
                body == BodyPhase(head)
                size == IF body = "fixed" THEN CHOOSE n \in head.lengths : TRUE ELSE 0
            IN  IF head.version \notin {"HTTP/1.0", "HTTP/1.1"} THEN Spoil
                ELSE IF head.status \in 100..199
                THEN IF \/ head.status = 101 \/ left = 0
                        \/ head.codings # << >> \/ head.lengths # {}
                        \/ reader.infos + 1 > MaxInfos
                     THEN Spoil
                     ELSE /\ reader' = [reader EXCEPT !.headLeft = left, !.infos = @ + 1]
                          /\ UNCHANGED <<outgoing, method, first, second, phase>>
                ELSE IF body = "error" \/ size > BodyLimit THEN Spoil
                ELSE /\ phase' = body
                     /\ reader' = [reader EXCEPT !.headLeft = left, !.left = size,
                            !.status = head.status, !.reusable = Reusable(head, body # "eof")]
                     /\ UNCHANGED <<outgoing, method, first, second>>

\* copy_exact_body, for a fixed body and for the data of a chunk.
CopyExactBody ==
    /\ phase \in {"fixed", "chunkData"}
    /\ IF reader.left = 0
       THEN /\ phase' = IF phase = "fixed" THEN "done" ELSE "chunkEnd"
            /\ UNCHANGED <<outgoing, method, first, second, stream, reader>>
       ELSE /\ stream' = IF stream = << >> THEN stream ELSE Tail(stream)
            /\ IF ~Token("data") THEN Spoil
               ELSE /\ reader' = [reader EXCEPT !.left = @ - 1, !.total = @ + 1]
                    /\ UNCHANGED <<outgoing, method, first, second, phase>>

\* read_until_eof_to_writer with checked_body_len.
ReadUntilEof ==
    /\ phase = "eof"
    /\ IF stream = << >> THEN phase' = "done" /\ UNCHANGED <<outgoing, method, first, second, stream, reader>>
       ELSE /\ stream' = Tail(stream)
            /\ IF reader.total + 1 > BodyLimit THEN Spoil
               ELSE /\ reader' = [reader EXCEPT !.total = @ + 1]
                    /\ UNCHANGED <<outgoing, method, first, second, phase>>

\* A chunk line of read_chunked_body_to_writer.
ReadChunkLine ==
    /\ phase = "chunk"
    /\ stream' = IF stream = << >> THEN stream ELSE Tail(stream)
    /\ IF ~Token("chunk") THEN Spoil
       ELSE IF Head(stream).size = 0
       THEN phase' = "trailers" /\ UNCHANGED <<outgoing, method, first, second, reader>>
       ELSE IF reader.total + Head(stream).size > BodyLimit THEN Spoil
       ELSE /\ phase' = "chunkData" /\ reader' = [reader EXCEPT !.left = Head(stream).size]
            /\ UNCHANGED <<outgoing, method, first, second>>

ReadChunkEnd ==
    /\ phase = "chunkEnd"
    /\ stream' = IF stream = << >> THEN stream ELSE Tail(stream)
    /\ IF ~Token("crlf") THEN Spoil
       ELSE phase' = "chunk" /\ UNCHANGED <<outgoing, method, first, second, reader>>

MutantReadTrailers ==
    /\ phase = "trailers"
    /\ stream' = IF stream = << >> THEN stream ELSE Tail(stream)
    /\ phase' = "done" /\ UNCHANGED <<outgoing, method, first, second, reader>>

\* read_trailers.
ReadTrailers ==
    /\ phase = "trailers"
    /\ stream' = IF stream = << >> THEN stream ELSE Tail(stream)
    /\ IF Token("blank") /\ reader.headLeft > 0
       THEN phase' = "done" /\ UNCHANGED <<outgoing, method, first, second, reader>>
       ELSE IF \/ ~Token("field") \/ reader.headLeft = 0 \/ reader.trailers + 1 > MaxTrailers
               \/ Head(stream).name \in {"content-length", "transfer-encoding", "trailer"}
       THEN Spoil
       ELSE /\ reader' = [reader EXCEPT !.trailers = @ + 1, !.headLeft = @ - 1]
            /\ UNCHANGED <<outgoing, method, first, second, phase>>

WireNext == (/\ phase = "head" /\ outgoing = NoRequest /\ stream = << >>
             /\ \E form \in {"http11", "http2", "upgrade"}, a, b \in WireFields, body \in 0..1 :
                    WriteRequest(form, <<a, b>>, body))
            \/ ReadHead \/ CopyExactBody \/ ReadUntilEof \/ ReadChunkLine \/ ReadChunkEnd
            \/ ReadTrailers

------------------------------------------------------------------------------
\* After a conforming origin's reply the reader has that reply's status and
\* body, and when it keeps the connection the next thing on it is the head of
\* the second reply: a pooled connection is never out of step.  No origin makes
\* it hand on more than the limit (parse_http_response_to_writer_reusable).
PooledInStep ==
    /\ reader.total =< BodyLimit
    /\ phase = "done" /\ first # NoReply =>
           /\ reader.status = first.status
           /\ reader.total = IF NoBody(method, first.status) THEN 0 ELSE first.size
           /\ reader.reusable => stream = second /\ ~ClosesAfter(first, method)

\* A request leaves with one authority and one framing: its length if and only
\* if it has a body, no transfer coding, nothing of the caller's connection; an
\* upgrade asks for one, whatever the caller nominated (build_http_request,
\* build_http_upgrade_request).
RequestUnambiguous ==
    LET all == outgoing.written
        count(name) == Cardinality({i \in DOMAIN all : all[i].name = name})
    IN  outgoing # NoRequest =>
          /\ count("host") = 1
          /\ count("content-length") = (IF outgoing.body = 0 THEN 0 ELSE 1)
          /\ count("transfer-encoding") = 0 /\ count("proxy-authorization") = 0
          /\ IF outgoing.form = "upgrade"
             THEN /\ count("upgrade") > 0
                  /\ \E f \in ToSet(all) : f.name = "connection" /\ "upgrade" \in f.value
             ELSE /\ count("upgrade") = 0
                  /\ count("connection") = (IF outgoing.form = "http11" THEN 1 ELSE 0)
                  /\ \A name \in Nominated(outgoing.fields) \ {"host", "content-length", "connection"} :
                        count(name) = 0

\* Both directions of a kept connection.
WireSafety == PooledInStep /\ RequestUnambiguous
=============================================================================
