---------------------------- MODULE HttpParser ----------------------------
(***************************************************************************)
(* A Parser of src/node_http_parser.cc and the callbacks of lib/http.js    *)
(* around it.  http_parser (external) calls back with pieces of URL,       *)
(* header fields and values that point into the buffer of the running      *)
(* execute; a buffer may end inside any of them.  Headers gather in an     *)
(* array of MaxFields strings, which is flushed to JavaScript when it is   *)
(* full.  Connections take the Parser from a free list, one after another. *)
(*                                                                         *)
(* A text is a sequence of pieces, a piece names its message and place.    *)
(***************************************************************************)
EXTENDS Naturals, Sequences

CONSTANTS
    MaxFields,    \* ARRAY_SIZE(fields_)
    MaxHeaders,   \* bound: header lines of a message, trailers included
    MaxMessages,  \* bound: messages, on all connections
    MaxCuts       \* bound: buffers that end inside a message

VARIABLES
    parser,       \* the Parser: url_, fields_, values_, their counts, have_flushed_
    js,           \* parser._headers, ._url and .incoming of lib/http.js
    grammar,      \* http_parser: where in a message it is
    httpSent,     \* the message as it was on the wire
    running,      \* whether execute runs
    taken,        \* whether a connection holds the parser
    cuts          \* count for the bound

httpVars == <<parser, js, grammar, httpSent, running, taken, cuts>>

NullString == [at |-> "null", text |-> <<>>]
NoMessage == [url |-> <<>>, headers |-> <<>>]
Garbage == <<0, "garbage", 0, 0>>

(***************************************************************************)
(* struct StringPtr: a pointer into the buffer, or into the heap; "gone"   *)
(* is a pointer into a buffer whose execute has returned.                  *)
(***************************************************************************)
ReadText(p) == IF p.at = "gone" /\ p.text # <<>> THEN <<Garbage>> ELSE p.text

Update(p, piece) ==
    [at |-> IF p.at = "null" THEN "buffer" ELSE "heap", text |-> ReadText(p) \o piece]

\* Mutant: a string that was saved is pointed into the new buffer.
SaveNothing(p) == p

Save(p) == IF p.at = "buffer" /\ p.text # <<>> THEN [p EXCEPT !.at = "heap"] ELSE p

Released(p) == IF p.at = "buffer" THEN [p EXCEPT !.at = "gone"] ELSE p

ParserInit ==   \* Parser::Init
    [url |-> NullString, fields |-> [i \in 1..MaxFields |-> NullString],
     values |-> [i \in 1..MaxFields |-> NullString],
     numFields |-> 0, numValues |-> 0, haveFlushed |-> FALSE]

HttpInit ==
    /\ parser = ParserInit
    /\ js = [headers |-> <<>>, url |-> <<>>, incoming |-> NoMessage]
    /\ grammar = [stage |-> "idle", message |-> 0, lines |-> 0, piece |-> 0,
                  trailing |-> FALSE, split |-> FALSE]
    /\ httpSent = NoMessage
    /\ running = FALSE /\ taken = FALSE /\ cuts = 0

(***************************************************************************)
(* CreateHeaders and Flush, and parserOnHeaders on the other side.         *)
(***************************************************************************)
CreateHeaders(q) ==
    [i \in 1..q.numValues |-> <<ReadText(q.fields[i]), ReadText(q.values[i])>>]

Flushed(q) == [q EXCEPT !.url = NullString, !.haveFlushed = TRUE]

OnHeaders(j, q) ==
    [j EXCEPT !.headers = @ \o CreateHeaders(q), !.url = @ \o ReadText(q.url)]

(***************************************************************************)
(* A connection takes a parser: reinitialize, and incoming = null.         *)
(***************************************************************************)
AllocParser ==
    /\ ~taken /\ grammar.message < MaxMessages
    /\ taken' = TRUE
    /\ parser' = ParserInit
    /\ js' = [js EXCEPT !.incoming = NoMessage]
    /\ grammar' = [grammar EXCEPT !.stage = "idle", !.split = FALSE]
    /\ httpSent' = NoMessage
    /\ UNCHANGED <<running, cuts>>

(***************************************************************************)
(* The connection closes, at any time no execute runs: freeParser.         *)
(***************************************************************************)
FreeParser ==
    /\ taken /\ ~running
    /\ js' = [js EXCEPT !.headers = <<>>, !.incoming = NoMessage]
    /\ taken' = FALSE
    /\ UNCHANGED <<parser, grammar, httpSent, running, cuts>>

(***************************************************************************)
(* Execute: the strings that still point into the buffer are copied before *)
(* it is given back.                                                       *)
(***************************************************************************)
ExecuteBegin ==
    /\ taken /\ ~running /\ grammar.stage # "error"
    /\ running' = TRUE
    /\ grammar' = [grammar EXCEPT !.split = FALSE]
    /\ UNCHANGED <<parser, js, httpSent, taken, cuts>>

SaveAll(q) ==
    [q EXCEPT !.url = Save(@),
              !.fields = [i \in 1..MaxFields |-> IF i <= q.numFields THEN Save(@[i]) ELSE @[i]],
              !.values = [i \in 1..MaxFields |-> IF i <= q.numValues THEN Save(@[i]) ELSE @[i]]]

BufferGone(q) ==
    [q EXCEPT !.url = Released(@),
              !.fields = [i \in 1..MaxFields |-> Released(@[i])],
              !.values = [i \in 1..MaxFields |-> Released(@[i])]]

Whole == grammar.stage \in {"idle", "error"}

ExecuteEnd ==
    /\ running
    /\ Whole \/ cuts < MaxCuts
    /\ cuts' = IF Whole THEN cuts ELSE cuts + 1
    /\ parser' = BufferGone(SaveAll(parser))
    /\ running' = FALSE
    /\ UNCHANGED <<js, grammar, httpSent, taken>>

-----------------------------------------------------------------------------
(***************************************************************************)
(* The callbacks of http_parser, in the order of a request.  A token has   *)
(* two pieces at most: more says that the buffer ends after the first, and *)
(* a value may also go on in a line of its own.  A listener called in      *)
(* on_headers_complete, on_body or on_message_complete may throw, which    *)
(* ends the execute and leaves http_parser in error.                       *)
(***************************************************************************)
Called == running /\ ~grammar.split

Piece(g, token) == <<g.message, token, g.lines, g.piece>>

OnMessageBegin ==
    /\ Called /\ grammar.stage = "idle" /\ grammar.message < MaxMessages
    /\ parser' = [parser EXCEPT !.numFields = 0, !.numValues = 0, !.url = NullString]
    /\ grammar' = [stage |-> "url", message |-> grammar.message + 1, lines |-> 0,
                   piece |-> 0, trailing |-> FALSE, split |-> FALSE]
    /\ httpSent' = NoMessage
    /\ UNCHANGED <<js, running, taken, cuts>>

OnUrl ==
    /\ Called /\ grammar.stage = "url"
    /\ parser' = [parser EXCEPT !.url = Update(@, <<Piece(grammar, "url")>>)]
    /\ httpSent' = [httpSent EXCEPT !.url = Append(@, Piece(grammar, "url"))]
    /\ \E more \in BOOLEAN :
        /\ more => grammar.piece = 0
        /\ grammar' = [grammar EXCEPT !.stage = IF more THEN "url" ELSE "line",
                                      !.piece = IF more THEN 1 ELSE 0, !.split = more]
    /\ UNCHANGED <<js, running, taken, cuts>>

(***************************************************************************)
(* A header field: a new one is counted, and if it would fill the array    *)
(* what is there is flushed before.                                        *)
(***************************************************************************)
NewField == parser.numFields = parser.numValues
Filled == NewField /\ parser.numFields + 1 = MaxFields

WithField(q) == [q EXCEPT !.numFields = @ + 1, !.fields[q.numFields + 1] = NullString]

Begun ==
    CASE Filled -> WithField([Flushed(parser) EXCEPT !.numFields = 0, !.numValues = 0])
      [] NewField /\ ~Filled -> WithField(parser)
      [] OTHER -> parser

OnHeaderField ==
    /\ Called
    /\ IF NewField THEN grammar.stage \in {"line", "value"} /\ grammar.lines < MaxHeaders
                   ELSE grammar.stage = "field"
    /\ LET g  == IF NewField THEN [grammar EXCEPT !.lines = @ + 1, !.piece = 0] ELSE grammar
           it == Piece(g, "field")
       IN  /\ js' = IF Filled THEN OnHeaders(js, parser) ELSE js
           /\ parser' = [Begun EXCEPT !.fields[Begun.numFields] = Update(@, <<it>>)]
           /\ httpSent' = IF NewField
                          THEN [httpSent EXCEPT !.headers = Append(@, <<<<it>>, <<>>>>)]
                          ELSE [httpSent EXCEPT !.headers[Len(httpSent.headers)][1] = Append(@, it)]
           /\ \E more \in BOOLEAN :
                /\ more => g.piece = 0
                /\ grammar' = [g EXCEPT !.stage = IF more THEN "field" ELSE "colon",
                                        !.piece = IF more THEN 1 ELSE 0, !.split = more]
    /\ UNCHANGED <<running, taken, cuts>>

(***************************************************************************)
(* A header value, perhaps empty.                                          *)
(***************************************************************************)
NewValue == parser.numValues # parser.numFields

OnHeaderValue ==
    /\ Called
    /\ IF NewValue THEN grammar.stage = "colon"
                   ELSE grammar.stage \in {"value", "cut"} /\ grammar.piece = 1
    /\ \E empty, more \in BOOLEAN :
        LET it == IF empty THEN <<>> ELSE <<Piece(grammar, "value")>>
            q  == IF NewValue THEN [parser EXCEPT !.numValues = @ + 1,
                                                  !.values[parser.numValues + 1] = NullString]
                              ELSE parser
        IN  /\ more => grammar.piece = 0
            /\ parser' = [q EXCEPT !.values[q.numValues] = Update(@, it)]
            /\ httpSent' = [httpSent EXCEPT !.headers[Len(httpSent.headers)][2] = @ \o it]
            /\ grammar' = [grammar EXCEPT !.stage = IF more THEN "cut" ELSE "value",
                                          !.piece = @ + 1, !.split = more]
    /\ UNCHANGED <<js, running, taken, cuts>>

(***************************************************************************)
(* on_headers_complete and parserOnHeadersComplete: the slow case after a  *)
(* flush, the fast case otherwise.                                         *)
(***************************************************************************)
LinesEnd == Called /\ grammar.stage \in {"line", "value"}

OnHeadersComplete ==
    /\ LinesEnd /\ ~grammar.trailing
    /\ LET j == OnHeaders(js, parser)
       IN  IF parser.haveFlushed
           THEN /\ js' = [headers |-> <<>>, url |-> <<>>,
                          incoming |-> [url |-> j.url, headers |-> j.headers]]
                /\ parser' = [Flushed(parser) EXCEPT !.numFields = 0, !.numValues = 0]
           ELSE /\ js' = [js EXCEPT !.incoming = [url |-> ReadText(parser.url),
                                                  headers |-> CreateHeaders(parser)]]
                /\ parser' = [parser EXCEPT !.numFields = 0, !.numValues = 0]
    /\ \E stage \in {"body", "error"} :
        grammar' = [grammar EXCEPT !.stage = stage, !.split = stage = "error"]
    /\ UNCHANGED <<httpSent, running, taken, cuts>>

\* A slice of the buffer is passed through: that the listener threw is all that
\* is seen of it here.
OnBody ==
    /\ Called /\ grammar.stage = "body"
    /\ grammar' = [grammar EXCEPT !.stage = "error", !.split = TRUE]
    /\ UNCHANGED <<parser, js, httpSent, running, taken, cuts>>

OnTrailers ==   \* the last chunk: header lines may follow
    /\ Called /\ grammar.stage = "body"
    /\ grammar' = [grammar EXCEPT !.stage = "line", !.trailing = TRUE]
    /\ UNCHANGED <<parser, js, httpSent, running, taken, cuts>>

(***************************************************************************)
(* on_message_complete and parserOnMessageComplete: the trailers.          *)
(***************************************************************************)
Trailing == parser.numFields > 0

OnMessageComplete ==
    /\ IF grammar.trailing THEN LinesEnd ELSE Called /\ grammar.stage = "body"
    /\ parser' = IF Trailing THEN Flushed(parser) ELSE parser
    /\ js' = LET j == IF Trailing THEN OnHeaders(js, parser) ELSE js
             IN  [headers |-> <<>>, url |-> <<>>,
                  incoming |-> [js.incoming EXCEPT !.headers = @ \o j.headers]]
    /\ \E stage \in {"idle", "error"} :
        grammar' = [grammar EXCEPT !.stage = stage, !.split = stage = "error"]
    /\ UNCHANGED <<httpSent, running, taken, cuts>>

HttpNext ==
    \/ AllocParser \/ FreeParser \/ ExecuteBegin \/ ExecuteEnd
    \/ OnMessageBegin \/ OnUrl \/ OnHeaderField \/ OnHeaderValue
    \/ OnHeadersComplete \/ OnBody \/ OnTrailers \/ OnMessageComplete

HttpSpec == HttpInit /\ [][HttpNext]_httpVars
-----------------------------------------------------------------------------
Text == Seq(Nat \X {"garbage", "url", "field", "value"} \X Nat \X Nat)
StringPtr == [at : {"null", "buffer", "heap", "gone"}, text : Text]
Message == [url : Text, headers : Seq(Text \X Text)]

\* The types of the state; the assertions on the counts (node_http_parser.cc:239-240, :253-254).
HttpTypeOK ==
    /\ parser.url \in StringPtr
    /\ parser.fields \in [1..MaxFields -> StringPtr] /\ parser.values \in [1..MaxFields -> StringPtr]
    /\ parser.numFields \in 0..MaxFields - 1
    /\ parser.numValues \in {parser.numFields, parser.numFields - 1}
    /\ parser.haveFlushed \in BOOLEAN
    /\ js.headers \in Seq(Text \X Text) /\ js.url \in Text
    /\ js.incoming \in Message /\ httpSent \in Message
    /\ running \in BOOLEAN /\ taken \in BOOLEAN /\ cuts \in 0..MaxCuts

(***************************************************************************)
(* The header lines of a message reach JavaScript whole, once and in       *)
(* order, whether they fitted into the array or not, wherever the buffers  *)
(* end, whatever message or connection the parser served before; the       *)
(* trailers are added at its end.                                          *)
(***************************************************************************)
LinesWhole ==
    LET got == js.incoming.headers
    IN  /\ (grammar.stage = "body" /\ taken) => got = httpSent.headers
        /\ (grammar.stage = "idle" /\ taken) => got = httpSent.headers

(***************************************************************************)
(* No string that is still to be read points into a buffer whose execute   *)
(* has returned (the comment at node_http_parser.cc:157-159).              *)
(***************************************************************************)
NoDanglingString ==
    LET safe(p) == p.at = "gone" => p.text = <<>>
    IN  taken /\ grammar.stage # "idle" =>
          /\ safe(parser.url)
          /\ \A i \in 1..parser.numFields : safe(parser.fields[i])
          /\ \A i \in 1..parser.numValues : safe(parser.values[i])

=============================================================================
