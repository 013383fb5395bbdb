------------------------- MODULE HttpRequestReader -------------------------
(***************************************************************************)
(* HttpReadAsyncCallback of the example server: how a request that arrives *)
(* in pieces becomes a request line, a header and an answer.               *)
(*                                                                         *)
(* One connection, one request of well-formed lines.  Its bytes are tokens:*)
(* a word of the request line, a header field, "CR", "LF", a byte of the   *)
(* body.  A read completes with any number of the tokens that are left, so *)
(* every way to cut the stream is explored.  A header field is "length"    *)
(* for Content-Length, "chunked" for a Transfer-Encoding that is "chunked" *)
(* without its first character (",chunked"), "field" for any other, a      *)
(* plain "chunked" included.  No name occurs twice; a value follows its    *)
(* colon and one space, and is not empty; the body holds no colon and no   *)
(* line end, and chunks, which are never read, are left out.               *)
(***************************************************************************)
EXTENDS Integers, SequencesExt, FiniteSetsExt

CONSTANTS
  Requests,   \* the requests the peer may send
  BufferSize, \* size of HttpAcceptAsyncCallback::buffer
  SizeMax     \* SIZE_MAX

Fields == {"field", "length", "chunked"}
Routes == {"handler", "noMethod", "noPath", "badTarget"}

\* A request: its header fields, the digits of its Content-Length, whether a
\* space or a tab follows them, and what handlerRegistries says of its method
\* and path.  A digit fits into a size_t.
ASSUME RequestAssumption ==
  /\ BufferSize \in Nat \ {0}
  /\ SizeMax \in Nat /\ SizeMax >= 9
  /\ \A r \in Requests :
       /\ r.fields \in Seq(Fields)
       /\ r.digits \in Seq(0 .. 9)
       /\ r.padded \in BOOLEAN
       /\ r.route \in Routes
       /\ (r.digits = <<>>) = ~Contains(r.fields, "length")

VARIABLES
  request,           \* what the peer sends
  pos,               \* tokens of it that were received
  closed,            \* the peer sent everything and closed its side
  pending,           \* the read in flight: "none", "head" or "body"
  parseStatus,
  requestLine,
  requestHeader,
  expectedBodySize,
  answer,            \* what was answered, or how the callback ended
  cutsKept           \* no read so far ended where the parser loses its way

readerVars == <<parseStatus, requestLine, requestHeader, expectedBodySize>>
vars == <<request, pos, closed, pending, readerVars, answer, cutsKept>>

CRLF == <<"CR", "LF">>
HeaderEnd == CRLF \o CRLF

\* The sum after each digit.
Sums(digits) ==
  LET sum[n \in 0 .. Len(digits)] == IF n = 0 THEN 0 ELSE 10 * sum[n - 1] + digits[n]
  IN sum

Number(digits) == Sums(digits)[Len(digits)]

\* The bytes of a request.
Line == <<"method", "SP", "path", "SP", "version">>
Tokens == {"method", "SP", "path", "version", "CR", "LF", "body"} \cup Fields
HeaderText(r) ==
  [i \in 1 .. 3 * Len(r.fields) |->
     CASE i % 3 = 1 -> r.fields[(i + 2) \div 3]
       [] i % 3 = 2 -> "CR"
       [] i % 3 = 0 -> "LF"]
RequestHead(r) == Line \o CRLF \o HeaderText(r) \o CRLF
Stream(r) == RequestHead(r) \o [i \in 1 .. Number(r.digits) |-> "body"]

stream == Stream(request)

\* std::string_view::find; 0 is npos.
Find(pattern, text) ==
  LET found == {i \in 1 .. Len(text) - Len(pattern) + 1 :
                  SubSeq(text, i, i + Len(pattern) - 1) = pattern}
  IN IF found = {} THEN 0 ELSE Min(found)

Upto(text, i)   == SubSeq(text, 1, i)
From(text, i)   == SubSeq(text, i, Len(text))
Before(text, i) == Upto(text, i - 1)

-----------------------------------------------------------------------------
\* parseHttpRequestLine wants two spaces.
LineParses(line) == Cardinality({i \in DOMAIN line : line[i] = "SP"}) >= 2

\* parseHttpRequestHeader goes from field to field and must end with the line
\* end of the last one: an empty line after it has no colon.
HeaderParses(header) ==
  \/ header = <<>>
  \/ \E i \in DOMAIN header :
       /\ header[i] \in Fields
       /\ From(header, i + 1) = CRLF

\* The name of a field is the text since the line end of the field before.
Named(header, i) == i = 1 \/ (i > 3 /\ header[i - 3] \in Fields)

\* A field that the lookup of its name finds.
Has(field, header) == \E i \in DOMAIN header : header[i] = field /\ Named(header, i)

\* The parser skips the spaces before a value and one character more, so a
\* length is read without its first digit.
DigitsRead == Tail(request.digits)

\* Mutant: only the multiplication is guarded.
ProductFits(sum, digit) == sum <= SizeMax \div 10

\* Ten times the sum and one more digit stay within a size_t.
DigitFits(sum, digit) ==
  /\ sum <= SizeMax \div 10
  /\ 10 * sum <= SizeMax - digit

\* Something behind the digits is no digit, or one digit is too many.
LengthRefused(header) ==
  /\ Has("length", header)
  /\ \/ request.padded
     \/ \E n \in DOMAIN DigitsRead : ~DigitFits(Sums(DigitsRead)[n - 1], DigitsRead[n])

\* Mutant: a digit is added before the sum is multiplied by ten.
ContentLengthScaled(header) ==
  IF Has("length", header)
  THEN FoldLeft(LAMBDA n, d : 10 * (n + d), 0, DigitsRead) % (SizeMax + 1)
  ELSE 0

\* Mutant: the length is kept in a signed number.
ContentLengthSigned(header) ==
  IF Has("length", header)
  THEN LET n == Number(DigitsRead) % (SizeMax + 1)
       IN  IF n > SizeMax \div 2 THEN n - (SizeMax + 1) ELSE n
  ELSE 0

\* The sum of the digits, in a size_t.
ContentLength(header) ==
  IF Has("length", header) THEN Number(DigitsRead) % (SizeMax + 1) ELSE 0

-----------------------------------------------------------------------------
Init ==
  /\ request \in Requests
  /\ pos              = 0
  /\ closed           = FALSE
  /\ pending          = "head"
  /\ parseStatus      = "Initial"
  /\ requestLine      = <<>>
  /\ requestHeader    = <<>>
  /\ expectedBodySize = 0
  /\ answer           = "none"
  /\ cutsKept         = TRUE

LineLength == Len(Line)
HeadLength == Len(RequestHead(request))

\* A read that ends at one of these positions confuses the parser: inside or
\* right after the line end of the request line, or inside the empty line.
BadCut(p) == p \in LineLength + 1 .. LineLength + 2 \cup HeadLength - 3 .. HeadLength - 1

\* readNext(): post the next read, into the same buffer.
ReadNext == pending' = "head" /\ UNCHANGED <<expectedBodySize, answer>>

Terminates == answer' = "terminated" /\ pending' = "none"

\* The handler or a 4xx answer, and writeAsync; there is no further read.  A
\* handler may throw, and writing or allocating may fail.
Respond ==
  /\ answer' \in {request.route, "exception"}
  /\ pending' = "none"

\* The whole header is there: parse it, then read the body if there is one.
\* parseHttpRequestHeader gives nothing, too, when memory runs out.  Chunks,
\* and a length that is no size_t, end the process; chunks are looked for
\* first, and then the length is not.
FinishHeader(header) ==
  \/ /\ ~HeaderParses(header)
     /\ parseStatus' = "Header"
     /\ Terminates
     /\ UNCHANGED expectedBodySize
  \/ /\ HeaderParses(header)
     /\ parseStatus' = "Header"
     /\ answer' = "outOfMemory"
     /\ pending' = "none"
     /\ UNCHANGED expectedBodySize
  \/ /\ HeaderParses(header)
     /\ Has("chunked", header)
     /\ parseStatus' = "Body"
     /\ answer' = "chunksRefused"
     /\ pending' = "none"
     /\ UNCHANGED expectedBodySize
  \/ /\ HeaderParses(header)
     /\ ~Has("chunked", header)
     /\ LengthRefused(header)
     /\ parseStatus' = "Header"
     /\ answer' = "lengthRefused"
     /\ pending' = "none"
     /\ UNCHANGED expectedBodySize
  \/ /\ HeaderParses(header)
     /\ ~Has("chunked", header)
     /\ ~LengthRefused(header)
     /\ parseStatus' = "Body"
     /\ expectedBodySize' = ContentLength(header)
     /\ \/ expectedBodySize' # 0 /\ pending' = "body" /\ UNCHANGED answer
        \/ expectedBodySize' = 0 /\ Respond

\* Mutant: the end of the header is the first line end.
HeaderStageShort(sv) ==
  LET i == Find(CRLF, sv) IN
  /\ requestHeader' = requestHeader \o (IF i = 0 THEN sv ELSE Upto(sv, i + 1))
  /\ \/ i = 0 /\ parseStatus' = "Header" /\ ReadNext
     \/ i # 0 /\ FinishHeader(requestHeader')

\* case HttpParseStatus::Header.  Bytes after the empty line are dropped.
HeaderStage(sv) ==
  LET i == Find(HeaderEnd, sv) IN
  \/ /\ i # 0
     /\ requestHeader' = requestHeader \o Upto(sv, i + 1)
     /\ FinishHeader(requestHeader')
  \/ /\ i = 0
     /\ requestHeader' = requestHeader \o sv
     /\ \/ /\ Find(HeaderEnd, requestHeader') = 0
           /\ parseStatus' = "Header"
           /\ ReadNext
        \/ /\ Find(HeaderEnd, requestHeader') # 0
           /\ FinishHeader(requestHeader')

\* The request line is there: parse it and go on with the header.
FinishLine(line, rest) ==
  \/ /\ ~LineParses(line)
     /\ Terminates
     /\ UNCHANGED <<parseStatus, requestHeader, expectedBodySize>>
  \/ /\ LineParses(line)
     /\ HeaderStage(rest)

\* Mutant: the line is replaced by the newest piece.
LineStageForgets(sv) ==
  LET i == Find(CRLF, sv) IN
  /\ requestLine' = (IF i = 0 THEN sv ELSE Before(sv, i))
  /\ \/ i = 0 /\ ReadNext /\ UNCHANGED <<parseStatus, requestHeader>>
     \/ i # 0 /\ FinishLine(requestLine', From(sv, i + 2))

\* case HttpParseStatus::Initial.  A read that ends with the line end leaves
\* the status as it is; when the line end is split over two reads, it and
\* what follows stay in requestLine, and the header gets the piece again.
LineStage(sv) ==
  LET i == Find(CRLF, sv) IN
  \/ /\ i # 0
     /\ requestLine' = requestLine \o Before(sv, i)
     /\ \/ i + 2 > Len(sv)  /\ ReadNext /\ UNCHANGED <<parseStatus, requestHeader>>
        \/ i + 2 <= Len(sv) /\ FinishLine(requestLine', From(sv, i + 2))
  \/ /\ i = 0
     /\ requestLine' = requestLine \o sv
     /\ \/ /\ Find(CRLF, requestLine') = 0
           /\ ReadNext
           /\ UNCHANGED <<parseStatus, requestHeader>>
        \/ /\ Find(CRLF, requestLine') # 0
           /\ FinishLine(requestLine', sv)

-----------------------------------------------------------------------------
\* The read in flight completes with n bytes; none means the peer closed.
Completes(n) ==
  /\ n > 0 \/ (closed /\ pos = Len(stream))
  /\ pos' = pos + n
  /\ cutsKept' = (cutsKept /\ ~BadCut(pos'))
  /\ UNCHANGED <<request, closed>>

Available(size) == 0 .. Min({size, Len(stream) - pos})

ReadLine ==
  /\ pending = "head"
  /\ parseStatus = "Initial"
  /\ \E n \in Available(BufferSize) :
       /\ Completes(n)
       /\ LineStage(SubSeq(stream, pos + 1, pos + n))

ReadHeader ==
  /\ pending = "head"
  /\ parseStatus = "Header"
  /\ \E n \in Available(BufferSize) :
       /\ Completes(n)
       /\ HeaderStage(SubSeq(stream, pos + 1, pos + n))
  /\ UNCHANGED requestLine

\* case HttpParseStatus::Body: whatever came is taken for the whole body.
ReadBody ==
  /\ pending = "body"
  /\ \E n \in Available(expectedBodySize) : Completes(n)
  /\ Respond
  /\ UNCHANGED readerVars

\* Memory runs out or the next read cannot be posted: the callback returns
\* the exception.
ReadFails ==
  /\ pending # "none"
  /\ pos < Len(stream) \/ closed
  /\ answer' = "exception"
  /\ pending' = "none"
  /\ UNCHANGED <<request, pos, closed, readerVars, cutsKept>>

PeerCloses ==
  /\ pos = Len(stream)
  /\ ~closed
  /\ closed' = TRUE
  /\ UNCHANGED <<request, pos, pending, readerVars, answer, cutsKept>>

Next == ReadLine \/ ReadHeader \/ ReadBody \/ ReadFails \/ PeerCloses

Spec == Init /\ [][Next]_vars

\* The peer sends all of its request and the kernel completes the reads; the
\* peer need not close.
FairSpec == Spec /\ WF_vars(ReadLine \/ ReadHeader \/ ReadBody)
-----------------------------------------------------------------------------
(* Properties.                                                             *)

\* Every variable has the type its declaration says.
TypeOK ==
  /\ request \in Requests
  /\ pos \in 0 .. Len(stream)
  /\ closed \in BOOLEAN
  /\ pending \in {"none", "head", "body"}
  /\ parseStatus \in {"Initial", "Header", "Body"}
  /\ requestLine \in Seq(Tokens)
  /\ requestHeader \in Seq(Tokens)
  /\ expectedBodySize \in 0 .. SizeMax
  /\ answer \in Routes \cup {"none", "terminated", "exception", "outOfMemory",
                            "chunksRefused", "lengthRefused"}
  /\ cutsKept \in BOOLEAN

\* The request has a header, and no read ended at a bad position.
WellCut == cutsKept /\ request.fields # <<>>

\* As long as no read ends at a bad position, the line and the header hold
\* every byte received, once and in order, whatever the other cuts; and when
\* the header is done they are exactly those of the request.
HeadIntact ==
  WellCut =>
    /\ parseStatus = "Initial" => requestLine = Upto(stream, pos) /\ requestHeader = <<>>
    /\ parseStatus # "Initial" => requestLine = Line
    /\ parseStatus = "Header" /\ pending = "head" =>
         requestHeader = SubSeq(stream, LineLength + 3, pos)
    /\ parseStatus = "Body" => requestHeader = HeaderText(request)

\* However the stream is cut, nothing is answered, and no read for the body
\* is posted, before the whole head of the request has been received.
NoEarlyAnswer ==
  answer \in Routes \/ pending = "body" => pos >= HeadLength

\* A body read asks for no more bytes than the length the peer declared, so a
\* peer that sends its body after its head never waits for an answer that
\* waits for the peer.
BodyReadFits ==
  pending = "body" => expectedBodySize <= Number(request.digits)

\* However many digits a length has and however near to SIZE_MAX it is, the
\* sum never wraps: the body that is expected is as long as the digits that
\* are read say, and a length is refused only when it is not a size_t.
LengthExact ==
  /\ parseStatus = "Body" /\ Has("length", requestHeader) /\ ~Has("chunked", requestHeader) =>
       expectedBodySize = Number(DigitsRead)
  /\ answer = "lengthRefused" => request.padded \/ Number(DigitsRead) > SizeMax

\* What the reader can take: no chunks, and a length that is nothing but a
\* number that a size_t can hold.
Supported ==
  /\ ~Contains(request.fields, "chunked")
  /\ Contains(request.fields, "length") => ~request.padded /\ Number(DigitsRead) <= SizeMax

\* A request that the reader can take is answered when no read ends at a bad
\* position, unless its whole body came along with its head: those bytes are
\* dropped, and the body read has nothing left to wait for.
AnsweredWhenWellCut ==
  <>(\/ answer \in Routes \cup {"exception", "outOfMemory"}
     \/ ~WellCut
     \/ ~Supported
     \/ pending = "body" /\ pos = Len(stream))

-----------------------------------------------------------------------------
(* What the code's own check says, and the code does not keep.             *)

\* The head of a well-formed request parses: the branches that std::terminate
\* when parseHttpRequestLine or parseHttpRequestHeader gives nothing are not
\* taken.
WellFormedHeadParses == answer # "terminated"
=============================================================================
