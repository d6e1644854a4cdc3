----------------------------- MODULE HttpParser -----------------------------
(***************************************************************************)
(* A client's bytes, from the wire through Connection::handleRead, the      *)
(* input buffer and HttpContext::parse to the request callback.  Reads      *)
(* split the stream anywhere.                                               *)
(*                                                                         *)
(* The loop of parse is the actions from parseRequestLine on, one for each  *)
(* way a pass can go: from readFd until handleRead returns (parsing) the    *)
(* I/O thread takes them and nothing else on this connection.               *)
(*                                                                         *)
(* A byte of the model is CR, LF, a byte of a body, or a whole request or   *)
(* header line without its end: what parse decides about a line it decides  *)
(* when the line is complete.  Lines differ in what the parser tells apart. *)
(***************************************************************************)
EXTENDS Buffer, SequencesExt

CONSTANTS
    Bytes,          \* what streams consist of
    Messages,       \* what the client may send: [head, fields, body]
    MaxMessages,    \* bound: messages on the connection
    Pipelined       \* whether the next message need not wait for the last answer

(* The request lines and header lines that parse, and the length each of the
   latter states: headers_ compares names exactly, and takes a value that is not
   a number for none. *)
RequestLines == {"get", "post"}
Declared == [length0 |-> 0, length1 |-> 1, length2 |-> 2, lengthx |-> -1]
Lengths == DOMAIN Declared
OtherHeaders == {"host", "LENGTH1"}     \* LENGTH1: "content-length: 1"

(* The body HTTP gives a message, names of headers being case-insensitive. *)
Promises(field) == CASE field = "LENGTH1" -> 1
                     [] field \in Lengths -> Declared[field]
                     [] OTHER -> 0
Promised(fields) == FoldFunction(LAMBDA f, n : IF Promises(f) > n THEN Promises(f) ELSE n, 0, fields)

(* A line is neither CR nor LF, a body may hold anything. *)
LineBytes == Bytes \ {"CR", "LF"}

ASSUME MessagesAssumption ==
    /\ {"CR", "LF"} \subseteq Bytes
    /\ \A m \in Messages :
          /\ m \in [head : LineBytes, fields : Seq(LineBytes), body : Seq(Bytes)]
          /\ Len(m.body) = Promised(m.fields)
    /\ Pipelined \in BOOLEAN

VARIABLES
    sent,           \* the messages the client has sent
    stream,         \* all their bytes
    ends,           \* ends[i]: length of the stream up to message i
    arrived,        \* how many bytes have been read
    inputBuffer,
    context,        \* httpContext_: its state_ and request_
    parsing,        \* handleRead has read and parse is in its loop
    handed,         \* the requests given to httpRequestCallback_
    closed          \* answered with 400 and closed

parserVars ==
    <<sent, stream, ends, arrived, inputBuffer, context, parsing, handed, closed>>

(* Message m on the wire: its lines with their ends, an empty line, the body. *)
Encoded(m) ==
    LET lines == <<m.head>> \o m.fields
    IN  [k \in 1..(3 * Len(lines)) |-> CASE k % 3 = 1 -> lines[(k + 2) \div 3]
                                         [] k % 3 = 2 -> "CR"
                                         [] OTHER -> "LF"]
        \o <<"CR", "LF">> \o m.body

NewContext == [state |-> "kExpectRequestLine", head |-> "", fields |-> <<>>, body |-> <<>>]

ParserInit ==
    /\ sent = <<>> /\ stream = <<>> /\ ends = <<>> /\ arrived = 0
    /\ inputBuffer = NewBuffer
    /\ context = NewContext
    /\ parsing = FALSE
    /\ handed = <<>>
    /\ closed = FALSE

-----------------------------------------------------------------------------
SendMessage(m) ==
    /\ ~ closed
    /\ Len(sent) < MaxMessages
    /\ Pipelined \/ Len(handed) = Len(sent)
    /\ sent' = Append(sent, m)
    /\ stream' = stream \o Encoded(m)
    /\ ends' = Append(ends, Len(stream'))
    /\ UNCHANGED <<arrived, inputBuffer, context, parsing, handed, closed>>

(* handleRead up to the call of parse. *)
ReadBytes ==
    /\ ~ closed /\ ~ parsing
    /\ \E n \in 1..(Len(stream) - arrived) :
          /\ n <= ReadLimit(inputBuffer)
          /\ inputBuffer' = readFd(inputBuffer, SubSeq(stream, arrived + 1, arrived + n))
          /\ arrived' = arrived + n
    /\ parsing' = TRUE
    /\ UNCHANGED <<sent, stream, ends, context, handed, closed>>

-----------------------------------------------------------------------------
(* The passes of HttpContext::parse, which take one line or the body each. *)

getContentLength(fields) ==
    LET found == SelectSeq(fields, LAMBDA f : f \in Lengths)
    IN  IF found = <<>> THEN -1 ELSE Declared[Last(found)]

FirstLine == SubSeq(Readable(inputBuffer), 1, findCRLF(inputBuffer, 0))
WithoutLine == retrieve(inputBuffer, findCRLF(inputBuffer, 0) + 2)

(* What a pass does to the context and to the buffer. *)
PassMakes(c, b) ==
    /\ context' = c
    /\ inputBuffer' = b
    /\ UNCHANGED <<sent, stream, ends, arrived, parsing, handed, closed>>

In(state) == parsing /\ context.state = state
LineHasCome == findCRLF(inputBuffer, 0) # npos

parseRequestLine ==
    /\ In("kExpectRequestLine") /\ LineHasCome
    /\ IF FirstLine \in {<<line>> : line \in RequestLines}
       THEN PassMakes([context EXCEPT !.state = "kExpectHeaders", !.head = FirstLine[1]],
                      WithoutLine)
       ELSE PassMakes([context EXCEPT !.state = "kError"], inputBuffer)

(* A line of several bytes is the end of a body taken for a header: it has a
   colon if one of them has, and names no length. *)
parseHeader ==
    /\ In("kExpectHeaders") /\ LineHasCome /\ findCRLF(inputBuffer, 0) # 0
    /\ IF \E i \in DOMAIN FirstLine : FirstLine[i] \in Lengths \cup OtherHeaders
       THEN PassMakes([context EXCEPT !.fields =
                          Append(@, IF Len(FirstLine) = 1 THEN FirstLine[1] ELSE "host")],
                      WithoutLine)
       ELSE PassMakes([context EXCEPT !.state = "kError"], inputBuffer)

(* Mutant of EndOfHeaders: the body is left to the next request. *)
EndOfRequest ==
    /\ In("kExpectHeaders") /\ findCRLF(inputBuffer, 0) = 0
    /\ PassMakes([context EXCEPT !.state = "kGotAll"], retrieve(inputBuffer, 2))

EndOfHeaders ==
    /\ In("kExpectHeaders") /\ findCRLF(inputBuffer, 0) = 0
    /\ PassMakes([context EXCEPT !.state = IF getContentLength(context.fields) > 0
                                           THEN "kExpectBody" ELSE "kGotAll"],
                 retrieve(inputBuffer, 2))

(* Mutant of BodyHasCome: the comparison is strict. *)
BodyAndMoreHasCome == readableBytes(inputBuffer) > getContentLength(context.fields)

BodyHasCome == readableBytes(inputBuffer) >= getContentLength(context.fields)

parseBody ==
    LET need == getContentLength(context.fields)
    IN  /\ In("kExpectBody") /\ BodyHasCome
        /\ PassMakes([context EXCEPT !.state = "kGotAll",
                                     !.body = SubSeq(Readable(inputBuffer), 1, need)],
                     retrieve(inputBuffer, need))

-----------------------------------------------------------------------------
(* How handleRead ends. *)

(* The loop breaks for want of a line or of the rest of a body. *)
WaitForMore ==
    /\ \/ In("kExpectRequestLine") /\ ~ LineHasCome
       \/ In("kExpectHeaders") /\ ~ LineHasCome
       \/ In("kExpectBody") /\ ~ BodyHasCome
    /\ parsing' = FALSE
    /\ UNCHANGED <<sent, stream, ends, arrived, inputBuffer, context, handed, closed>>

(* One request at most goes to the callback, what follows it stays in the buffer
   until more bytes come. *)
HandOver ==
    /\ In("kGotAll")
    /\ handed' = Append(handed, [head |-> context.head, fields |-> context.fields,
                                 body |-> context.body])
    /\ context' = NewContext
    /\ parsing' = FALSE
    /\ UNCHANGED <<sent, stream, ends, arrived, inputBuffer, closed>>

(* sendErrorResponse(400) and handleError. *)
RejectAndClose ==
    /\ In("kError")
    /\ closed' = TRUE
    /\ parsing' = FALSE
    /\ UNCHANGED <<sent, stream, ends, arrived, inputBuffer, context, handed>>

handleRead ==
    \/ ReadBytes
    \/ parseRequestLine \/ parseHeader \/ EndOfHeaders \/ parseBody
    \/ WaitForMore \/ HandOver \/ RejectAndClose

ParserNext == handleRead \/ \E m \in Messages : SendMessage(m)

ParserSpec == ParserInit /\ [][ParserNext]_parserVars

-----------------------------------------------------------------------------
Malformed(m) ==
    \/ m.head \notin RequestLines
    \/ \E i \in DOMAIN m.fields : m.fields[i] \notin Lengths \cup OtherHeaders

(* The callback gets the requests the client sent, each with its own headers and
   body, in order and once, wherever the reads cut the stream; only a malformed
   request closes the connection. *)
RequestsAsSent ==
    /\ IsPrefix(handed, sent)
    /\ closed => Len(handed) < Len(sent) /\ Malformed(sent[Len(handed) + 1])

(* A read ends without a request only if the next one has not arrived whole: the
   parser never waits for bytes it has. *)
HandedWhenComplete ==
    [][ parsing /\ ~ parsing' /\ handed' = handed /\ ~ closed'
        => Len(handed) < Len(sent) /\ arrived < ends[Len(handed) + 1] ]_parserVars

(* Messages whose length header, as the parser looks for it, states the length of
   the body. *)
LengthsAgree ==
    \A m \in Messages : ~ Malformed(m) =>
        Len(m.body) = IF getContentLength(m.fields) > 0 THEN getContentLength(m.fields) ELSE 0

(* "Names of headers are case-insensitive" (HttpRequest.cpp:27): a body is read by
   its length header however that is written. *)
BodiesFollowLengths ==
    \A i \in DOMAIN handed : Len(handed[i].body) = Promised(handed[i].fields)
=============================================================================
