---------------------------- MODULE MCHttpParser ----------------------------
(* HttpParser with requests whose bodies look like ends of lines and headers. *)
EXTENDS HttpParser

Streamed == {"CR", "LF", "x", "junk"} \cup RequestLines \cup Lengths \cup OtherHeaders

Message(head, fields, body) == [head |-> head, fields |-> fields, body |-> body]

Usual == {
    Message("get", <<>>, <<>>),
    Message("get", <<"host", "lengthx">>, <<>>),
    Message("post", <<"length1">>, <<"x">>),
    Message("post", <<"host", "length2">>, <<"CR", "LF">>),
    Message("post", <<"length0">>, <<>>),
    Message("junk", <<>>, <<>>),
    Message("get", <<"junk">>, <<>>)}

Lowercase == {Message("post", <<"LENGTH1">>, <<"x">>)}
=============================================================================
