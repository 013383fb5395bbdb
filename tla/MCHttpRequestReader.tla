------------------------ MODULE MCHttpRequestReader ------------------------
(* HttpRequestReader for TLC, with a SizeMax of 12: requests with none, one *)
(* or two header fields, without a body, with a body that is read whole or  *)
(* in part, with a length at the limit (12) or past it (19, 20), with a     *)
(* space behind the length, and with an encoding read as "chunked".         *)
EXTENDS HttpRequestReader

Request(fields, digits, route) ==
  [fields |-> fields, digits |-> digits, padded |-> FALSE, route |-> route]

MCRequests ==
  { Request(<<>>, <<>>, "noPath"),
    Request(<<"field">>, <<>>, "handler"),
    Request(<<"field", "field">>, <<>>, "badTarget"),
    Request(<<"length">>, <<3>>, "noMethod"),
    Request(<<"length", "field">>, <<1, 2>>, "handler"),
    Request(<<"field", "length">>, <<0, 1>>, "handler"),
    Request(<<"length">>, <<0, 1, 2>>, "handler"),
    Request(<<"length">>, <<0, 1, 9>>, "handler"),
    Request(<<"length">>, <<0, 2, 0>>, "handler"),
    [Request(<<"length", "field">>, <<0, 1>>, "handler") EXCEPT !.padded = TRUE],
    Request(<<"chunked", "field">>, <<>>, "handler"),
    Request(<<"length", "chunked">>, <<0, 1, 9>>, "handler") }
=============================================================================
