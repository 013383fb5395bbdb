--------------------------- MODULE ResponseStage ---------------------------
(***************************************************************************)
(* HttpURLHandlerState: a response is written in stages, and a call in the *)
(* wrong stage ends the process.  Each call appends parts to responseData  *)
(* and may run out of memory at any of them, keeping the parts before.     *)
(*                                                                         *)
(* An operation maps the outcomes of the calls before it to those after it.*)
(***************************************************************************)
EXTENDS Sequences, SequencesExt

Stages == {"StatusLine", "ResponseHeaders", "ResponseBody", "End"}

Response(stage, data, result) == [stage |-> stage, data |-> data, result |-> result]

Started == Response("StatusLine", <<>>, "ok")

\* Appending parts in stage `from`, then going to stage `to`.
Write(r, from, parts, to) ==
  IF r.stage # from THEN {Response(r.stage, r.data, "wrongStage")}
  ELSE {Response(to, r.data \o parts, "ok")} \cup
       {Response(from, r.data \o SubSeq(parts, 1, n), "outOfMemory") :
          n \in 0 .. Len(parts) - 1}

\* The same on those responses of rs that are still being written
\* (NETKNOT_RETURN_IF_EXCEPT): the others stay as they are.
Writes(rs, from, parts, to) ==
  UNION {IF r.result = "ok" THEN Write(r, from, parts, to) ELSE {r} : r \in rs}

HeaderParts == <<"name", ": ", "value", "CRLF">>

WriteStatusLine(rs, status) ==
  Writes(rs, "StatusLine", <<"HTTP/1,1 ", status, "CRLF">>, "ResponseHeaders")

WriteHeader(rs) == Writes(rs, "ResponseHeaders", HeaderParts, "ResponseHeaders")

EndHeader(rs) == Writes(rs, "ResponseHeaders", <<"CRLF">>, "ResponseBody")

WriteBody(rs) == Writes(rs, "ResponseBody", <<"body", "CRLF">>, "ResponseBody")

EndBody(rs) == {IF r.result = "ok" THEN Response("End", r.data, "ok") ELSE r : r \in rs}

\* Mutant: Content-Length is forgotten.
WriteResponseNoLength(status) ==
  LET typed == WriteHeader(WriteStatusLine({Started}, status))
  IN EndBody(WriteBody(EndHeader(typed)))

\* A status line, Content-Type, Content-Length and a body.
WriteResponse(status) ==
  LET typed == WriteHeader(WriteStatusLine({Started}, status))
      sized == WriteHeader(typed)
  IN EndBody(WriteBody(EndHeader(sized)))

\* What a client must see of it.
WholeResponse(status) ==
  <<"HTTP/1,1 ", status, "CRLF">> \o HeaderParts \o HeaderParts \o <<"CRLF">> \o
  <<"body", "CRLF">>
=============================================================================
