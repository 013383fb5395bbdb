---------------------------- MODULE MCHttpServer ----------------------------
(* HttpServer for TLC: a handler that stops the server and two others, and *)
(* requests for every route: a handler, 404, 405, 400.                     *)
EXTENDS HttpServer

Request(target, method, body) == [target |-> target, method |-> method, body |-> body]

MCStopPath == <<"/stop">>

MCHandlers == {<<MCStopPath, "GET">>, <<<<"/a">>, "GET">>, <<<<"/a">>, "PUT">>}

MCRequests ==
  { Request(MCStopPath, "GET", FALSE),
    Request(<<"/a", "?", "query">>, "PUT", TRUE),
    Request(<<"/stop", "#", "fragment">>, "PUT", FALSE),
    Request(<<"/b">>, "GET", FALSE),
    Request(<<"/a", "#", "fragment", "?", "query">>, "GET", FALSE) }
=============================================================================
