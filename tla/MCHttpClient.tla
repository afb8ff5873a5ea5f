---------------------------- MODULE MCHttpClient ----------------------------
(* Four requests, so that two handlers blocked in syncSend can hold both  *)
(* threads while the two requests they wait on are posted.               *)
(* Urls: a host with a port and a path written without the scheme, a url *)
(* with no host, and, for makeRequest, one-character hosts whose ':' or   *)
(* '/' falls before index 9.                                               *)
EXTENDS HttpClientModel, TLC

CONSTANTS q1, q2, q3, q4

MCReqs == {q1, q2, q3, q4}

MCUrlBare    == <<"h", "x", ":", "8", "/", "x">>
MCUrlNoHost  == <<":", "8">>
MCUrlFull    == <<"h", "t", "t", "p", ":", "/", "/">> \o MCUrlBare
MCUrlOnePort == <<"h", "t", "t", "p", ":", "/", "/", "h", ":", "8">>
MCUrlOnePath == <<"h", "t", "t", "p", ":", "/", "/", "h", "/", "x">>

MCUrls == {MCUrlBare, MCUrlNoHost}
\* The liveness run issues valid urls only: an invalid one goes straight to
\* its reply, and four requests with both urls are past TLC's time budget.
MCUrlsValid == {MCUrlBare}
MCUrlsParse == {MCUrlBare, MCUrlFull, MCUrlOnePort, MCUrlOnePath}

=============================================================================
