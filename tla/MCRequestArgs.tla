--------------------------- MODULE MCRequestArgs ---------------------------
(* Targets of up to four characters after the '/': enough for a pair with  *)
(* a key and a value ("?a=B"), two pairs ("?a&a"), a second '=' ("?a==")   *)
(* and a percent escape with its two digits.  Queries of up to seven      *)
(* characters over {a, B, &, =} after "/?": enough for the specification's *)
(* "a=1&a=2" (last wins, as "a=a&a=B"), a value cleared at '&' ("a=B&a")  *)
(* and a three-pair query.                                                 *)
EXTENDS RequestArgs

MCChars == {"a", "B", "%", "+", "?", "&", "=", "#"}
MCQueryChars == {"a", "B", "&", "="}

=============================================================================
