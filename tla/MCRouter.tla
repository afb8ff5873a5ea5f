------------------------------ MODULE MCRouter ------------------------------
(* Model-checking instance of Router.  The tokens are listed in byte order *)
(* ('$' 0x24 < '4' 0x34 < '<' 0x3C < '@' 0x40 < '[' 0x5B < 'l' < 'u'):    *)
(* "@me" is a legal literal segment that sorts between the two fuzzy       *)
(* bracket forms.                                                          *)
EXTENDS Router

MCTokenOrder == <<"$apis", "42", "<id>", "@me", "[n]", "list", "user">>
MCFuzzy == {"<id>", "[n]"}
MCApiList == <<"$apis">>
MCPatterns ==
    { <<>>, <<"user">>, <<"<id>">>, <<"@me">>, <<"[n]">>,
      <<"user", "<id>">>, <<"user", "list">>, <<"user", "[n]">>,
      <<"user", "@me">>, <<"<id>", "list">>, <<"<id>", "[n]">> }
\* Every request path of at most two segments over these tokens.
MCPaths ==
    LET segs == {"user", "list", "42", "@me", "<id>"}
    IN  {<<>>} \cup {<<a>> : a \in segs} \cup {<<a, b>> : a, b \in segs}
=============================================================================
