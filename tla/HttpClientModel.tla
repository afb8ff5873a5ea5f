-------------------------- MODULE HttpClientModel --------------------------
(***************************************************************************)
(* The asynchronous HTTP client http::Client (HttpClient.hpp).  get,      *)
(* post, put, del and send spawn a doSend coroutine per request on the io *)
(* context run by threadCount worker threads; doSend resolves, connects,  *)
(* writes and reads, and calls the reply handler once on every path.      *)
(* syncSend waits on a future the handler fulfils.  makeRequest turns a   *)
(* url string into the request's protocol, host, port and resource.      *)
(***************************************************************************)
EXTENDS Integers, Sequences, FiniteSets

CONSTANTS
    Reqs,          \* identities for the requests that may be issued
    Urls,          \* url strings the caller may pass, as sequences of characters
    Threads,       \* threadCount: the io worker threads
    Timeout,       \* the effective timeout in seconds (req.timeout, else timeout_)
    SyncInHandler  \* a reply handler may itself call syncSend

ASSUME HttpClientAssumption ==
    /\ IsFiniteSet(Reqs) /\ Urls # {}
    /\ Threads \in Nat \ {0}
    /\ Timeout \in Nat
    /\ SyncInHandler \in BOOLEAN

-----------------------------------------------------------------------------
(* makeRequest (91-136).  Indexes of std::string are 0-based; a search     *)
(* that finds nothing gives -1 (npos).                                     *)

(* find_first_of(ch, from)                                                 *)
FindFrom(s, ch, from) ==
    LET I == {k \in 1..Len(s) : s[k] = ch /\ k - 1 >= from}
    IN IF I = {} THEN -1 ELSE (CHOOSE k \in I : \A j \in I : k <= j) - 1

(* boost::starts_with(s, p)                                                *)
StartsWith(s, p) == Len(p) <= Len(s) /\ SubSeq(s, 1, Len(p)) = p

(* The characters of a string.                                             *)
Chars(s) == {s[k] : k \in DOMAIN s}

Http == <<"h", "t", "t", "p">>
Https == Http \o <<"s">>

(* The url with "http" or "http://" put in front unless it starts with    *)
(* "http".                                                                *)
Fixed(u) ==
    IF StartsWith(u, Http) THEN u
    ELSE IF u # <<>> /\ u[1] = ":" THEN Http \o u
    ELSE Http \o <<":", "/", "/">> \o u

(* boost::split on ":/" (no compression): token k, or "" past the end.     *)
(* Token k lies between the k-th separator (the start of the string for  *)
(* k = 0) and the next one (the end of the string after the last).       *)
Token(s, k) ==
    LET Seps == {j \in 1..Len(s) : s[j] \in {":", "/"}}
        n == Cardinality(Seps)
        Bound(i) == IF i = 0 THEN 0
                    ELSE IF i = n + 1 THEN Len(s) + 1
                    ELSE CHOOSE j \in Seps : Cardinality({x \in Seps : x < j}) = i - 1
    IN IF k <= n THEN SubSeq(s, Bound(k) + 1, Bound(k + 1) - 1) ELSE <<>>

MakeRequest(u) ==
    LET f    == Fixed(u)
        port == IF FindFrom(f, ":", 9) # -1 THEN Token(f, 4) ELSE <<>>
        rpos == FindFrom(f, "/", 9)
        res  == IF rpos = -1 THEN <<>> ELSE SubSeq(f, rpos + 1, Len(f))
    IN [protocol |-> Token(f, 0),
        host     |-> Token(f, 3),
        port     |-> IF port = <<>> THEN <<"8", "0">> ELSE port,
        resource |-> IF res # <<>> /\ res[1] = "/" THEN res ELSE <<"/">> \o res]

(* Url::isValid.                                                           *)
IsValidUrl(url) == url.protocol \in {Http, Https} /\ url.host # <<>>

-----------------------------------------------------------------------------
VARIABLES
    url,      \* url[r]: the url string request r was issued with
    st,       \* st[r]: where request r's doSend is
    replies,  \* replies[r]: how many times r's reply handler was called
    waitOn,   \* waitOn[r]: the request r's handler waits on in syncSend, or r itself
    dropped   \* drop() stopped the io context

vars == <<url, st, replies, waitOn, dropped>>

States == {"none", "posted", "resolving", "connecting", "writing", "reading",
           "replying", "blocked", "done"}

Init ==
    /\ url = [r \in Reqs |-> <<>>]
    /\ st = [r \in Reqs |-> "none"]
    /\ replies = [r \in Reqs |-> 0]
    /\ waitOn = [r \in Reqs |-> r]
    /\ dropped = FALSE

(* Handlers blocked in syncSend each hold an io thread.                    *)
FreeThreads == Threads - Cardinality({r \in Reqs : st[r] = "blocked"})

(* A step of a coroutine runs on a free io thread of a running context.   *)
Runs(r, from) == st[r] = from /\ ~dropped /\ FreeThreads > 0

Goto(r, s) ==
    /\ st' = [st EXCEPT ![r] = s]
    /\ UNCHANGED <<url, replies, waitOn, dropped>>

(* get / post / put / del / send: makeRequest, then spawn doSend.          *)
Issue(r, u) ==
    /\ st[r] = "none" /\ ~dropped
    /\ url' = [url EXCEPT ![r] = u]
    /\ st' = [st EXCEPT ![r] = "posted"]
    /\ UNCHANGED <<replies, waitOn, dropped>>

(* doSend: an invalid url is answered at once, else async_resolve.         *)
Begin(r) ==
    /\ Runs(r, "posted")
    /\ Goto(r, IF IsValidUrl(MakeRequest(url[r])) THEN "resolving" ELSE "replying")

(* async_resolve completes; on success the timer is armed when the        *)
(* timeout is positive and async_connect starts.                           *)
Resolved(r) ==
    /\ Runs(r, "resolving")
    /\ \E ok \in BOOLEAN : Goto(r, IF ok THEN "connecting" ELSE "replying")

(* async_connect, async_write and async_read complete, well or not.        *)
Connected(r) == Runs(r, "connecting") /\ \E ok \in BOOLEAN : Goto(r, IF ok THEN "writing" ELSE "replying")
Written(r) == Runs(r, "writing") /\ \E ok \in BOOLEAN : Goto(r, IF ok THEN "reading" ELSE "replying")
ReadDone(r) == Runs(r, "reading") /\ Goto(r, "replying")

(* Mutant: the timer is armed from req.timeout alone, which the url       *)
(* overloads leave at 0, ignoring timeout_.                               *)
ExpireReqTimeoutOnly(r) ==
    LET reqTimeout == 0 IN
    /\ reqTimeout > 0
    /\ st[r] \in {"connecting", "writing", "reading"} /\ ~dropped /\ FreeThreads > 0
    /\ Goto(r, "replying")

(* The stream's timer expires: the pending connect, write or read fails.   *)
Expire(r) ==
    /\ Timeout > 0
    /\ st[r] \in {"connecting", "writing", "reading"} /\ ~dropped /\ FreeThreads > 0
    /\ Goto(r, "replying")

(* Mutant: after a failure reply the coroutine goes on to the next step.   *)
ReplyNoReturn(r) ==
    /\ Runs(r, "replying")
    /\ replies' = [replies EXCEPT ![r] = @ + 1]
    /\ \/ st' = [st EXCEPT ![r] = "done"] /\ UNCHANGED waitOn
       \/ st' = [st EXCEPT ![r] = "connecting"] /\ UNCHANGED waitOn
    /\ UNCHANGED <<url, dropped>>

(* The request a syncSend issued: its handler is syncSend's lambda, which *)
(* only sets the promise.                                                  *)
Nested(r) == \E p \in Reqs : p # r /\ waitOn[p] = r

(* func(Reply{...}) and return: the handler runs on this thread; it        *)
(* returns, or, when it is the caller's own handler, calls syncSend, which *)
(* spawns a request and blocks on its future.                              *)
Reply(r) ==
    /\ Runs(r, "replying")
    /\ replies' = [replies EXCEPT ![r] = @ + 1]
    /\ \/ st' = [st EXCEPT ![r] = "done"] /\ UNCHANGED <<url, waitOn>>
       \/ /\ SyncInHandler /\ ~Nested(r)
          /\ \E q \in Reqs, u \in Urls :
               /\ st[q] = "none"
               /\ url' = [url EXCEPT ![q] = u]
               /\ st' = [st EXCEPT ![r] = "blocked", ![q] = "posted"]
               /\ waitOn' = [waitOn EXCEPT ![r] = q]
    /\ UNCHANGED dropped

(* future.get returns once the nested request's handler set the promise.   *)
Unblock(r) ==
    /\ st[r] = "blocked" /\ replies[waitOn[r]] > 0
    /\ Goto(r, "done")

(* drop / ~Client: reset the guard and stop the context.                   *)
Drop ==
    /\ ~dropped
    /\ dropped' = TRUE
    /\ UNCHANGED <<url, st, replies, waitOn>>

Next ==
    \/ \E r \in Reqs, u \in Urls : Issue(r, u)
    \/ \E r \in Reqs :
        \/ Begin(r) \/ Resolved(r) \/ Connected(r) \/ Written(r) \/ ReadDone(r)
        \/ Expire(r) \/ Reply(r) \/ Unblock(r)
    \/ Drop

(* The workers run ready coroutines, the resolver answers and an armed    *)
(* timer fires; the server may never answer a connect, a write or a read. *)
(* Each of these steps of r is enabled in its own state st[r], which only *)
(* r's steps change once r is issued, so one weak fairness condition on   *)
(* their disjunction is the same as one on each.                          *)
Progress(r) == Begin(r) \/ Resolved(r) \/ Expire(r) \/ Reply(r) \/ Unblock(r)
Fairness == \A r \in Reqs : WF_vars(Progress(r))

Spec == Init /\ [][Next]_vars
FairSpec == Spec /\ Fairness

-----------------------------------------------------------------------------
(* Properties.                                                             *)

(* Every path of doSend calls the reply handler at most once.              *)
OneReplyPerRequest ==
    \A r \in Reqs : replies[r] <= 1

(* Every issued request is answered unless the client is dropped.        *)
AllAnswered ==
    \A r \in Reqs : st[r] = "posted" ~> (replies[r] > 0 \/ dropped)

(* An issued request is answered unless the client is dropped or every   *)
(* io thread is held by a reply handler blocked in syncSend: the future   *)
(* such a handler waits on is only set by a coroutine that then has no    *)
(* thread to run on, so syncSend inside a handler can hang the client.    *)
AnsweredUnlessThreadsHeld ==
    \A r \in Reqs : st[r] = "posted" ~> (replies[r] > 0 \/ dropped \/ FreeThreads = 0)

(* makeRequest reads a url of the form [http://]host[:port][/path] as    *)
(* written: the host, the port (80 when absent) and the path ("/" when    *)
(* absent).                                                               *)
AsWritten(u) ==
    LET f == Fixed(u)
        rest == SubSeq(f, 8, Len(f))
    IN \A a, b \in 0..Len(rest) :
         LET h == SubSeq(rest, 1, a)
             p == SubSeq(rest, a + 1, b)
             t == SubSeq(rest, b + 1, Len(rest))
         IN ( /\ a <= b /\ h # <<>> /\ Chars(h) \cap {":", "/"} = {}
              /\ (p = <<>> \/ (p[1] = ":" /\ Len(p) > 1 /\ Chars(Tail(p)) \cap {":", "/"} = {}))
              /\ (t = <<>> \/ (t[1] = "/" /\ ":" \notin Chars(t))) )
            => MakeRequest(u) = [protocol |-> Http, host |-> h,
                                 port |-> IF p = <<>> THEN <<"8", "0">> ELSE Tail(p),
                                 resource |-> IF t = <<>> THEN <<"/">> ELSE t]
UrlsParsedAsWritten ==
    \A r \in Reqs : st[r] # "none" => AsWritten(url[r])

=============================================================================
