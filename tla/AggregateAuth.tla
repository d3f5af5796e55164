--------------------------- MODULE AggregateAuth ---------------------------
(***************************************************************************)
(* How openconnect-tun obtains a session cookie: the aggregate-auth        *)
(* dialogue with an ASA (authenticateWithSAML: init requests with their    *)
(* fallback servers, host scans, the vpn-auth browser, auth-replies in     *)
(* several variants) and the openconnect --authenticate path, each in the  *)
(* temporary directories it creates.  The server and the helper programs   *)
(* are external and may answer anything.                                   *)
(***************************************************************************)
EXTENDS Naturals, Sequences

CONSTANTS Server,      \* targets an init request may name
          Primary,     \* the configured server
          Fallbacks,   \* auth_fallback_servers, in order
          Token,       \* host-scan tokens
          Variants,    \* auth-reply bodies tried at each target
          MaxPosts,    \* POSTs of one request, redirects followed: 5 in the code
          None

MaxScans   == 4   \* hostScanPass
MaxReplies == 3   \* authReplyPass

VARIABLES
  pc,
  mode,        \* Auth as configured
  next,        \* positions of the fallback candidates not tried yet
  st,          \* samlAuthState: [ticket, token, group, req], or None
  pass, seen, scanned, deferred,      \* the host-scan loop
  replies, posts, cont, foll,         \* the auth-reply loop and its preferences
  hops,        \* POSTs of the auth-reply under way
  jar,         \* the sdesktop cookie of path / that each host would be sent
  extra,       \* hosts with a further one, of a longer path, which is sent before it
  replaced,    \* hosts that replaced their cookie of path / during the auth-reply under way
  dirs,        \* temporary helper directories on disk
  selected,    \* the server whose init answer is in use
  asked,       \* the group of the request just sent, and of an auth-reply under way the token in
               \* its body, the host it went to and the sdesktop cookies it carried
  issued,      \* the host-scan challenge of the last init answer
  answered     \* tokens that a host scan was run for, or returned

loop  == <<pass, seen, scanned, deferred>>
reply == <<replies, posts, cont, foll, hops, replaced>>
jars  == <<jar, extra>>
vars  == <<pc, mode, next, st, loop, reply, jars, dirs, selected, asked, issued, answered>>

Url      == [host : Server, page : {"group", "other"}]
GroupUrl(g) == [host |-> g, page |-> "group"]
State    == [ticket : BOOLEAN, token : Token \cup {None}, group : Server, req : Url]
Ended    == {"failed", "cookie"}

AuthAssumption ==
  /\ Primary \in Server /\ Fallbacks \in Seq(Server)
  /\ Variants \in Nat \ {0} /\ MaxPosts \in Nat \ {0}
  /\ None \notin Server /\ None \notin Token /\ None \notin State

\* "", saml, password and aggregate; openconnect; anything else, which runs
\* openconnect without the browser wrapper.
AuthMode == {"aggregate", "openconnect", "other"}

TypeOK ==
  /\ pc \in Ended \cup {"start", "fallback", "loop", "perform", "scan", "wait", "refresh", "preset",
                        "browser", "deferred", "lateScan", "lateWait", "adopt", "import", "post", "sent", "helpers",
                        "openconnect"}
  /\ mode \in AuthMode
  /\ next \subseteq DOMAIN Fallbacks /\ st \in State \cup {None}
  /\ pass \in 0..MaxScans /\ seen \subseteq Token /\ scanned \in Token \cup {None}
  /\ deferred \in BOOLEAN
  /\ replies \in 0..MaxReplies /\ posts \in 0..2 * Variants /\ cont \in BOOLEAN /\ foll \in BOOLEAN
  /\ hops \in 0..MaxPosts /\ replaced \subseteq Server
  /\ jar \in [Server -> Token \cup {None}] /\ extra \subseteq Server /\ dirs \in 0..1
  /\ selected \in Server \cup {None} /\ issued \in Token \cup {None} /\ answered \subseteq Token
  /\ asked \in [group : Server \cup {None}, token : Token \cup {None}, host : Server \cup {None},
                cookie : Token \cup {None}, further : BOOLEAN]

Request(group) ==
  [group |-> group, token |-> None, host |-> None, cookie |-> None, further |-> FALSE]

Init ==
  /\ pc = "start" /\ mode \in AuthMode
  /\ next = {} /\ st = None
  /\ pass = 0 /\ seen = {} /\ scanned = None /\ deferred = FALSE
  /\ replies = 0 /\ posts = 0 /\ cont = FALSE /\ foll = FALSE
  /\ hops = 0 /\ replaced = {}
  /\ jar = [h \in Server |-> None] /\ extra = {} /\ dirs = 0
  /\ selected = None
  /\ asked = Request(None)
  /\ issued = None /\ answered = {}

Goto(step) == pc' = step
Fail       == Goto("failed")
-----------------------------------------------------------------------------
(* Init requests *)

\* Every fallback at its first place in the list; the primary is none.
Candidates ==
  {i \in DOMAIN Fallbacks :
     Fallbacks[i] # Primary /\ \A j \in 1..(i - 1) : Fallbacks[j] # Fallbacks[i]}

\* Up to five redirects, each posted again, lead to a URL of the server's choice.
Redirected == Url

\* An answer with an sso-v2-login and an opaque block.
Answer(group) == {s \in State : s.group = group /\ s.req \in Redirected}

Asking(group) == asked' = Request(group)

Challenge(s) == IF s.ticket THEN s.token ELSE None

\* Every host that answers on the way may set, replace or delete its sdesktop cookies.
SetCookies == jar' \in [Server -> Token \cup {None}] /\ extra' \in SUBSET Server

\* The request to the primary: it has an answer, it lacks the sso flow, which
\* alone makes the client try the fallbacks, or it fails in another way.
FetchPrimary ==
  /\ pc = "start" /\ mode = "aggregate"
  /\ Asking(Primary)
  /\ \/ \E s \in Answer(Primary) :
          /\ st' = s /\ selected' = Primary /\ issued' = Challenge(s)
          /\ SetCookies /\ Goto("loop") /\ UNCHANGED next
     \/ Goto("fallback") /\ next' = Candidates /\ UNCHANGED <<st, jars, selected, issued>>
     \/ Fail /\ UNCHANGED <<next, st, jars, selected, issued>>
  /\ UNCHANGED <<mode, loop, reply, dirs, answered>>

\* The candidates in the order of the list; each gets a cookie jar of its own.
FetchFallback ==
  /\ pc = "fallback"
  /\ \/ next = {} /\ Fail /\ UNCHANGED <<next, st, jars, selected, issued, asked>>
     \/ \E i \in next :
          /\ \A j \in next : i <= j
          /\ next' = next \ {i} /\ Asking(Fallbacks[i])
          /\ \/ \E s \in Answer(Fallbacks[i]) :
                  /\ st' = s /\ selected' = Fallbacks[i] /\ issued' = Challenge(s)
                  /\ SetCookies /\ Goto("loop")
             \/ UNCHANGED <<pc, st, jars, selected, issued>>
  /\ UNCHANGED <<mode, loop, reply, dirs, answered>>
-----------------------------------------------------------------------------
(* Host scans *)

Pending(s) == s.ticket /\ s.token # None /\ s.token \notin seen

ScanLoop ==
  /\ pc = "loop"
  /\ Goto(IF pass < MaxScans /\ Pending(st) THEN "perform"
          ELSE IF Pending(st) THEN "failed" ELSE "preset")
  /\ UNCHANGED <<mode, next, st, loop, reply, jars, dirs, selected, asked, issued, answered>>

\* performHostScan in a directory of its own: without csd-post.sh and libcsd, or
\* when the wrapper cannot be written, there is no scan and no directory.
PrepareCSD(then) ==
  /\ \/ Fail /\ UNCHANGED dirs
     \/ Goto(then) /\ dirs' = 1
  /\ UNCHANGED <<mode, next, st, loop, reply, jars, selected, asked, issued, answered>>

\* The scan fails, times out, does not say TOKEN_SUCCESS, or succeeds; then it
\* may have left a token to use instead of the server's.
RunCSD(then) ==
  /\ dirs' = 0
  /\ \/ Fail /\ UNCHANGED st
     \/ Goto(then) /\ \E t \in Token : st' = [st EXCEPT !.token = t]
  /\ UNCHANGED <<mode, next, loop, reply, jars, selected, asked, issued, answered>>

PerformHostScan ==
  \/ pc = "perform" /\ PrepareCSD("scan")
  \/ pc = "scan" /\ RunCSD("wait")

\* waitForHostScan: without a wait-uri there is nothing to do; the final redirect becomes
\* the request URL.  Its own cookie is one of those that the answers may leave.
WaitForHostScan(then) ==
  \/ Goto(then) /\ UNCHANGED <<st, jars>>
  \/ /\ SetCookies
     /\ \/ \E u \in Url : st' = [st EXCEPT !.req = u] /\ Goto(then)
        \/ Fail /\ UNCHANGED st

Wait ==
  /\ pc = "wait" /\ WaitForHostScan("refresh")
  /\ IF pc' = "refresh"
     THEN /\ scanned' = st.token /\ seen' = seen \cup {st.token}
          /\ answered' = answered \cup {st.token, issued}
     ELSE UNCHANGED <<scanned, seen, answered>>
  /\ UNCHANGED <<mode, next, pass, deferred, reply, dirs, selected, asked, issued>>

PreferSSO(s) == s.ticket /\ s.token # None /\ s.req # GroupUrl(s.group)

\* Mutant: the refresh names the configured server.
RefreshPrimary ==
  /\ pc = "refresh" /\ Asking(Primary)
  /\ \/ /\ Fail /\ UNCHANGED <<st, jars, pass, deferred, issued>>
     \/ \E s \in Answer(Primary) :
          /\ st' = s /\ issued' = Challenge(s) /\ SetCookies /\ pass' = pass + 1
          /\ deferred' = PreferSSO(s)
          /\ Goto(IF PreferSSO(s) THEN "preset" ELSE "loop")
  /\ UNCHANGED <<mode, next, seen, scanned, reply, dirs, selected, answered>>

\* Mutant: the passes are not counted.
RefreshUncounted ==
  /\ pc = "refresh" /\ Asking(st.group)
  /\ \/ /\ Fail /\ UNCHANGED <<st, jars, deferred, issued>>
     \/ \E s \in Answer(st.group) :
          /\ st' = s /\ issued' = Challenge(s) /\ SetCookies
          /\ deferred' = PreferSSO(s)
          /\ Goto(IF PreferSSO(s) THEN "preset" ELSE "loop")
  /\ UNCHANGED <<mode, next, pass, seen, scanned, reply, dirs, selected, answered>>

\* The state is asked for again, with the same jar and group; a new challenge
\* away from the group URL is left until after the browser.
Refresh ==
  /\ pc = "refresh" /\ Asking(st.group)
  /\ \/ /\ Fail /\ UNCHANGED <<st, jars, pass, deferred, issued>>
     \/ \E s \in Answer(st.group) :
          /\ st' = s /\ issued' = Challenge(s) /\ SetCookies /\ pass' = pass + 1
          /\ deferred' = PreferSSO(s)
          /\ Goto(IF PreferSSO(s) THEN "preset" ELSE "loop")
  /\ UNCHANGED <<mode, next, seen, scanned, reply, dirs, selected, answered>>
-----------------------------------------------------------------------------
(* The browser *)

StoreHostScanCookie(j, h, t) == IF t = None THEN j ELSE [j EXCEPT ![h] = t]

Preset ==
  /\ pc = "preset" /\ Goto("browser")
  /\ jar' = IF deferred
            THEN StoreHostScanCookie(StoreHostScanCookie(jar, st.req.host, st.token), st.group, st.token)
            ELSE jar
  /\ UNCHANGED <<mode, next, st, loop, reply, extra, dirs, selected, asked, issued, answered>>

\* vpn-auth: missing, failed, timed out, without a token, or with one.
Browser ==
  /\ pc = "browser"
  /\ \/ Fail
     \/ Goto(IF replies > 0 THEN "import" ELSE IF deferred THEN "deferred" ELSE "adopt")
  /\ UNCHANGED <<mode, next, st, loop, reply, jars, dirs, selected, asked, issued, answered>>

\* Mutant: the challenge put off is never taken up.
DeferredHostScanSkipped ==
  /\ pc \in {"deferred", "lateScan"} /\ Goto("adopt")
  /\ UNCHANGED <<mode, next, st, loop, reply, jars, dirs, selected, asked, issued, answered>>

DeferredHostScan ==
  \/ pc = "deferred" /\ PrepareCSD("lateScan")
  \/ pc = "lateScan" /\ RunCSD("lateWait")

LateWait ==
  /\ pc = "lateWait" /\ WaitForHostScan("adopt")
  /\ IF pc' = "adopt"
     THEN scanned' = st.token /\ answered' = answered \cup {st.token, issued}
     ELSE UNCHANGED <<scanned, answered>>
  /\ UNCHANGED <<mode, next, pass, seen, deferred, reply, dirs, selected, asked, issued>>

Adopt ==
  /\ pc = "adopt" /\ Goto("import")
  /\ st' = IF scanned = None THEN st ELSE [st EXCEPT !.token = scanned]
  /\ UNCHANGED <<mode, next, loop, reply, jars, dirs, selected, asked, issued, answered>>
-----------------------------------------------------------------------------
(* Auth-replies *)

Targets == IF st.req = GroupUrl(st.group) THEN 1 ELSE 2
Target  == IF posts > (Targets - 1) * Variants THEN st.group ELSE st.req.host

\* A pass starts with the browser's cookies for the reply host, sdesktop included: one of
\* path / replaces the jar's, one of a longer path stays beside it.
Import ==
  /\ pc = "import"
  /\ IF replies = MaxReplies THEN Fail /\ UNCHANGED <<jars, posts, cont, foll>>
     ELSE /\ \E t \in Token \cup {None} : jar' = StoreHostScanCookie(jar, st.group, t)
          /\ extra' \in {extra, extra \cup {st.group}}
          /\ posts' = Targets * Variants /\ cont' = FALSE /\ foll' = FALSE
          /\ Goto("post")
  /\ UNCHANGED <<mode, next, st, loop, replies, hops, replaced, dirs, selected, asked, issued,
                 answered>>

\* Mutant: the cookie is stored for the group's host alone.
CookiesOfGroup == StoreHostScanCookie(jar, st.group, st.token)

\* The host-scan token in the body of every variant.
ReplyToken == st.token

Cookies == StoreHostScanCookie(StoreHostScanCookie(jar, Target, st.token), st.group, st.token)

\* completeSAMLAuthAtTarget stores the cookies and posts a variant to the target.
Post ==
  /\ pc = "post" /\ posts > 0 /\ Goto("sent")
  /\ jar' = Cookies /\ hops' = 1
  /\ asked' = [group |-> st.group, token |-> ReplyToken, host |-> Target,
               cookie |-> Cookies[Target], further |-> Target \in extra]
  /\ UNCHANGED <<mode, next, st, loop, replies, posts, cont, foll, extra, replaced, dirs,
                 selected, issued, answered>>

\* The host that answers may set or delete its cookies.
ReplyCookies(h) ==
  /\ \E t \in Token \cup {None} : jar' = [jar EXCEPT ![h] = t]
  /\ extra' \in {extra \ {h}, extra \cup {h}}

\* A redirect, to any host, is sent the same body with the cookies of that host.
Repost ==
  /\ pc = "sent" /\ hops < MaxPosts /\ hops' = hops + 1
  /\ ReplyCookies(asked.host)
  /\ replaced' = replaced \cup {h \in Server : jar'[h] # jar[h]}
  /\ \E h \in Server : asked' = [asked EXCEPT !.host = h, !.cookie = jar'[h],
                                              !.further = h \in extra']
  /\ UNCHANGED <<pc, mode, next, st, loop, replies, posts, cont, foll, dirs, selected, issued,
                 answered>>

\* A session token ends the dialogue; an auth-request with or without an sso flow, a redirect
\* too many or another error, and the next variant is tried.
Answered ==
  /\ pc = "sent" /\ hops' = 0 /\ replaced' = {}
  /\ ReplyCookies(asked.host) /\ Asking(asked.group)
  /\ \/ Goto("cookie") /\ UNCHANGED <<posts, cont, foll>>
     \/ /\ posts' = posts - 1 /\ Goto("post")
        /\ \/ foll' = TRUE /\ UNCHANGED cont
           \/ cont' = TRUE /\ UNCHANGED foll
           \/ UNCHANGED <<cont, foll>>
  /\ UNCHANGED <<mode, next, st, loop, replies, dirs, selected, issued, answered>>

\* All variants failed: a continuation is answered with the same login, a
\* follow-up with a new one.
Resume ==
  /\ pc = "post" /\ posts = 0
  /\ IF cont \/ foll
     THEN /\ \E s \in Answer(st.group) : st' = s
          /\ replies' = replies + 1
          /\ Goto(IF cont THEN "import" ELSE "browser")
     ELSE Fail /\ UNCHANGED <<st, replies>>
  /\ UNCHANGED <<mode, next, loop, posts, cont, foll, hops, replaced, jars, dirs, selected, asked,
                 issued, answered>>
-----------------------------------------------------------------------------
(* openconnect --authenticate *)

\* The directory is created unless neither the browser wrapper nor a host-scan
\* wrapper is needed; whatever cannot be written removes it again.
PrepareHelpers ==
  /\ pc = "start" /\ mode # "aggregate"
  /\ \/ mode = "other" /\ Goto("openconnect") /\ UNCHANGED dirs
     \/ dirs' = 1 /\ Goto("helpers")
     \/ Fail /\ UNCHANGED dirs
  /\ UNCHANGED <<mode, next, st, loop, reply, jars, selected, asked, issued, answered>>

\* Mutant: an error returns without the cleanup.
WriteHelpersLeaking ==
  /\ pc = "helpers" /\ (Goto("openconnect") \/ Fail)
  /\ UNCHANGED <<mode, next, st, loop, reply, jars, dirs, selected, asked, issued, answered>>

WriteHelpers ==
  /\ pc = "helpers"
  /\ \/ Goto("openconnect") /\ UNCHANGED dirs
     \/ Fail /\ dirs' = 0
  /\ UNCHANGED <<mode, next, st, loop, reply, jars, selected, asked, issued, answered>>

OpenConnectAuthenticate ==
  /\ pc = "openconnect"
  /\ Goto("cookie") \/ Fail
  /\ dirs' = 0
  /\ UNCHANGED <<mode, next, st, loop, reply, jars, selected, asked, issued, answered>>

Done == pc \in Ended /\ UNCHANGED vars

Next ==
  \/ FetchPrimary \/ FetchFallback \/ ScanLoop \/ PerformHostScan \/ Wait \/ Refresh \/ Preset
  \/ Browser \/ DeferredHostScan \/ LateWait \/ Adopt \/ Import \/ Post \/ Repost \/ Answered
  \/ Resume
  \/ PrepareHelpers \/ WriteHelpers \/ OpenConnectAuthenticate \/ Done

Spec == Init /\ [][Next]_vars /\ WF_vars(Next)
-----------------------------------------------------------------------------
(* Properties *)

\* When the first auth-reply is sent, the host-scan challenge of the latest init
\* answer has been scanned and waited for, also when it was put off until after
\* the browser or came back with another token.
ChallengeAnswered ==
  pc = "post" /\ replies = 0 => issued = None \/ issued \in answered

\* An auth-reply that names a host-scan token carries the same token in its sdesktop cookie
\* of path /, whatever the browser or an earlier request put in the jar, at its target and
\* where a redirect leads to the group's host, until that host replaces the cookie.
CookieMatchesBody ==
  pc = "sent" /\ asked.token # None /\ asked.host \in {Target, st.group} \ replaced =>
    asked.cookie = asked.token

\* Once a server's answer is in use, every later request names that server's group, wherever
\* redirects send it: after a fallback no request names the primary.
SelectedServer == selected # None => asked.group = selected

\* No path out of the authentication leaves its helper directory behind.
HelperDirsRemoved == pc \in Ended => dirs = 0

\* The dialogue ends, however long the server goes on with new challenges, follow-ups,
\* continuations and redirects: the HTTP client, vpn-auth, csd-post.sh and openconnect have
\* timeouts; the commands that describe the client before the first request have none and
\* are taken to return.
AuthenticationEnds == <>(pc \in Ended)
-----------------------------------------------------------------------------
(* What a document, a comment or an error message of the repository says   *)
(* and the model refutes: see "What the code does not keep" in README.md.  *)

\* The host that gets an auth-reply finds the token of its body in the sdesktop cookie, and
\* finds one such cookie.
OneCookieOfBody ==
  pc = "sent" /\ asked.token # None => asked.cookie = asked.token /\ ~asked.further
=============================================================================
