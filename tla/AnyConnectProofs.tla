-------------------------- MODULE AnyConnectProofs --------------------------
(***************************************************************************)
(* Proofs about the parts of MCAnyConnect: the authentication for any       *)
(* servers, fallbacks, tokens and number of auth-reply variants; the dump   *)
(* for any sessions, processes, sockets and log files; ssh-proxy for any    *)
(* commands, profiles, sessions and pids.                                   *)
(***************************************************************************)
EXTENDS MCAnyConnect, FiniteSetTheorems, TLAPS

---------------------------------------------------------------------------
(* The authentication *)

\* The request in use has an answer, and everything names the server that gave it.
GroupInv ==
  /\ stage \in {"start", "fallback", "helpers", "openconnect"} => selected = None
  /\ stage \notin {"start", "fallback", "helpers", "openconnect"} \cup Auth!Ended
       => st # None
  /\ st # None => selected = st.group
  /\ selected # None => asked.group = selected

\* A challenge is taken up by the loop, put off until after the browser, or answered: what
\* each place of the dialogue knows about the challenge of the latest answer.
ChallengeInv ==
  /\ seen \subseteq answered
  /\ deferred => issued # None
  /\ stage \in {"loop", "start", "fallback"} => ~deferred
  /\ stage = "loop" => issued = Auth!Challenge(st)
  /\ stage \in {"perform", "scan", "wait"} => issued # None
  /\ stage \in {"wait", "lateWait"} => st.token # None
  /\ stage \in {"deferred", "lateScan", "lateWait"} => deferred
  /\ stage \in {"preset", "browser"} /\ replies = 0
       => deferred \/ issued = None \/ issued \in answered
  /\ stage \in {"adopt", "import", "post", "sent"} /\ replies = 0
       => issued = None \/ issued \in answered

\* The loops are left at their bounds.
LoopInv ==
  /\ stage \in {"perform", "scan", "wait", "refresh"} => pass < Auth!MaxScans
  /\ stage \in {"start", "fallback", "loop", "perform", "scan", "wait", "refresh", "preset",
                "deferred", "lateScan", "lateWait", "adopt"} => replies = 0
  /\ stage \in {"post", "sent"} => replies < Auth!MaxReplies

\* Where a helper directory may be on disk.
DirsInv == dirs # 0 => stage \in {"scan", "lateScan", "helpers", "openconnect"}

\* While an auth-reply is under way, its target and the group's host have its token as their
\* cookie, unless they have replaced it: a redirect back to one of them finds it.
SentInv ==
  stage = "sent" =>
    /\ posts > 0 /\ asked.host \in Server /\ asked.token = st.token
    /\ st.token # None => \A h \in {Auth!Target, st.group} \ replaced : jar[h] = st.token
    /\ Auth!CookieMatchesBody

AuthInv ==
  /\ Auth!TypeOK /\ GroupInv /\ ChallengeInv /\ LoopInv /\ DirsInv /\ SentInv

\* What a request is made of.
Asked == [group : Server \cup {None}, token : Token \cup {None}, host : Server \cup {None},
          cookie : Token \cup {None}, further : BOOLEAN]

\* An answer is a state of the group that was asked for, and not None.
LEMMA AnswerFacts ==
  ASSUME NEW g, NEW s \in Auth!Answer(g)
  PROVE  /\ s \in Auth!State /\ s # None /\ s.group = g /\ g \in Server
         /\ s.ticket \in BOOLEAN /\ s.token \in Token \cup {None}
         /\ Auth!Challenge(s) \in Token \cup {None}
<1>1. s \in Auth!State /\ s.group = g
  BY DEF Auth!Answer
<1>2. s # None
  BY <1>1, AnyConnectAssumption DEF Auth!AuthAssumption
<1> QED
  BY <1>1, <1>2 DEF Auth!State, Auth!Challenge

\* A state keeps its form when its token or its request URL changes.
LEMMA StateUpdates ==
  ASSUME NEW s \in Auth!State
  PROVE  /\ \A t \in Token \cup {None} :
              LET u == [s EXCEPT !.token = t]
              IN  u \in Auth!State /\ u # None /\ u.token = t /\ u.group = s.group
         /\ \A r \in Auth!Url :
              LET u == [s EXCEPT !.req = r]
              IN  u \in Auth!State /\ u # None /\ u.token = s.token /\ u.group = s.group
<1>1. None \notin Auth!State
  BY AnyConnectAssumption DEF Auth!AuthAssumption
<1> QED
  BY <1>1 DEF Auth!State

\* What the request just sent is made of.
LEMMA AskedUpdates ==
  ASSUME NEW g \in Server \cup {None}
  PROVE  Auth!Request(g) \in Asked /\ Auth!Request(g).group = g
  BY DEF Auth!Request, Asked

\* The cookie of a host after a token was stored, or not, for it.
LEMMA StoredCookie ==
  ASSUME NEW j \in [Server -> Token \cup {None}], NEW h \in Server, NEW t \in Token \cup {None}
  PROVE  LET k == Auth!StoreHostScanCookie(j, h, t)
         IN  /\ k \in [Server -> Token \cup {None}]
             /\ t # None => k[h] = t
             /\ \A o \in Server : j[o] = t => k[o] = t
  BY DEF Auth!StoreHostScanCookie

\* The init requests, with which a server is selected.
LEMMA RequestStep ==
  ASSUME AuthInv, Auth!FetchPrimary \/ Auth!FetchFallback
  PROVE  AuthInv'
<1> USE DEF AuthInv, GroupInv, ChallengeInv, LoopInv, DirsInv, SentInv,
            Auth!Goto, Auth!Fail, Auth!Asking, Auth!loop, Auth!reply, Auth!jars, Auth!Ended,
            Auth!MaxScans, Auth!MaxReplies
<1>1. Primary \in Server /\ None \notin Server /\ \A i \in DOMAIN Fallbacks : Fallbacks[i] \in Server
  BY AnyConnectAssumption DEF Auth!AuthAssumption
<1>2. CASE Auth!FetchPrimary
  <2>0. asked' \in Asked /\ asked'.group = Primary
    BY <1>1, <1>2, AskedUpdates, Zenon DEF Auth!FetchPrimary
  <2>1. CASE \E s \in Auth!Answer(Primary) :
               /\ st' = s /\ selected' = Primary /\ issued' = Auth!Challenge(s)
               /\ Auth!SetCookies /\ Auth!Goto("loop") /\ UNCHANGED next
    <3>1. PICK s \in Auth!Answer(Primary) :
               /\ st' = s /\ selected' = Primary /\ issued' = Auth!Challenge(s)
               /\ Auth!SetCookies /\ Auth!Goto("loop") /\ UNCHANGED next
      BY <2>1
    <3> QED
      BY <1>1, <1>2, <2>0, <3>1, AnswerFacts
      DEF Auth!FetchPrimary, Auth!SetCookies, Auth!TypeOK, Asked
  <2>2. CASE /\ Auth!Goto("fallback") /\ next' = Auth!Candidates
             /\ UNCHANGED <<st, Auth!jars, selected, issued>>
    BY <1>1, <1>2, <2>0, <2>2 DEF Auth!FetchPrimary, Auth!TypeOK, Auth!Candidates, Asked
  <2>3. CASE Auth!Fail /\ UNCHANGED <<next, st, Auth!jars, selected, issued>>
    BY <1>1, <1>2, <2>0, <2>3 DEF Auth!FetchPrimary, Auth!TypeOK, Asked
  <2> QED
    BY <1>2, <2>1, <2>2, <2>3 DEF Auth!FetchPrimary
<1>3. CASE Auth!FetchFallback
  <2>1. CASE next = {} /\ Auth!Fail /\ UNCHANGED <<next, st, Auth!jars, selected, issued, asked>>
    BY <1>3, <2>1 DEF Auth!FetchFallback, Auth!TypeOK
  <2>2. ASSUME NEW i \in next, next' = next \ {i}, Auth!Asking(Fallbacks[i])
        PROVE  asked' \in Asked /\ asked'.group = Fallbacks[i]
    BY <1>1, <2>2, AskedUpdates DEF Auth!TypeOK
  <2>3. ASSUME NEW i \in next, next' = next \ {i}, Auth!Asking(Fallbacks[i]),
               NEW s \in Auth!Answer(Fallbacks[i]),
               st' = s, selected' = Fallbacks[i], issued' = Auth!Challenge(s),
               Auth!SetCookies, Auth!Goto("loop")
        PROVE  AuthInv'
    BY <1>1, <1>3, <2>2, <2>3, AnswerFacts
    DEF Auth!FetchFallback, Auth!SetCookies, Auth!TypeOK, Asked
  <2>4. ASSUME NEW i \in next, next' = next \ {i}, Auth!Asking(Fallbacks[i]),
               UNCHANGED <<stage, st, Auth!jars, selected, issued>>
        PROVE  AuthInv'
    BY <1>1, <1>3, <2>2, <2>4 DEF Auth!FetchFallback, Auth!TypeOK, Asked
  <2> QED
    BY <1>3, <2>1, <2>3, <2>4 DEF Auth!FetchFallback
<1> QED
  BY <1>2, <1>3


\* A host scan: its directory exists while it runs, and it leaves a token.
LEMMA ScanStep ==
  ASSUME AuthInv, Auth!PerformHostScan \/ Auth!DeferredHostScan \/ Auth!ScanLoop
  PROVE  AuthInv'
<1> USE DEF AuthInv, GroupInv, ChallengeInv, LoopInv, DirsInv, SentInv,
            Auth!Goto, Auth!Fail, Auth!loop, Auth!reply, Auth!jars, Auth!Ended,
            Auth!MaxScans, Auth!MaxReplies
<1>1. None \notin Token /\ None \notin Auth!State
  BY AnyConnectAssumption DEF Auth!AuthAssumption
<1>2. ASSUME NEW a, NEW b, <<a, b>> \in {<<"perform", "scan">>, <<"deferred", "lateScan">>},
             stage = a, Auth!PrepareCSD(b)
      PROVE  AuthInv'
  BY <1>2 DEF Auth!PrepareCSD, Auth!TypeOK
<1>3. ASSUME NEW a, NEW b, <<a, b>> \in {<<"scan", "wait">>, <<"lateScan", "lateWait">>},
             stage = a, Auth!RunCSD(b)
      PROVE  AuthInv'
  <2>1. CASE Auth!Fail /\ UNCHANGED st
    BY <1>3, <2>1 DEF Auth!RunCSD, Auth!TypeOK
  <2>2. ASSUME NEW t \in Token, st' = [st EXCEPT !.token = t], Auth!Goto(b)
        PROVE  AuthInv'
    <3>1. st \in Auth!State
      BY <1>3 DEF Auth!TypeOK
    <3>2. st' \in Auth!State /\ st' # None /\ st'.token = t /\ st'.group = st.group
      BY <2>2, <3>1, StateUpdates
    <3> QED
      BY <1>1, <1>3, <2>2, <3>1, <3>2 DEF Auth!RunCSD, Auth!TypeOK
  <2> QED
    BY <1>3, <2>1, <2>2 DEF Auth!RunCSD
<1>4. CASE Auth!ScanLoop
  <2>1. st \in Auth!State
    BY <1>4 DEF Auth!ScanLoop, Auth!TypeOK
  <2> QED
    BY <1>1, <1>4, <2>1
    DEF Auth!ScanLoop, Auth!TypeOK, Auth!Pending, Auth!Challenge, Auth!State
<1> QED
  BY <1>2, <1>3, <1>4 DEF Auth!PerformHostScan, Auth!DeferredHostScan

\* What the wait for a host scan does to the state: the cookies may change, and it may lead
\* elsewhere.
Waited ==
  \/ UNCHANGED <<st, jar, extra>>
  \/ /\ Auth!SetCookies
     /\ (\E u \in Auth!Url : st' = [st EXCEPT !.req = u]) \/ UNCHANGED st

\* The group and the token stay.
LEMMA WaitFacts ==
  ASSUME Auth!TypeOK, st # None, Waited
  PROVE  /\ jar' \in [Server -> Token \cup {None}] /\ extra' \subseteq Server
         /\ st' \in Auth!State /\ st' # None /\ st'.group = st.group /\ st'.token = st.token
<1>1. st \in Auth!State /\ st.token \in Token \cup {None}
  BY DEF Auth!TypeOK, Auth!State
<1>2. jar' \in [Server -> Token \cup {None}] /\ extra' \subseteq Server
  BY <1>1 DEF Auth!TypeOK, Auth!SetCookies, Waited
<1>3. CASE \E u \in Auth!Url : st' = [st EXCEPT !.req = u]
  <2>1. PICK u \in Auth!Url : st' = [st EXCEPT !.req = u]
    BY <1>3
  <2> QED
    BY <1>1, <1>2, <2>1, StateUpdates
<1>4. CASE UNCHANGED st
  BY <1>1, <1>2, <1>4
<1> QED
  BY <1>3, <1>4 DEF Waited

\* After the wait the challenge counts as answered; the refresh asks the same group again.
LEMMA WaitStep ==
  ASSUME AuthInv, Auth!Wait \/ Auth!LateWait \/ Auth!Refresh
  PROVE  AuthInv'
<1> USE DEF AuthInv, GroupInv, ChallengeInv, LoopInv, DirsInv, SentInv,
            Auth!Goto, Auth!Fail, Auth!loop, Auth!reply, Auth!jars, Auth!Ended,
            Auth!MaxScans, Auth!MaxReplies
<1>1. None \notin Token /\ None \notin Auth!State /\ None \notin Server
  BY AnyConnectAssumption DEF Auth!AuthAssumption
<1>2. CASE Auth!Wait
  <2>1. /\ stage' \in {"refresh", "failed"} /\ jar' \in [Server -> Token \cup {None}]
        /\ extra' \subseteq Server
        /\ st' \in Auth!State /\ st' # None /\ st'.group = st.group /\ st'.token = st.token
    <3>1. st # None /\ Waited /\ stage' \in {"refresh", "failed"}
      BY <1>2 DEF Auth!Wait, Auth!WaitForHostScan, Waited
    <3> QED
      BY <3>1, WaitFacts
  <2>2. st.token \in Token /\ issued \in Token
    BY <1>1, <1>2 DEF Auth!Wait, Auth!TypeOK, Auth!State
  <2> QED
    BY <1>1, <1>2, <2>1, <2>2 DEF Auth!Wait, Auth!TypeOK
<1>3. CASE Auth!LateWait
  <2>1. /\ stage' \in {"adopt", "failed"} /\ jar' \in [Server -> Token \cup {None}]
        /\ extra' \subseteq Server
        /\ st' \in Auth!State /\ st' # None /\ st'.group = st.group /\ st'.token = st.token
    <3>1. st # None /\ Waited /\ stage' \in {"adopt", "failed"}
      BY <1>3 DEF Auth!LateWait, Auth!WaitForHostScan, Waited
    <3> QED
      BY <3>1, WaitFacts
  <2>2. st.token \in Token /\ issued \in Token
    BY <1>1, <1>3 DEF Auth!LateWait, Auth!TypeOK, Auth!State
  <2> QED
    BY <1>1, <1>3, <2>1, <2>2 DEF Auth!LateWait, Auth!TypeOK
<1>4. CASE Auth!Refresh
  <2>0. st \in Auth!State /\ st.group \in Server
    BY <1>4 DEF Auth!Refresh, Auth!TypeOK, Auth!State
  <2>1. asked' \in Asked /\ asked'.group = st.group
    BY <1>4, <2>0, AskedUpdates DEF Auth!Refresh, Auth!Asking
  <2>2. CASE Auth!Fail /\ UNCHANGED <<st, Auth!jars, pass, deferred, issued>>
    BY <1>1, <1>4, <2>0, <2>1, <2>2 DEF Auth!Refresh, Auth!TypeOK, Asked
  <2>3. ASSUME NEW s \in Auth!Answer(st.group),
               st' = s, issued' = Auth!Challenge(s), Auth!SetCookies, pass' = pass + 1,
               deferred' = Auth!PreferSSO(s),
               stage' = IF Auth!PreferSSO(s) THEN "preset" ELSE "loop"
        PROVE  AuthInv'
    <3>1. Auth!PreferSSO(s) \in BOOLEAN /\ (Auth!PreferSSO(s) => Auth!Challenge(s) # None)
      BY AnswerFacts DEF Auth!PreferSSO, Auth!Challenge
    <3> HIDE DEF Auth!PreferSSO, Auth!Challenge
    <3> QED
      BY <1>1, <1>4, <2>0, <2>1, <2>3, <3>1, AnswerFacts
      DEF Auth!Refresh, Auth!SetCookies, Auth!TypeOK, Asked
  <2> QED
    BY <1>4, <2>2, <2>3 DEF Auth!Refresh
<1> QED
  BY <1>2, <1>3, <1>4

\* The browser and what it leads to.
LEMMA BrowserStep ==
  ASSUME AuthInv, Auth!Preset \/ Auth!Browser \/ Auth!Adopt
  PROVE  AuthInv'
<1> USE DEF AuthInv, GroupInv, ChallengeInv, LoopInv, DirsInv, SentInv,
            Auth!Goto, Auth!Fail, Auth!loop, Auth!reply, Auth!jars, Auth!Ended,
            Auth!MaxScans, Auth!MaxReplies
<1>1. None \notin Token /\ None \notin Auth!State
  BY AnyConnectAssumption DEF Auth!AuthAssumption
<1>2. CASE Auth!Preset
  <2>1. st.req.host \in Server /\ st.group \in Server /\ st.token \in Token \cup {None}
    BY <1>2 DEF Auth!Preset, Auth!TypeOK, Auth!State, Auth!Url
  <2>2. jar' \in [Server -> Token \cup {None}]
    BY <1>2, <2>1, StoredCookie DEF Auth!Preset, Auth!TypeOK
  <2> QED
    BY <1>2, <2>2 DEF Auth!Preset, Auth!TypeOK
<1>3. CASE Auth!Browser
  BY <1>3 DEF Auth!Browser, Auth!TypeOK
<1>4. CASE Auth!Adopt
  <2>1. st' \in Auth!State /\ st' # None /\ st'.group = st.group
    BY <1>4, StateUpdates DEF Auth!Adopt, Auth!TypeOK
  <2> QED
    BY <1>4, <2>1 DEF Auth!Adopt, Auth!TypeOK
<1> QED
  BY <1>2, <1>3, <1>4

\* The cookies after an answer of h.
LEMMA ReplyCookieFacts ==
  ASSUME Auth!TypeOK, NEW h \in Server, Auth!ReplyCookies(h)
  PROVE  jar' \in [Server -> Token \cup {None}] /\ extra' \subseteq Server
<1>1. PICK t \in Token \cup {None} : jar' = [jar EXCEPT ![h] = t]
  BY DEF Auth!ReplyCookies
<1>2. extra' \subseteq Server
  BY DEF Auth!ReplyCookies, Auth!TypeOK
<1> QED
  BY <1>1, <1>2 DEF Auth!TypeOK

\* The auth-replies: the token of the body is the cookie of the target and of the group.
LEMMA ReplyStep ==
  ASSUME AuthInv, Auth!Import \/ Auth!Post \/ Auth!Repost \/ Auth!Answered \/ Auth!Resume
  PROVE  AuthInv'
<1> USE DEF AuthInv, GroupInv, ChallengeInv, LoopInv, DirsInv,
            Auth!Goto, Auth!Fail, Auth!loop, Auth!reply, Auth!jars, Auth!Ended,
            Auth!MaxScans, Auth!MaxReplies
<1>1. /\ None \notin Token /\ None \notin Auth!State /\ None \notin Server
      /\ Variants \in Nat \ {0} /\ MaxPosts \in Nat \ {0}
  BY AnyConnectAssumption DEF Auth!AuthAssumption
<1>2. /\ st \in Auth!State /\ st # None /\ st.group \in Server /\ st.req.host \in Server
      /\ st.token \in Token \cup {None}
  BY DEF Auth!Import, Auth!Post, Auth!Repost, Auth!Answered, Auth!Resume, Auth!TypeOK,
         Auth!State, Auth!Url
<1>t. Auth!Target \in Server
  BY <1>2 DEF Auth!Target
<1>3. CASE Auth!Import
  <2>1. CASE /\ replies = Auth!MaxReplies /\ Auth!Fail
             /\ UNCHANGED <<Auth!jars, posts, cont, foll>>
    BY <1>3, <2>1 DEF Auth!Import, Auth!TypeOK, SentInv
  <2>2. CASE replies # Auth!MaxReplies
    <3>1. jar' \in [Server -> Token \cup {None}] /\ extra' \subseteq Server
      BY <1>2, <1>3, <2>2, StoredCookie DEF Auth!Import, Auth!TypeOK
    <3>2. posts' \in 0..2 * Variants
      BY <1>1, <1>3, <2>2 DEF Auth!Import, Auth!Targets
    <3>3. /\ stage = "import" /\ stage' = "post" /\ cont' = FALSE /\ foll' = FALSE
          /\ UNCHANGED <<mode, next, st, pass, seen, scanned, deferred, replies, hops,
                         replaced, dirs, selected, asked, issued, answered>>
      BY <1>3, <2>2 DEF Auth!Import
    <3>4. Auth!TypeOK'
      BY <3>1, <3>2, <3>3 DEF Auth!TypeOK
    <3>5. replies < Auth!MaxReplies
      BY <2>2 DEF Auth!TypeOK
    <3> QED
      BY <1>2, <3>3, <3>4, <3>5 DEF SentInv
  <2> QED
    BY <1>3, <2>1, <2>2 DEF Auth!Import
<1>4. CASE Auth!Post
  <2> DEFINE k == Auth!StoreHostScanCookie(jar, Auth!Target, st.token)
  <2>2. /\ Auth!Cookies \in [Server -> Token \cup {None}]
        /\ st.token # None => /\ Auth!Cookies[Auth!Target] = st.token
                              /\ Auth!Cookies[st.group] = st.token
    <3> HIDE DEF Auth!Target
    <3>1. /\ k \in [Server -> Token \cup {None}]
          /\ st.token # None => k[Auth!Target] = st.token
      BY <1>2, <1>t, StoredCookie DEF Auth!TypeOK
    <3> HIDE DEF k
    <3>2. LET c == Auth!StoreHostScanCookie(k, st.group, st.token)
          IN  /\ c \in [Server -> Token \cup {None}]
              /\ st.token # None => c[Auth!Target] = st.token /\ c[st.group] = st.token
      BY <1>2, <1>t, <3>1, StoredCookie
    <3> QED
      BY <3>2 DEF Auth!Cookies, k
  <2>3. /\ asked' \in Asked
        /\ asked'.group = st.group /\ asked'.token = st.token
        /\ asked'.host = Auth!Target /\ asked'.cookie = Auth!Cookies[Auth!Target]
    <3> HIDE DEF Auth!Target, Auth!Cookies
    <3> QED
      BY <1>2, <1>4, <1>t, <2>2 DEF Auth!Post, Auth!ReplyToken, Asked
  <2>4. /\ stage = "post" /\ stage' = "sent" /\ posts > 0
        /\ jar' = Auth!Cookies /\ hops' = 1
        /\ UNCHANGED <<mode, next, st, pass, seen, scanned, deferred, replies, posts, cont, foll,
                       extra, replaced, dirs, selected, issued, answered>>
    BY <1>4 DEF Auth!Post
  <2> HIDE DEF k
  <2>5. 1 \in 0..MaxPosts
    BY <1>1
  <2>6. Auth!TypeOK'
    BY <2>2, <2>3, <2>4, <2>5 DEF Auth!TypeOK, Asked
  <2>7. Auth!Target' = Auth!Target
    BY <2>4 DEF Auth!Target, Auth!Targets
  <2>8. SentInv'
    BY <1>2, <1>t, <2>2, <2>3, <2>4, <2>7 DEF SentInv, Auth!CookieMatchesBody
  <2> QED
    BY <1>2, <2>3, <2>4, <2>6, <2>8
<1>5. CASE Auth!Repost
  <2>1. asked.host \in Server /\ asked \in Asked
    BY <1>5 DEF Auth!Repost, SentInv, Auth!TypeOK, Asked
  <2>2. /\ jar' \in [Server -> Token \cup {None}]
        /\ extra' \subseteq Server /\ replaced' \subseteq Server
        /\ \A o \in Server : o \notin replaced' => o \notin replaced /\ jar'[o] = jar[o]
    <3>1. replaced' = replaced \cup {h \in Server : jar'[h] # jar[h]}
      BY <1>5 DEF Auth!Repost
    <3>2. jar' \in [Server -> Token \cup {None}] /\ extra' \subseteq Server
      BY <1>5, <2>1, ReplyCookieFacts DEF Auth!Repost
    <3> QED
      BY <3>1, <3>2 DEF Auth!TypeOK
  <2>3. PICK h \in Server : asked' = [asked EXCEPT !.host = h, !.cookie = jar'[h],
                                                   !.further = h \in extra']
    BY <1>5 DEF Auth!Repost
  <2>4. /\ asked' \in Asked /\ asked'.group = asked.group /\ asked'.token = asked.token
        /\ asked'.host = h /\ asked'.cookie = jar'[h]
    <3>1. jar'[h] \in Token \cup {None}
      BY <2>2
    <3>2. (h \in extra') \in BOOLEAN
      OBVIOUS
    <3>3. PICK c \in Token \cup {None}, b \in BOOLEAN :
            asked' = [asked EXCEPT !.host = h, !.cookie = c, !.further = b] /\ c = jar'[h]
      BY <2>3, <3>1, <3>2, Zenon
    <3> QED
      BY <2>1, <3>3 DEF Asked
  <2>5. /\ stage = "sent" /\ hops' = hops + 1 /\ hops < MaxPosts
        /\ UNCHANGED <<stage, mode, next, st, pass, seen, scanned, deferred, replies, posts, cont,
                       foll, dirs, selected, issued, answered>>
    BY <1>5 DEF Auth!Repost
  <2>6. hops' \in 0..MaxPosts
    BY <1>1, <2>5 DEF Auth!TypeOK
  <2>7. Auth!TypeOK'
    BY <2>2, <2>4, <2>5, <2>6 DEF Auth!TypeOK, Asked
  <2>8. Auth!Target' = Auth!Target
    BY <2>5 DEF Auth!Target, Auth!Targets
  <2>9. SentInv'
    BY <1>2, <1>t, <2>2, <2>4, <2>5, <2>8 DEF SentInv, Auth!CookieMatchesBody
  <2> QED
    BY <1>2, <2>4, <2>5, <2>7, <2>9
<1>6. CASE Auth!Answered
  <2>1. asked.host \in Server /\ asked.group \in Server \cup {None}
    BY <1>6 DEF Auth!Answered, SentInv, Auth!TypeOK
  <2>a. asked' \in Asked /\ asked'.group = asked.group
    BY <1>6, <2>1, AskedUpdates DEF Auth!Answered, Auth!Asking
  <2>2. jar' \in [Server -> Token \cup {None}] /\ extra' \subseteq Server
    BY <1>6, <2>1, ReplyCookieFacts DEF Auth!Answered
  <2>3. /\ stage = "sent" /\ posts > 0 /\ hops' = 0 /\ replaced' = {}
        /\ UNCHANGED <<mode, next, st, pass, seen, scanned, deferred, replies, dirs, selected,
                       issued, answered>>
    BY <1>6 DEF Auth!Answered, SentInv
  <2>4. stage' \in {"post", "cookie"} /\ posts' \in {posts, posts - 1}
    BY <1>6 DEF Auth!Answered
  <2>5. cont' \in BOOLEAN /\ foll' \in BOOLEAN
    BY <1>6 DEF Auth!Answered, Auth!TypeOK
  <2>6. posts' \in 0..2 * Variants /\ hops' \in 0..MaxPosts
    BY <1>1, <2>3, <2>4 DEF Auth!TypeOK
  <2>7. Auth!TypeOK'
    BY <2>a, <2>2, <2>3, <2>4, <2>5, <2>6 DEF Auth!TypeOK, Asked
  <2> QED
    BY <1>2, <2>a, <2>3, <2>4, <2>7 DEF SentInv
<1>7. CASE Auth!Resume
  <2>1. CASE \E s \in Auth!Answer(st.group) :
               /\ st' = s /\ replies' = replies + 1
               /\ stage' \in {"import", "browser"}
    BY <1>1, <1>2, <1>7, <2>1, AnswerFacts DEF Auth!Resume, Auth!TypeOK, SentInv
  <2>2. CASE Auth!Fail /\ UNCHANGED <<st, replies>>
    BY <1>7, <2>2 DEF Auth!Resume, Auth!TypeOK, SentInv
  <2> QED
    BY <1>7, <2>1, <2>2 DEF Auth!Resume
<1> QED
  BY <1>3, <1>4, <1>5, <1>6, <1>7

\* openconnect --authenticate and its helper directory.
LEMMA HelpersStep ==
  ASSUME AuthInv, Auth!PrepareHelpers \/ Auth!WriteHelpers \/ Auth!OpenConnectAuthenticate
  PROVE  AuthInv'
<1> USE DEF AuthInv, GroupInv, ChallengeInv, LoopInv, DirsInv, SentInv,
            Auth!Goto, Auth!Fail, Auth!loop, Auth!reply, Auth!jars, Auth!Ended,
            Auth!MaxScans, Auth!MaxReplies, Auth!TypeOK
<1>1. CASE Auth!PrepareHelpers
  BY <1>1 DEF Auth!PrepareHelpers
<1>2. CASE Auth!WriteHelpers
  BY <1>2 DEF Auth!WriteHelpers
<1>3. CASE Auth!OpenConnectAuthenticate
  BY <1>3 DEF Auth!OpenConnectAuthenticate
<1> QED
  BY <1>1, <1>2, <1>3

\* Every step of the dialogue keeps the invariant.
LEMMA AuthStep ==
  ASSUME AuthInv, Auth!Next
  PROVE  AuthInv'
<1>1. CASE Auth!Done
  BY <1>1 DEF Auth!Done, Auth!vars, Auth!loop, Auth!reply, Auth!jars, AuthInv, GroupInv, ChallengeInv,
              LoopInv, DirsInv, SentInv, Auth!CookieMatchesBody, Auth!Target, Auth!Targets, Auth!TypeOK, Auth!Challenge
<1> QED
  BY <1>1, RequestStep, ScanStep, WaitStep, BrowserStep, ReplyStep, HelpersStep DEF Auth!Next

\* The steps of the other parts do not change a variable of the authentication.
LEMMA AuthKept ==
  ASSUME AuthInv, UNCHANGED authVars
  PROVE  AuthInv'
  BY DEF authVars, AuthInv, GroupInv, ChallengeInv,
         LoopInv, DirsInv, SentInv, Auth!CookieMatchesBody, Auth!Target, Auth!Targets, Auth!TypeOK, Auth!Challenge

\* For all servers, fallbacks, tokens, variants and lengths of redirect chains: the first
\* auth-reply answers the latest challenge, a token goes out in the body and as the cookie of
\* path / to the target and to the group's host, also when a redirect leads there, every request
\* after the first answer names the server that gave it, and no end leaves a directory
\* (authenticateWithSAML and authenticateWithOpenConnect).
THEOREM AuthIsCorrect == Spec => []AuthCorrect
<1>1. Init => AuthInv
  <2> SUFFICES ASSUME Auth!Init PROVE AuthInv
    BY DEF Init
  <2>1. 0 \in 0..2 * Variants /\ 0 \in 0..MaxPosts
    BY AnyConnectAssumption DEF Auth!AuthAssumption
  <2>2. Auth!TypeOK
    <3>1. /\ jar \in [Server -> Token \cup {None}]
          /\ asked \in Asked
      BY AskedUpdates DEF Auth!Init
    <3>2. next \subseteq DOMAIN Fallbacks /\ seen \subseteq Token /\ answered \subseteq Token
         /\ replaced \subseteq Server /\ extra \subseteq Server
      BY DEF Auth!Init
    <3>3. /\ pass \in 0..Auth!MaxScans /\ replies \in 0..Auth!MaxReplies /\ dirs \in 0..1
          /\ posts \in 0..2 * Variants /\ hops \in 0..MaxPosts
      BY <2>1 DEF Auth!Init, Auth!MaxScans, Auth!MaxReplies
    <3>4. /\ deferred \in BOOLEAN /\ cont \in BOOLEAN /\ foll \in BOOLEAN
          /\ scanned \in Token \cup {None} /\ issued \in Token \cup {None}
          /\ selected \in Server \cup {None} /\ st \in Auth!State \cup {None}
      BY DEF Auth!Init
    <3> QED
      BY <3>1, <3>2, <3>3, <3>4 DEF Auth!Init, Auth!TypeOK, Asked
  <2>3. GroupInv /\ ChallengeInv /\ LoopInv /\ DirsInv /\ SentInv
    BY DEF Auth!Init, GroupInv, ChallengeInv, LoopInv, DirsInv, SentInv, Auth!Ended
  <2> QED
    BY <2>2, <2>3 DEF AuthInv
<1>2. AuthInv /\ [Next]_vars => AuthInv'
  BY AuthStep, AuthKept DEF Next, vars
<1>3. AuthInv => AuthCorrect
  BY DEF AuthInv, AuthCorrect, GroupInv, ChallengeInv, DirsInv, SentInv,
         Auth!CookieMatchesBody, Auth!ChallengeAnswered,
         Auth!SelectedServer, Auth!HelperDirsRemoved, Auth!Ended
<1> QED
  BY <1>1, <1>2, <1>3, PTL DEF Spec

---------------------------------------------------------------------------
(* The daemon of cisco-dump and its command *)

Command == "command"

\* A daemon that got past its comparison is the recorded one.
RecordedInv ==
  \A s \in Sess : dumpAt[s] \in Dump!Live \ {"boot"} => current = s

\* What the command knows of the record and of the daemon it works on.
DumpCommandInv ==
  /\ dumpPc[Command] \in {"check", "stopCheck", "term", "poll", "kill", "pollKilled", "clear"}
       => dumpCur[Command] = current
  /\ dumpPc[Command] \in {"stopCheck", "term", "poll", "kill", "pollKilled", "clear"}
       => current \in Sess
  /\ dumpPc[Command] \in {"prepare", "spawn", "saveMeta", "saveCurrent"} => current = None
  /\ dumpPc[Command] \in {"saveMeta", "saveCurrent", "stable"} => dumpMine[Command] \in Sess
  /\ dumpPc[Command] = "stable" => current = dumpMine[Command]
  /\ dumpPc[Command] = "clear" => dumpAt[dumpCur[Command]] \notin Dump!Live
  /\ dumpPc[Command] = "saveMeta" =>
       /\ dumpAt[dumpMine[Command]] \in {"boot", "exited"}
       /\ meta[dumpMine[Command]] = None

\* How far a daemon is tells which captures it has started and ended.
CaptureInv ==
  \A s \in Sess :
    /\ dumpAt[s] \in {"none", "boot", "cap1"} => cap[s][1] = "none"
    /\ dumpAt[s] \in {"none", "boot", "cap1", "cap2"} => cap[s][2] = "none"
    /\ dumpAt[s] \in {"cap1", "cap2", "saveCaps"} => opt[s].tcpdump
    /\ ~opt[s].tcpdump => cap[s][1] = "none"
    /\ 2 \notin Dump!Captures(s) /\ dumpAt[s] # "cap2" => cap[s][2] = "none"
    /\ dumpAt[s] = "cap2" => 2 \in Dump!Captures(s)
    /\ dumpAt[s] \in {"stop2", "analyse", "final"} => cap[s][1] # "running" \/ lost[s] = "stop"
    /\ dumpAt[s] \in {"analyse", "final"} => cap[s][2] # "running" \/ lost[s] = "stop"

\* The daemon has not looked yet.
Early == {"none", "boot", "cap1", "cap2", "saveCaps", "signals"}

\* What the metadata says, it says of what the daemon has done, and no more than it has
\* counted.
MetadataInv ==
  \A s \in Sess :
    /\ dumpAt[s] = "none" => meta[s] = None
    /\ meta[s] \notin {None, Torn} =>
         /\ meta[s].captures => opt[s].tcpdump
         /\ meta[s].stopped => dumpAt[s] = "exited"
         /\ dumpAt[s] \in Dump!Live => meta[s].count <= snapshotCount[s]
    /\ dumpAt[s] \in Early => snapshotCount[s] = 0

\* A session that is named anywhere has been launched.
KnownInv ==
  /\ current \in Sess => dumpAt[current] # "none"
  /\ dumpMine[Command] # None => dumpAt[dumpMine[Command]] # "none"

\* The analysis comes after the captures.
DerivedInv == \A s \in Sess : derived[s] # None => dumpAt[s] \in {"final", "exited"}

DumpInv ==
  /\ Dump!TypeOK /\ RecordedInv /\ KnownInv /\ DumpCommandInv /\ CaptureInv /\ MetadataInv /\ DerivedInv
  /\ Dump!CapturesOwned /\ Dump!OcscFromLoopback

Meta == [captures : BOOLEAN, stopped : BOOLEAN, count : 0..MaxCount]

\* The fields that are written are metadata, and later counts are not smaller.
LEMMA MetaFacts ==
  /\ None \notin Meta /\ Torn \notin Meta
  /\ \A a, b \in BOOLEAN, n \in 0..MaxCount :
       /\ Dump!Fields(a, b, n) \in Meta
       /\ Dump!Fields(a, b, n).captures = a /\ Dump!Fields(a, b, n).stopped = b
       /\ Dump!Fields(a, b, n).count = n
  /\ 0 \in 0..MaxCount /\ 1 \in 0..MaxCount
  /\ \A n \in 0..MaxCount : Dump!More(n) \in 0..MaxCount /\ n <= Dump!More(n)
<1>1. MaxCount \in Nat \ {0} /\ None \notin Meta /\ Torn \notin Meta
  BY AnyConnectAssumption DEF Dump!CiscoDumpAssumption, Meta
<1>2. \A a, b \in BOOLEAN, n \in 0..MaxCount :
       /\ Dump!Fields(a, b, n) \in Meta
       /\ Dump!Fields(a, b, n).captures = a /\ Dump!Fields(a, b, n).stopped = b
       /\ Dump!Fields(a, b, n).count = n
  BY DEF Dump!Fields, Meta
<1>3. \A n \in 0..MaxCount : Dump!More(n) \in 0..MaxCount /\ n <= Dump!More(n)
  BY <1>1 DEF Dump!More
<1> QED
  BY <1>1, <1>2, <1>3

\* A write that fails or is cut short leaves the metadata of one session torn, or as it was.
LEMMA TearFacts ==
  ASSUME meta \in [Sess -> {None, Torn} \cup Meta], NEW s \in Sess,
         Dump!Tear(s) \/ UNCHANGED meta
  PROVE  /\ meta' \in [Sess -> {None, Torn} \cup Meta] /\ meta'[s] \in {meta[s], Torn}
         /\ \A t \in Sess \ {s} : meta'[t] = meta[t]
  BY DEF Dump!Tear

\* A look of the monitor of one daemon adds to its count, or does not.
LEMMA CaptureStateFacts ==
  ASSUME Dump!TypeOK, NEW s \in Sess, Dump!CaptureState(s)
  PROVE  /\ snapshotCount' \in [Sess -> 0..MaxCount] /\ snapshotCount[s] <= snapshotCount'[s]
         /\ \A t \in Sess \ {s} : snapshotCount'[t] = snapshotCount[t]
<1>1. snapshotCount \in [Sess -> 0..MaxCount] /\ snapshotCount[s] \in 0..MaxCount
  BY DEF Dump!TypeOK
<1>2. PICK n \in {snapshotCount[s], Dump!More(snapshotCount[s])} :
        snapshotCount' = [snapshotCount EXCEPT ![s] = n]
  BY DEF Dump!CaptureState
<1>3. n \in 0..MaxCount /\ snapshotCount[s] <= n
  BY <1>1, MetaFacts
<1> QED
  BY <1>1, <1>2, <1>3

\* What the last snapshot of a stop makes of the metadata.
LEMMA RefreshFacts ==
  ASSUME NEW s \in Sess, meta[s] \in {None, Torn} \cup Meta
  PROVE  /\ Dump!Refresh(s) \in Meta
         /\ meta[s] \in Meta =>
              /\ Dump!Refresh(s).captures = meta[s].captures
              /\ Dump!Refresh(s).stopped = meta[s].stopped
              /\ meta[s].count <= Dump!Refresh(s).count
         /\ meta[s] \notin Meta => ~Dump!Refresh(s).captures /\ ~Dump!Refresh(s).stopped
<1>1. CASE meta[s] \in {None, Torn}
  BY <1>1, MetaFacts DEF Dump!Refresh
<1>2. CASE meta[s] \in Meta
  <2>1. Dump!Refresh(s) = [meta[s] EXCEPT !.count = Dump!More(meta[s].count)]
    BY <1>2, MetaFacts DEF Dump!Refresh
  <2>2. meta[s].count \in 0..MaxCount
    BY <1>2 DEF Meta
  <2>3. Dump!More(meta[s].count) \in 0..MaxCount /\ meta[s].count <= Dump!More(meta[s].count)
    BY <2>2, MetaFacts
  <2> QED
    BY <1>2, <2>1, <2>3 DEF Meta
<1> QED
  BY <1>1, <1>2

\* What SIGKILL to the process group of a daemon does, daemon by daemon.
LEMMA KillFacts ==
  ASSUME Dump!TypeOK, NEW s \in Sess, Dump!KillGroup(s)
  PROVE  /\ dumpAt' \in [Sess -> Dump!Live \cup {"none", "exited"}]
         /\ cap' \in [Sess -> [1..2 -> Dump!CapState]]
         /\ lost' \in [Sess -> {None, "signal", "kill", "save", "stop"}]
         /\ dumpAt[s] \in Dump!Live => dumpAt'[s] = "exited" /\ lost'[s] = "kill"
         /\ dumpAt[s] \notin Dump!Live => dumpAt'[s] = dumpAt[s] /\ lost'[s] = lost[s]
         /\ \A k \in 1..2 : cap'[s][k] = cap[s][k] \/ (cap[s][k] = "running" /\ cap'[s][k] = "ended")
         /\ \A t \in Sess \ {s} :
              dumpAt'[t] = dumpAt[t] /\ lost'[t] = lost[t] /\ cap'[t] = cap[t]
         /\ UNCHANGED <<opt, term, snapshotCount, derived>>
<1> USE DEF Dump!TypeOK, Dump!KillGroup
<1>1. /\ dumpAt' = [dumpAt EXCEPT ![s] = IF dumpAt[s] \in Dump!Live THEN "exited" ELSE dumpAt[s]]
      /\ lost' = [lost EXCEPT ![s] = IF dumpAt[s] \in Dump!Live THEN "kill" ELSE lost[s]]
  OBVIOUS
<1>2. PICK reach \in {{"direct"}, {"direct", "sudo"}} :
        cap' = [cap EXCEPT ![s] = [k \in 1..2 |->
                  IF cap[s][k] = "running" /\ opt[s].backend \in reach THEN "ended" ELSE cap[s][k]]]
  OBVIOUS
<1>3. /\ cap' \in [Sess -> [1..2 -> Dump!CapState]]
      /\ \A k \in 1..2 : cap'[s][k] = cap[s][k] \/ (cap[s][k] = "running" /\ cap'[s][k] = "ended")
      /\ \A t \in Sess \ {s} : cap'[t] = cap[t]
  <2> HIDE DEF Dump!KillGroup
  <2> QED
    BY <1>2 DEF Dump!CapState
<1> QED
  BY <1>1, <1>3

\* The options of a session are two switches and a backend.
LEMMA OptionFacts ==
  \A o \in Dump!Options : o.tcpdump \in BOOLEAN /\ o.loopback \in BOOLEAN
<1>1. \A o \in [tcpdump : {TRUE}, loopback : BOOLEAN, backend : Dump!Backend] :
        o.tcpdump \in BOOLEAN /\ o.loopback \in BOOLEAN
  OBVIOUS
<1>2. Dump!NoOpt.tcpdump \in BOOLEAN /\ Dump!NoOpt.loopback \in BOOLEAN
  BY DEF Dump!NoOpt
<1> QED
  BY <1>1, <1>2 DEF Dump!Options

\* The steps of the command keep the types.
LEMMA DumpCommandType ==
  ASSUME DumpInv,
         \/ Dump!StartLoad(Command) \/ Dump!StopLoad(Command) \/ Dump!Interrupt(Command)
         \/ Dump!StartStep(Command) \/ Dump!StopStep(Command)
  PROVE  Dump!TypeOK'
<1> USE DEF DumpInv, DumpCommandInv, Command, Dump!Goto, Dump!Ended, Dump!Step, Dump!files, Dump!daemon
<1>0. /\ dumpPc \in [{Command} -> Dump!Step] /\ current \in Sess \cup {None, Torn}
      /\ dumpCur \in [{Command} -> Sess \cup {None}] /\ dumpMine \in [{Command} -> Sess \cup {None}]
      /\ meta \in [Sess -> {None, Torn} \cup Meta]
  BY DEF Dump!TypeOK, Meta
<1>1. CASE Dump!StartLoad(Command) \/ Dump!StopLoad(Command)
  <2>1. /\ dumpCur' \in [{Command} -> Sess \cup {None}]
        /\ dumpMine' \in [{Command} -> Sess \cup {None}]
        /\ dumpPc' \in [{Command} -> Dump!Step]
    BY <1>0, <1>1 DEF Dump!StartLoad, Dump!StopLoad
  <2>2. UNCHANGED <<Dump!files, Dump!daemon>>
    BY <1>1 DEF Dump!StartLoad, Dump!StopLoad
  <2> QED
    BY <2>1, <2>2 DEF Dump!TypeOK
<1>3. CASE Dump!Interrupt(Command)
  <2>1. dumpPc' \in [{Command} -> Dump!Step] /\ UNCHANGED <<Dump!daemon, dumpCur, dumpMine>>
    BY <1>0, <1>3 DEF Dump!Interrupt
  <2>2. current' \in {current, Torn}
    BY <1>3 DEF Dump!Interrupt
  <2>3. meta' \in [Sess -> {None, Torn} \cup Meta]
    <3>1. UNCHANGED meta \/ \E s \in Sess : Dump!Tear(s)
      BY <1>0, <1>3 DEF Dump!Interrupt
    <3> QED
      BY <1>0, <3>1, TearFacts
  <2> QED
    BY <1>0, <2>1, <2>2, <2>3 DEF Dump!TypeOK, Meta
<1>4. CASE Dump!StartCheck(Command) \/ Dump!StopCheck(Command) \/ Dump!StableStart(Command)
  <2>1. current' \in {current, None} /\ UNCHANGED <<meta, Dump!daemon, dumpCur, dumpMine>>
    BY <1>4 DEF Dump!StartCheck, Dump!StopCheck, Dump!StableStart
  <2>2. dumpPc' \in [{Command} -> Dump!Step]
    BY <1>0, <1>4 DEF Dump!StartCheck, Dump!StopCheck, Dump!StableStart
  <2> QED
    BY <1>0, <2>1, <2>2 DEF Dump!TypeOK
<1>5. CASE Dump!Prepare(Command)
  BY <1>0, <1>5 DEF Dump!Prepare, Dump!TypeOK
<1>6. CASE Dump!Spawn(Command)
  <2>1. PICK s \in Sess, o \in Dump!Options :
          /\ dumpAt[s] = "none" /\ opt' = [opt EXCEPT ![s] = o]
          /\ dumpAt' = [dumpAt EXCEPT ![s] = "boot"]
          /\ dumpMine' = [dumpMine EXCEPT ![Command] = s]
    BY <1>6 DEF Dump!Spawn, Dump!Become
  <2>2. \A k \in 1..2 : cap[s][k] # "copied"
    BY <2>1 DEF CaptureInv
  <2>3. opt' \in [Sess -> Dump!Options] /\ \A t \in Sess \ {s} : opt'[t] = opt[t]
    BY <2>1 DEF Dump!TypeOK
  <2>4. \A t \in Sess, k \in 1..2 : cap'[t][k] = "copied" => opt'[t].backend = "vpn-core"
    BY <1>6, <2>2, <2>3 DEF Dump!Spawn, Dump!TypeOK
  <2>5. dumpAt' \in [Sess -> Dump!Live \cup {"none", "exited"}]
    BY <2>1 DEF Dump!TypeOK, Dump!Live
  <2>6. dumpPc' \in [{Command} -> Dump!Step] /\ dumpMine' \in [{Command} -> Sess \cup {None}]
    BY <1>0, <1>6, <2>1 DEF Dump!Spawn
  <2> QED
    BY <1>6, <2>3, <2>4, <2>5, <2>6 DEF Dump!Spawn, Dump!TypeOK
<1>7. CASE Dump!SaveMeta(Command) \/ Dump!Gone(Command)
  <2>0. Dump!Fields(FALSE, FALSE, 0) \in Meta
    BY MetaFacts
  <2>1. meta' \in [Sess -> {None, Torn} \cup Meta]
    <3>1. CASE Dump!SaveMeta(Command)
      BY <1>0, <2>0, <3>1 DEF Dump!SaveMeta, Dump!SaveMetadata
    <3>2. CASE Dump!Gone(Command)
      <4>1. current \in Sess /\ dumpCur[Command] = current
        BY <3>2 DEF Dump!Gone
      <4>2. Dump!Refresh(current) \in Meta
        BY <1>0, <4>1, RefreshFacts
      <4>3. CASE Dump!SaveMetadataFails(current) \/ UNCHANGED meta
        BY <1>0, <4>1, <4>3, TearFacts DEF Dump!SaveMetadataFails
      <4> QED
        BY <1>0, <3>2, <4>1, <4>2, <4>3 DEF Dump!Gone, Dump!SaveMetadata
    <3> QED
      BY <1>7, <3>1, <3>2
  <2>2. dumpPc' \in [{Command} -> Dump!Step]
    BY <1>0, <1>7 DEF Dump!SaveMeta, Dump!Gone
  <2>3. UNCHANGED <<current, Dump!daemon, dumpCur, dumpMine>>
    BY <1>7 DEF Dump!SaveMeta, Dump!Gone
  <2> QED
    BY <2>1, <2>2, <2>3 DEF Dump!TypeOK, Meta
<1>8. CASE Dump!SaveCurrent(Command) \/ Dump!Clear(Command) \/ Dump!PollTimeout(Command)
  <2>1. dumpPc' \in [{Command} -> Dump!Step] /\ current' \in Sess \cup {None, Torn}
    BY <1>0, <1>8 DEF Dump!SaveCurrent, Dump!Clear, Dump!PollTimeout
  <2> QED
    BY <1>8, <2>1 DEF Dump!SaveCurrent, Dump!Clear, Dump!PollTimeout, Dump!TypeOK
<1>9. CASE Dump!SaveFails(Command) \/ Dump!Kill(Command)
  <2>1. PICK s \in Sess : Dump!KillGroup(s)
    BY <1>0, <1>9 DEF Dump!SaveFails, Dump!Kill
  <2>2. dumpPc' \in [{Command} -> Dump!Step]
    BY <1>0, <1>9 DEF Dump!SaveFails, Dump!Kill
  <2>3. /\ dumpAt' \in [Sess -> Dump!Live \cup {"none", "exited"}]
        /\ cap' \in [Sess -> [1..2 -> Dump!CapState]]
        /\ lost' \in [Sess -> {None, "signal", "kill", "save", "stop"}]
        /\ \A t \in Sess, k \in 1..2 : cap'[t][k] = "copied" => cap[t][k] = "copied"
        /\ UNCHANGED <<opt, term, snapshotCount, derived>>
    BY <2>1, KillFacts
  <2>4. UNCHANGED <<dumpCur, dumpMine>> /\ current' \in {current, Torn}
    BY <1>9 DEF Dump!SaveFails, Dump!Kill
  <2>5. meta' \in [Sess -> {None, Torn} \cup Meta]
    <3>1. UNCHANGED meta \/ \E t \in Sess : Dump!Tear(t)
      BY <1>0, <1>9 DEF Dump!SaveFails, Dump!Kill, Dump!CutShort, Dump!SaveMetadataFails
    <3> QED
      BY <1>0, <3>1, TearFacts
  <2> QED
    BY <1>0, <2>2, <2>3, <2>4, <2>5 DEF Dump!TypeOK, Meta
<1>10. CASE Dump!Term(Command)
  <2>1. /\ dumpAt' \in [Sess -> Dump!Live \cup {"none", "exited"}] /\ term' \in [Sess -> BOOLEAN]
        /\ lost' \in [Sess -> {None, "signal", "kill", "save", "stop"}]
    BY <1>0, <1>10 DEF Dump!Term, Dump!Terminate, Dump!Become, Dump!TypeOK
  <2>2. dumpPc' \in [{Command} -> Dump!Step]
    BY <1>0, <1>10 DEF Dump!Term
  <2>3. meta' \in [Sess -> {None, Torn} \cup Meta]
    <3>1. UNCHANGED meta \/ \E t \in Sess : Dump!Tear(t)
      BY <1>0, <1>10 DEF Dump!Term, Dump!Terminate, Dump!CutShort
    <3> QED
      BY <1>0, <3>1, TearFacts
  <2>4. UNCHANGED <<current, dumpCur, dumpMine, opt, snapshotCount, cap, derived>>
    BY <1>10 DEF Dump!Term, Dump!Terminate
  <2> QED
    BY <2>1, <2>2, <2>3, <2>4 DEF Dump!TypeOK, Meta
<1> QED
  BY <1>1, <1>3, <1>4, <1>5, <1>6, <1>7, <1>8, <1>9, <1>10 DEF Dump!StartStep, Dump!StopStep

\* The steps of a daemon and of its captures keep the types.
LEMMA DaemonType ==
  ASSUME DumpInv, NEW s \in Sess,
         Dump!DaemonStep(s) \/ Dump!Tick(s) \/ \E k \in 1..2 : Dump!CaptureEnds(s, k)
  PROVE  Dump!TypeOK'
<1> USE DEF DumpInv, Dump!Become, Dump!files, Dump!daemon
<1>0. /\ meta \in [Sess -> {None, Torn} \cup Meta]
      /\ dumpAt \in [Sess -> Dump!Live \cup {"none", "exited"}]
      /\ cap \in [Sess -> [1..2 -> Dump!CapState]]
      /\ opt[s].backend = "vpn-core" \/ \A k \in 1..2 : cap[s][k] # "copied"
      /\ lost \in [Sess -> {None, "signal", "kill", "save", "stop"}]
  BY DEF Dump!TypeOK, Meta
<1>00. opt[s].tcpdump \in BOOLEAN
  BY OptionFacts DEF Dump!TypeOK
<1>1. CASE Dump!Boot(s) \/ Dump!NotifyContext(s) \/ Dump!Done(s) \/ Dump!LastLook(s)
  <2>1. dumpAt' \in [Sess -> Dump!Live \cup {"none", "exited"}]
    BY <1>0, <1>1
    DEF Dump!Boot, Dump!NotifyContext, Dump!Done, Dump!LastLook, Dump!Live, Dump!Handled
  <2>2. snapshotCount' \in [Sess -> 0..MaxCount]
    <3>1. CASE UNCHANGED snapshotCount
      BY <3>1 DEF Dump!TypeOK
    <3>2. CASE Dump!CaptureState(s)
      BY <3>2, CaptureStateFacts
    <3> QED
      BY <1>1, <3>1, <3>2 DEF Dump!Boot, Dump!NotifyContext, Dump!Done, Dump!LastLook
  <2> QED
    BY <1>1, <2>1, <2>2 DEF Dump!Boot, Dump!NotifyContext, Dump!Done, Dump!LastLook, Dump!TypeOK
<1>2. CASE Dump!StartCapture(s)
  <2>1. dumpAt' \in [Sess -> Dump!Live \cup {"none", "exited"}]
    BY <1>0, <1>2 DEF Dump!StartCapture, Dump!Live, Dump!Handled
  <2>2. PICK k \in 1..2 : cap' = [cap EXCEPT ![s][k] = "running"]
    <3>1. dumpAt[s] \in {"cap1", "cap2"}
      BY <1>2 DEF Dump!StartCapture
    <3>2. CASE dumpAt[s] = "cap1"
      BY <1>2, <3>2 DEF Dump!StartCapture
    <3>3. CASE dumpAt[s] = "cap2"
      BY <1>2, <3>3 DEF Dump!StartCapture
    <3> QED
      BY <3>1, <3>2, <3>3
  <2>3. /\ cap' \in [Sess -> [1..2 -> Dump!CapState]]
        /\ \A t \in Sess, j \in 1..2 : cap'[t][j] = "copied" => cap[t][j] = "copied"
    BY <1>0, <2>2 DEF Dump!CapState
  <2> QED
    BY <1>2, <2>1, <2>3 DEF Dump!StartCapture, Dump!TypeOK
<1>3. CASE Dump!StartCaptureFails(s)
  <2>1. dumpAt' \in [Sess -> Dump!Live \cup {"none", "exited"}]
    BY <1>0, <1>3 DEF Dump!StartCaptureFails
  <2>2. PICK v \in Dump!CapState : /\ cap' = [cap EXCEPT ![s][1] = v]
                                   /\ v = "copied" => opt[s].backend = "vpn-core"
    <3> DEFINE v(how) == IF cap[s][1] = "running" THEN how ELSE cap[s][1]
    <3>1. CASE \E how \in {"stopped", Dump!StoppedCapture(s)} : cap' = [cap EXCEPT ![s][1] = v(how)]
      <4>1. PICK how \in {"stopped", Dump!StoppedCapture(s)} : cap' = [cap EXCEPT ![s][1] = v(how)]
        BY <3>1
      <4>2. v(how) \in Dump!CapState /\ (v(how) = "copied" => opt[s].backend = "vpn-core")
        BY <1>0 DEF Dump!CapState, Dump!StoppedCapture
      <4> HIDE DEF v
      <4> QED
        BY <4>1, <4>2
    <3>2. CASE UNCHANGED cap
      <4>1. /\ cap' = [cap EXCEPT ![s][1] = cap[s][1]] /\ cap[s][1] \in Dump!CapState
            /\ cap[s][1] = "copied" => opt[s].backend = "vpn-core"
        BY <1>0, <3>2
      <4> QED
        BY <4>1
    <3> QED
      BY <1>3, <3>1, <3>2 DEF Dump!StartCaptureFails
  <2>3. /\ cap' \in [Sess -> [1..2 -> Dump!CapState]]
        /\ \A t \in Sess, j \in 1..2 :
             cap'[t][j] = "copied" => cap[t][j] = "copied" \/ opt[t].backend = "vpn-core"
    BY <1>0, <2>2
  <2>4. lost' \in [Sess -> {None, "signal", "kill", "save", "stop"}]
    BY <1>0, <1>3 DEF Dump!StartCaptureFails
  <2> QED
    BY <1>3, <2>1, <2>3, <2>4 DEF Dump!StartCaptureFails, Dump!TypeOK
<1>4. CASE Dump!SaveCaptures(s) \/ Dump!Tick(s) \/ Dump!Final(s)
  <2>0. snapshotCount' \in [Sess -> 0..MaxCount]
    <3>1. CASE Dump!Tick(s)
      BY <3>1, CaptureStateFacts DEF Dump!Tick
    <3>2. CASE UNCHANGED snapshotCount
      BY <3>2 DEF Dump!TypeOK
    <3> QED
      BY <1>4, <3>1, <3>2 DEF Dump!SaveCaptures, Dump!Final
  <2>1. dumpAt' \in [Sess -> Dump!Live \cup {"none", "exited"}]
    BY <1>0, <1>4 DEF Dump!SaveCaptures, Dump!Tick, Dump!Final, Dump!Live
  <2>2. meta' \in [Sess -> {None, Torn} \cup Meta]
    <3>1. snapshotCount[s] \in 0..MaxCount /\ (Dump!Tick(s) => snapshotCount'[s] \in 0..MaxCount)
      BY <2>0 DEF Dump!TypeOK
    <3>2. /\ Dump!Fields(TRUE, FALSE, 0) \in Meta
          /\ Dump!Tick(s) => Dump!Fields(opt[s].tcpdump, FALSE, snapshotCount'[s]) \in Meta
          /\ Dump!Fields(opt[s].tcpdump, TRUE, snapshotCount[s]) \in Meta
      BY <1>00, <3>1, MetaFacts
    <3>3. CASE Dump!SaveMetadataFails(s)
      BY <1>0, <3>3, TearFacts DEF Dump!SaveMetadataFails
    <3>4. CASE \E m \in Meta : Dump!SaveMetadata(s, m)
      BY <1>0, <3>4 DEF Dump!SaveMetadata
    <3> QED
      BY <1>4, <3>2, <3>3, <3>4 DEF Dump!SaveCaptures, Dump!Tick, Dump!Final
  <2>3. lost' \in [Sess -> {None, "signal", "kill", "save", "stop"}]
    BY <1>0, <1>4 DEF Dump!SaveCaptures, Dump!Tick, Dump!Final
  <2>4. UNCHANGED <<current, opt, term, cap, derived, dumpPc, dumpCur, dumpMine>>
    BY <1>4 DEF Dump!SaveCaptures, Dump!Tick, Dump!Final
  <2> QED
    BY <2>0, <2>1, <2>2, <2>3, <2>4 DEF Dump!TypeOK, Meta
<1>5. CASE Dump!StopCapture(s)
  <2>1. dumpAt' \in [Sess -> Dump!Live \cup {"none", "exited"}]
    BY <1>0, <1>5 DEF Dump!StopCapture, Dump!Live, Dump!Handled
  <2>2. PICK k \in 1..2, v \in Dump!CapState :
          /\ cap' = [cap EXCEPT ![s][k] = v]
          /\ v = "copied" => opt[s].backend = "vpn-core"
    <3> DEFINE k == IF dumpAt[s] = "stop1" THEN 1 ELSE 2
    <3>0. k \in 1..2
      OBVIOUS
    <3> DEFINE v == CASE cap[s][k] = "running" -> Dump!StoppedCapture(s)
                      [] cap[s][k] = "ended" /\ opt[s].backend # "vpn-core" -> "stopped"
                      [] OTHER -> cap[s][k]
    <3>1. CASE cap' = [cap EXCEPT ![s][k] = v]
      <4>1. cap[s][k] \in Dump!CapState /\ (cap[s][k] = "copied" => opt[s].backend = "vpn-core")
        BY <1>0, <3>0
      <4>2. v \in Dump!CapState /\ (v = "copied" => opt[s].backend = "vpn-core")
        BY <4>1 DEF Dump!CapState, Dump!StoppedCapture
      <4> HIDE DEF v, k
      <4> QED
        BY <3>0, <3>1, <4>2
    <3>2. CASE UNCHANGED cap
      <4>1. cap' = [cap EXCEPT ![s][k] = cap[s][k]] /\ cap[s][k] \in Dump!CapState
        BY <1>0, <3>0, <3>2
      <4> QED
        BY <1>0, <3>0, <4>1
    <3>3. CASE cap' = [cap EXCEPT ![s][k] = "stopped"]
      BY <3>0, <3>3 DEF Dump!CapState
    <3> QED
      BY <1>5, <3>1, <3>2, <3>3 DEF Dump!StopCapture
  <2>3. /\ cap' \in [Sess -> [1..2 -> Dump!CapState]]
        /\ \A t \in Sess, j \in 1..2 :
             cap'[t][j] = "copied" => cap[t][j] = "copied" \/ opt[t].backend = "vpn-core"
    BY <1>0, <2>2
  <2>4. lost' \in [Sess -> {None, "signal", "kill", "save", "stop"}]
    BY <1>0, <1>5 DEF Dump!StopCapture
  <2> QED
    BY <1>5, <2>1, <2>3, <2>4 DEF Dump!StopCapture, Dump!TypeOK
<1>6. CASE Dump!Analyse(s)
  <2>1. dumpAt' \in [Sess -> Dump!Live \cup {"none", "exited"}]
    BY <1>0, <1>6 DEF Dump!Analyse, Dump!Live, Dump!Handled
  <2>2. derived' \in [Sess -> {None, 1, 2}]
    BY <1>6 DEF Dump!Analyse, Dump!TypeOK, Dump!resolveOCSCPcapPath
  <2> QED
    BY <1>6, <2>1, <2>2 DEF Dump!Analyse, Dump!TypeOK
<1>7. ASSUME NEW k \in 1..2, Dump!CaptureEnds(s, k)
      PROVE  Dump!TypeOK'
  <2>1. /\ cap' \in [Sess -> [1..2 -> Dump!CapState]]
        /\ \A t \in Sess, j \in 1..2 : cap'[t][j] = "copied" => cap[t][j] = "copied"
    BY <1>0, <1>7 DEF Dump!CaptureEnds, Dump!CapState
  <2> QED
    BY <1>7, <2>1 DEF Dump!CaptureEnds, Dump!TypeOK
<1> QED
  BY <1>1, <1>2, <1>3, <1>4, <1>5, <1>6, <1>7 DEF Dump!DaemonStep

\* A step of a daemon moves that daemon only, and it gets past its comparison only when it
\* is the recorded one.
LEMMA DaemonMoves ==
  ASSUME DumpInv, NEW s \in Sess,
         Dump!DaemonStep(s) \/ Dump!Tick(s) \/ \E k \in 1..2 : Dump!CaptureEnds(s, k)
  PROVE  /\ UNCHANGED <<current, opt, term, dumpPc, dumpCur, dumpMine>>
         /\ \A t \in Sess \ {s} : dumpAt'[t] = dumpAt[t] /\ meta'[t] = meta[t] /\ derived'[t] = derived[t]
                                  /\ lost'[t] = lost[t] /\ cap'[t] = cap[t]
                                  /\ snapshotCount'[t] = snapshotCount[t]
         /\ dumpAt[s] \notin Dump!Live => dumpAt'[s] = dumpAt[s] /\ meta'[s] = meta[s]
         /\ dumpAt[s] = "boot" => /\ meta'[s] = meta[s]
                                  /\ dumpAt'[s] = "boot" \/ dumpAt'[s] = "exited" \/ current = s
         /\ dumpAt[s] # "none" => dumpAt'[s] # "none"
         /\ snapshotCount[s] <= snapshotCount'[s]
         /\ dumpAt'[s] \in Early => dumpAt[s] \in Early /\ snapshotCount'[s] = snapshotCount[s]
<1>0. snapshotCount[s] <= snapshotCount[s]
  <2>1. snapshotCount[s] \in 0..MaxCount
    BY DEF DumpInv, Dump!TypeOK
  <2> QED
    BY <2>1
<1> USE DEF DumpInv, Dump!TypeOK, Dump!Become, Dump!files, Dump!daemon, Dump!Live, Dump!Handled, Early
<1>1. CASE Dump!Boot(s)
  BY <1>0, <1>1 DEF Dump!Boot
<1>2. CASE Dump!Done(s) \/ Dump!Analyse(s)
  BY <1>0, <1>2 DEF Dump!Done, Dump!Analyse
<1>3. CASE Dump!StartCapture(s)
  BY <1>0, <1>3 DEF Dump!StartCapture
<1>4. CASE Dump!StartCaptureFails(s)
  BY <1>0, <1>4 DEF Dump!StartCaptureFails
<1>5. CASE Dump!SaveCaptures(s) \/ Dump!Final(s)
  BY <1>0, <1>5 DEF Dump!SaveCaptures, Dump!Final, Dump!SaveMetadata, Dump!SaveMetadataFails, Dump!Tear
<1>6. CASE Dump!StopCapture(s)
  BY <1>0, <1>6 DEF Dump!StopCapture
<1>7. ASSUME NEW k \in 1..2, Dump!CaptureEnds(s, k)
      PROVE  UNCHANGED <<current, meta, opt, dumpAt, term, snapshotCount, derived, lost, dumpPc,
                         dumpCur, dumpMine>>
             /\ \A t \in Sess \ {s} : cap'[t] = cap[t]
  BY <1>7 DEF Dump!CaptureEnds
<1>8. CASE Dump!NotifyContext(s) \/ Dump!LastLook(s)
  <2>1. Dump!CaptureState(s)
    BY <1>8 DEF Dump!NotifyContext, Dump!LastLook
  <2> QED
    BY <1>8, <2>1, CaptureStateFacts DEF Dump!NotifyContext, Dump!LastLook
<1>9. CASE Dump!Tick(s)
  <2>1. Dump!CaptureState(s)
    BY <1>9 DEF Dump!Tick
  <2>2. \A t \in Sess \ {s} : meta'[t] = meta[t]
    BY <1>9 DEF Dump!Tick, Dump!SaveMetadata, Dump!SaveMetadataFails, Dump!Tear
  <2> QED
    BY <1>9, <2>1, <2>2, CaptureStateFacts DEF Dump!Tick
<1> QED
  BY <1>0, <1>1, <1>2, <1>3, <1>4, <1>5, <1>6, <1>7, <1>8, <1>9 DEF Dump!DaemonStep

\* The recorded daemon and what the command knows, through the steps of a daemon.
LEMMA RecordDaemonStep ==
  ASSUME DumpInv, NEW s \in Sess,
         Dump!DaemonStep(s) \/ Dump!Tick(s) \/ \E k \in 1..2 : Dump!CaptureEnds(s, k)
  PROVE  RecordedInv' /\ DumpCommandInv'
<1>1. RecordedInv'
  BY DaemonMoves DEF DumpInv, RecordedInv, Dump!Live, Dump!Handled
<1>2. None \notin Sess
  BY AnyConnectAssumption DEF Dump!CiscoDumpAssumption
<1>3. dumpPc[Command] = "clear" => dumpAt'[dumpCur[Command]] \notin Dump!Live
  BY DaemonMoves DEF DumpInv, DumpCommandInv
<1>4. dumpPc[Command] = "saveMeta" =>
        /\ dumpAt'[dumpMine[Command]] \in {"boot", "exited"}
        /\ meta'[dumpMine[Command]] = None
  <2> SUFFICES ASSUME dumpPc[Command] = "saveMeta"
               PROVE  /\ dumpAt'[dumpMine[Command]] \in {"boot", "exited"}
                      /\ meta'[dumpMine[Command]] = None
    OBVIOUS
  <2>1. CASE s = dumpMine[Command]
    BY <1>2, <2>1, DaemonMoves DEF DumpInv, DumpCommandInv, Dump!Live, Dump!Handled
  <2>2. CASE s # dumpMine[Command]
    BY <2>2, DaemonMoves DEF DumpInv, DumpCommandInv
  <2> QED
    BY <2>1, <2>2
<1> QED
  BY <1>1, <1>3, <1>4, DaemonMoves DEF DumpInv, DumpCommandInv

\* No step makes a launched session one that was not.
LEMMA KnownDaemonStep ==
  ASSUME DumpInv, NEW s \in Sess,
         Dump!DaemonStep(s) \/ Dump!Tick(s) \/ \E k \in 1..2 : Dump!CaptureEnds(s, k)
  PROVE  KnownInv'
<1>1. \A t \in Sess : dumpAt[t] # "none" => dumpAt'[t] # "none"
  BY DaemonMoves
<1>2. current \in Sess \cup {None, Torn} /\ dumpMine[Command] \in Sess \cup {None}
  BY DEF DumpInv, Dump!TypeOK, Command
<1> QED
  BY <1>1, <1>2, DaemonMoves DEF DumpInv, KnownInv

LEMMA KnownCommandStep ==
  ASSUME DumpInv,
         \/ Dump!StartLoad(Command) \/ Dump!StopLoad(Command) \/ Dump!Interrupt(Command)
         \/ Dump!StartStep(Command) \/ Dump!StopStep(Command)
  PROVE  KnownInv'
<1>0. /\ current \in Sess \cup {None, Torn} /\ dumpMine \in [{Command} -> Sess \cup {None}]
      /\ dumpAt \in [Sess -> Dump!Live \cup {"none", "exited"}]
      /\ None \notin Sess /\ Torn \notin Sess
  BY AnyConnectAssumption DEF DumpInv, Dump!TypeOK, Command, Dump!CiscoDumpAssumption
<1>1. CASE Dump!Spawn(Command)
  <2>1. PICK s \in Sess : /\ dumpAt' = [dumpAt EXCEPT ![s] = "boot"]
                          /\ dumpMine' = [dumpMine EXCEPT ![Command] = s]
    BY <1>1 DEF Dump!Spawn, Dump!Become
  <2>2. UNCHANGED current
    BY <1>1 DEF Dump!Spawn, Dump!files
  <2> QED
    BY <1>0, <2>1, <2>2 DEF DumpInv, KnownInv
<1>2. CASE Dump!SaveFails(Command) \/ Dump!Kill(Command)
  <2>1. PICK s \in Sess : Dump!KillGroup(s)
    BY <1>2 DEF Dump!SaveFails, Dump!Kill, DumpInv, DumpCommandInv
  <2>2. \A t \in Sess : dumpAt'[t] \in {dumpAt[t], "exited"}
    BY <2>1, KillFacts DEF DumpInv
  <2>3. UNCHANGED dumpMine /\ current' \in {current, Torn}
    BY <1>2 DEF Dump!SaveFails, Dump!Kill
  <2> QED
    BY <1>0, <2>2, <2>3 DEF DumpInv, KnownInv, Command
<1>3. CASE Dump!Term(Command)
  <2>1. \A t \in Sess : dumpAt'[t] \in {dumpAt[t], "exited"}
    BY <1>0, <1>3 DEF Dump!Term, Dump!Terminate, Dump!Become
  <2>2. UNCHANGED <<current, dumpMine>>
    BY <1>3 DEF Dump!Term, Dump!files
  <2> QED
    BY <1>0, <2>1, <2>2 DEF DumpInv, KnownInv, Command
<1>4. CASE /\ UNCHANGED dumpAt
           /\ current' \in {current, dumpMine[Command], None, Torn}
           /\ dumpMine' \in {dumpMine, [dumpMine EXCEPT ![Command] = None]}
  BY <1>0, <1>4 DEF DumpInv, KnownInv, Command
<1> QED
  BY <1>1, <1>2, <1>3, <1>4
  DEF Dump!StartStep, Dump!StopStep, Dump!StartLoad, Dump!StopLoad, Dump!Interrupt, Dump!StartCheck,
      Dump!Prepare, Dump!SaveMeta, Dump!SaveCurrent, Dump!StableStart, Dump!StopCheck,
      Dump!Gone, Dump!PollTimeout, Dump!Clear, Dump!files, Dump!daemon

\* The same, through the steps of the command: the record is cleared only when no daemon
\* has got past its comparison.
LEMMA RecordCommandStep ==
  ASSUME DumpInv,
         \/ Dump!StartLoad(Command) \/ Dump!StopLoad(Command) \/ Dump!Interrupt(Command)
         \/ Dump!StartStep(Command) \/ Dump!StopStep(Command)
  PROVE  RecordedInv' /\ DumpCommandInv'
<1> USE DEF DumpInv, DumpCommandInv, RecordedInv, Command, Dump!Goto, Dump!Ended,
            Dump!files, Dump!daemon
<1>0. /\ dumpPc \in [{Command} -> Dump!Step] /\ current \in Sess \cup {None, Torn}
      /\ None \notin Sess /\ Torn \notin Sess /\ None # Torn
      /\ dumpCur \in [{Command} -> Sess \cup {None}] /\ dumpMine \in [{Command} -> Sess \cup {None}]
      /\ meta \in [Sess -> {None, Torn} \cup Meta]
  BY AnyConnectAssumption DEF Dump!TypeOK, Dump!CiscoDumpAssumption, Meta
<1>1. CASE Dump!StartLoad(Command)
  BY <1>0, <1>1 DEF Dump!StartLoad
<1>2. CASE Dump!StopLoad(Command)
  BY <1>0, <1>2 DEF Dump!StopLoad
<1>3. CASE Dump!Interrupt(Command)
  <2>1. dumpPc'[Command] = "failed" /\ UNCHANGED <<dumpAt, dumpCur, dumpMine>>
    BY <1>0, <1>3 DEF Dump!Interrupt
  <2>2. CASE UNCHANGED current
    BY <2>1, <2>2
  <2>3. CASE dumpPc[Command] = "saveCurrent"
    BY <1>0, <2>1, <2>3
  <2> QED
    BY <1>3, <2>2, <2>3 DEF Dump!Interrupt
<1>4. CASE Dump!StartCheck(Command)
  BY <1>0, <1>4 DEF Dump!StartCheck, Dump!SessionAlive
<1>5. CASE Dump!StopCheck(Command)
  BY <1>0, <1>5 DEF Dump!StopCheck, Dump!SessionAlive
<1>6. CASE Dump!StableStart(Command)
  BY <1>0, <1>6 DEF Dump!StableStart, Dump!SessionAlive
<1>7. CASE Dump!Prepare(Command)
  BY <1>0, <1>7 DEF Dump!Prepare
<1>8. CASE Dump!Spawn(Command)
  BY <1>0, <1>8 DEF Dump!Spawn, Dump!Become, Dump!TypeOK, MetadataInv, Dump!Live, Dump!Handled
<1>9. CASE Dump!SaveMeta(Command)
  BY <1>0, <1>9 DEF Dump!SaveMeta, Dump!SaveMetadata
<1>10. CASE Dump!SaveCurrent(Command)
  <2>1. \A s \in Sess : dumpAt[s] \notin Dump!Live \ {"boot"}
    BY <1>0, <1>10 DEF Dump!SaveCurrent
  <2> QED
    BY <1>0, <1>10, <2>1 DEF Dump!SaveCurrent
<1>11. CASE Dump!SaveFails(Command)
  <2>1. dumpMine[Command] \in Sess /\ Dump!KillGroup(dumpMine[Command])
    BY <1>0, <1>11 DEF Dump!SaveFails
  <2>2. \A t \in Sess : dumpAt'[t] \in {dumpAt[t], "exited"}
    BY <2>1, KillFacts
  <2> QED
    BY <1>0, <1>11, <2>2 DEF Dump!SaveFails, Dump!Live, Dump!Handled
<1>12. CASE Dump!Kill(Command)
  <2>1. dumpCur[Command] \in Sess /\ Dump!KillGroup(dumpCur[Command])
    BY <1>0, <1>12 DEF Dump!Kill
  <2>2. \A t \in Sess : dumpAt'[t] \in {dumpAt[t], "exited"}
    BY <2>1, KillFacts
  <2> QED
    BY <1>0, <1>12, <2>2 DEF Dump!Kill, Dump!Live, Dump!Handled
<1>13. CASE Dump!Term(Command)
  <2>2. \A t \in Sess : dumpAt'[t] \in {dumpAt[t], "exited"}
    BY <1>13 DEF Dump!Term, Dump!Terminate, Dump!Become, Dump!TypeOK
  <2> QED
    BY <1>0, <1>13, <2>2 DEF Dump!Term, Dump!Live, Dump!Handled
<1>14. CASE Dump!Gone(Command)
  BY <1>0, <1>14 DEF Dump!Gone, Dump!SessionAlive
<1>15. CASE Dump!PollTimeout(Command)
  BY <1>0, <1>15 DEF Dump!PollTimeout
<1>16. CASE Dump!Clear(Command)
  BY <1>0, <1>16 DEF Dump!Clear
<1> QED
  BY <1>1, <1>2, <1>3, <1>4, <1>5, <1>6, <1>7, <1>8, <1>9, <1>10, <1>11, <1>12, <1>13, <1>14,
     <1>15, <1>16 DEF Dump!StartStep, Dump!StopStep

\* What is said of the captures, the metadata and the analysis of one session.
SessionInv(s) ==
  /\ dumpAt[s] \in {"none", "boot", "cap1"} => cap[s][1] = "none"
  /\ dumpAt[s] \in {"none", "boot", "cap1", "cap2"} => cap[s][2] = "none"
  /\ dumpAt[s] \in {"cap1", "cap2", "saveCaps"} => opt[s].tcpdump
  /\ ~opt[s].tcpdump => cap[s][1] = "none"
  /\ 2 \notin Dump!Captures(s) /\ dumpAt[s] # "cap2" => cap[s][2] = "none"
  /\ dumpAt[s] = "cap2" => 2 \in Dump!Captures(s)
  /\ dumpAt[s] \in {"stop2", "analyse", "final"} => cap[s][1] # "running" \/ lost[s] = "stop"
  /\ dumpAt[s] \in {"analyse", "final"} => cap[s][2] # "running" \/ lost[s] = "stop"
  /\ derived[s] # None => dumpAt[s] \in {"final", "exited"}
  /\ \A k \in 1..2 : cap[s][k] = "running" => dumpAt[s] \in Dump!Live \/ lost[s] # None
  /\ derived[s] # None => /\ derived[s] = 1 <=> opt[s].loopback
                          /\ cap[s][derived[s]] = "running" => lost[s] \in {"stop", "kill"}

LEMMA SessionInvIs ==
  (\A s \in Sess : SessionInv(s))
    <=> CaptureInv /\ DerivedInv /\ Dump!CapturesOwned /\ Dump!OcscFromLoopback
  BY DEF SessionInv, CaptureInv, DerivedInv, Dump!CapturesOwned, Dump!OcscFromLoopback

\* A daemon's step keeps it for that daemon.
LEMMA SessionDaemonStep ==
  ASSUME DumpInv, NEW s \in Sess,
         Dump!DaemonStep(s) \/ Dump!Tick(s) \/ \E k \in 1..2 : Dump!CaptureEnds(s, k)
  PROVE  SessionInv(s)'
<1>0. SessionInv(s)
  BY SessionInvIs DEF DumpInv
<1>1. /\ dumpAt \in [Sess -> Dump!Live \cup {"none", "exited"}]
      /\ cap \in [Sess -> [1..2 -> Dump!CapState]] /\ derived \in [Sess -> {None, 1, 2}]
      /\ lost \in [Sess -> {None, "signal", "kill", "save", "stop"}]
      /\ opt[s].tcpdump \in BOOLEAN /\ opt[s].loopback \in BOOLEAN
      /\ None \notin {1, 2, "signal", "kill", "save", "stop"}
  BY AnyConnectAssumption, OptionFacts DEF DumpInv, Dump!TypeOK, Dump!CiscoDumpAssumption
<1> USE DEF SessionInv, Dump!Become, Dump!files, Dump!daemon, Dump!Live, Dump!Handled,
            Dump!Captures, Dump!shouldStartOCSCLoopbackCapture
<1>2. CASE Dump!Boot(s)
  BY <1>0, <1>1, <1>2 DEF Dump!Boot
<1>3. CASE Dump!NotifyContext(s) \/ Dump!Done(s) \/ Dump!LastLook(s)
  BY <1>0, <1>1, <1>3 DEF Dump!NotifyContext, Dump!Done, Dump!LastLook
<1>4. CASE Dump!StartCapture(s)
  BY <1>0, <1>1, <1>4 DEF Dump!StartCapture
<1>5. CASE Dump!StartCaptureFails(s)
  BY <1>0, <1>1, <1>5 DEF Dump!StartCaptureFails, Dump!StoppedCapture
<1>6. CASE Dump!SaveCaptures(s)
  BY <1>0, <1>1, <1>6 DEF Dump!SaveCaptures
<1>7. CASE Dump!Tick(s)
  BY <1>0, <1>1, <1>7 DEF Dump!Tick
<1>8. CASE Dump!Final(s)
  BY <1>0, <1>1, <1>8 DEF Dump!Final
<1>9. CASE Dump!StopCapture(s)
  <2>1. CASE dumpAt[s] = "stop1"
    BY <1>0, <1>1, <1>9, <2>1 DEF Dump!StopCapture, Dump!StoppedCapture
  <2>2. CASE dumpAt[s] = "stop2"
    BY <1>0, <1>1, <1>9, <2>2 DEF Dump!StopCapture, Dump!StoppedCapture
  <2> QED
    BY <1>9, <2>1, <2>2 DEF Dump!StopCapture
<1>10. CASE Dump!Analyse(s)
  BY <1>0, <1>1, <1>10 DEF Dump!Analyse, Dump!resolveOCSCPcapPath
<1>11. ASSUME NEW k \in 1..2, Dump!CaptureEnds(s, k)
       PROVE  SessionInv(s)'
  BY <1>0, <1>1, <1>11 DEF Dump!CaptureEnds
<1> QED
  BY <1>2, <1>3, <1>4, <1>5, <1>6, <1>7, <1>8, <1>9, <1>10, <1>11 DEF Dump!DaemonStep

\* A step of the command keeps it for every daemon.
LEMMA SessionCommandStep ==
  ASSUME DumpInv,
         \/ Dump!StartLoad(Command) \/ Dump!StopLoad(Command) \/ Dump!Interrupt(Command)
         \/ Dump!StartStep(Command) \/ Dump!StopStep(Command),
         NEW t \in Sess
  PROVE  SessionInv(t)'
<1>0. SessionInv(t)
  BY SessionInvIs DEF DumpInv
<1>1. /\ dumpAt \in [Sess -> Dump!Live \cup {"none", "exited"}]
      /\ cap \in [Sess -> [1..2 -> Dump!CapState]] /\ derived \in [Sess -> {None, 1, 2}]
      /\ lost \in [Sess -> {None, "signal", "kill", "save", "stop"}]
      /\ None \notin {1, 2, "signal", "kill", "save", "stop"}
      /\ opt \in [Sess -> Dump!Options]
      /\ dumpCur \in [{Command} -> Sess \cup {None}] /\ dumpMine \in [{Command} -> Sess \cup {None}]
  BY AnyConnectAssumption DEF DumpInv, Dump!TypeOK, Dump!CiscoDumpAssumption, Command
<1>2. CASE UNCHANGED <<opt, dumpAt, cap, derived, lost>>
  BY <1>0, <1>2 DEF SessionInv, Dump!Captures, Dump!shouldStartOCSCLoopbackCapture
<1>3. CASE Dump!Spawn(Command)
  <2>1. PICK s \in Sess, o \in Dump!Options :
          /\ dumpAt[s] = "none" /\ opt' = [opt EXCEPT ![s] = o]
          /\ dumpAt' = [dumpAt EXCEPT ![s] = "boot"]
    BY <1>3 DEF Dump!Spawn, Dump!Become
  <2>2. UNCHANGED <<cap, derived, lost>>
    BY <1>3 DEF Dump!Spawn
  <2> QED
    BY <1>0, <1>1, <2>1, <2>2 DEF SessionInv, Dump!Captures, Dump!shouldStartOCSCLoopbackCapture,
       Dump!Live, Dump!Handled
<1>4. CASE Dump!SaveFails(Command) \/ Dump!Kill(Command)
  <2>1. PICK s \in Sess : Dump!KillGroup(s)
    BY <1>1, <1>4 DEF Dump!SaveFails, Dump!Kill, DumpInv, DumpCommandInv
  <2>2. CASE t = s
    <3>1. /\ dumpAt[t] \in Dump!Live => dumpAt'[t] = "exited" /\ lost'[t] = "kill"
          /\ dumpAt[t] \notin Dump!Live => dumpAt'[t] = dumpAt[t] /\ lost'[t] = lost[t]
          /\ \A k \in 1..2 :
               cap'[t][k] = cap[t][k] \/ (cap[t][k] = "running" /\ cap'[t][k] = "ended")
          /\ UNCHANGED <<opt, derived>>
      BY <2>1, <2>2, KillFacts DEF DumpInv
    <3> QED
      BY <1>0, <1>1, <3>1 DEF SessionInv, Dump!Captures, Dump!shouldStartOCSCLoopbackCapture,
         Dump!Live, Dump!Handled
  <2>3. CASE t # s
    <3>1. /\ dumpAt'[t] = dumpAt[t] /\ lost'[t] = lost[t] /\ cap'[t] = cap[t]
          /\ UNCHANGED <<opt, derived>>
      BY <2>1, <2>3, KillFacts DEF DumpInv
    <3> QED
      BY <1>0, <3>1 DEF SessionInv, Dump!Captures, Dump!shouldStartOCSCLoopbackCapture
  <2> QED
    BY <2>2, <2>3
<1>5. CASE Dump!Term(Command)
  BY <1>0, <1>1, <1>5 DEF Dump!Term, Dump!Terminate, Dump!Become, SessionInv, Dump!Captures,
     Dump!shouldStartOCSCLoopbackCapture, Dump!Live, Dump!Handled
<1> QED
  BY <1>2, <1>3, <1>4, <1>5
  DEF Dump!StartStep, Dump!StopStep, Dump!StartLoad, Dump!StopLoad, Dump!Interrupt, Dump!StartCheck,
      Dump!Prepare, Dump!SaveMeta, Dump!SaveCurrent, Dump!StableStart, Dump!StopCheck,
      Dump!Gone, Dump!PollTimeout, Dump!Clear, Dump!files, Dump!daemon

\* What a write of the metadata may not take back.
Kept(s) ==
  meta[s] \notin {None, Torn} /\ meta'[s] # Torn =>
    /\ meta[s].captures => meta'[s].captures
    /\ meta[s].stopped => meta'[s].stopped
    /\ meta[s].count <= meta'[s].count

\* A daemon's writes say what it has done, and keep what was said.
LEMMA MetadataDaemonStep ==
  ASSUME DumpInv, NEW s \in Sess,
         Dump!DaemonStep(s) \/ Dump!Tick(s) \/ \E k \in 1..2 : Dump!CaptureEnds(s, k)
  PROVE  MetadataInv' /\ \A t \in Sess : Kept(t)
<1>0. /\ meta \in [Sess -> {None, Torn} \cup Meta] /\ opt[s].tcpdump \in BOOLEAN
      /\ snapshotCount \in [Sess -> 0..MaxCount] /\ snapshotCount' \in [Sess -> 0..MaxCount]
      /\ dumpAt[s] \in Dump!Live \cup {"none", "exited"}
  <2>1. Dump!TypeOK'
    BY DaemonType
  <2> QED
    BY <2>1, OptionFacts DEF DumpInv, Dump!TypeOK, Meta
<1>00. \A t \in Sess : meta[t] \notin {None, Torn} => meta[t] \in Meta /\ meta[t].count \in 0..MaxCount
  BY <1>0 DEF Meta
<1>1. UNCHANGED opt
  BY DaemonMoves
<1>2. \A t \in Sess \ {s} : /\ meta'[t] = meta[t] /\ dumpAt'[t] = dumpAt[t]
                            /\ snapshotCount'[t] = snapshotCount[t]
  BY DaemonMoves
<1>3. /\ dumpAt[s] = "none" => dumpAt'[s] = "none" /\ meta'[s] = meta[s]
      /\ dumpAt[s] = "exited" => dumpAt'[s] = "exited"
      /\ dumpAt[s] # "none" => dumpAt'[s] # "none"
      /\ snapshotCount[s] <= snapshotCount'[s]
      /\ dumpAt'[s] \in Early => dumpAt[s] \in Early /\ snapshotCount'[s] = snapshotCount[s]
  BY DaemonMoves DEF Dump!Live, Dump!Handled
<1>4. CASE meta'[s] \in {meta[s], Torn}
  <2>1. MetadataInv'
    <3>1. /\ dumpAt'[s] = "none" => meta'[s] = None
          /\ meta'[s] \notin {None, Torn} =>
               /\ meta'[s].captures => opt'[s].tcpdump
               /\ meta'[s].stopped => dumpAt'[s] = "exited"
               /\ dumpAt'[s] \in Dump!Live => meta'[s].count <= snapshotCount'[s]
          /\ dumpAt'[s] \in Early => snapshotCount'[s] = 0
      <4>1. dumpAt'[s] \in Early => snapshotCount'[s] = 0
        BY <1>3 DEF DumpInv, MetadataInv
      <4>2. dumpAt'[s] = "none" => meta'[s] = None
        BY <1>3 DEF DumpInv, MetadataInv
      <4>3. ASSUME meta'[s] \notin {None, Torn}
            PROVE  /\ meta'[s].captures => opt'[s].tcpdump
                   /\ meta'[s].stopped => dumpAt'[s] = "exited"
        BY <1>1, <1>3, <1>4, <4>3 DEF DumpInv, MetadataInv
      <4>4. ASSUME meta'[s] \notin {None, Torn}, dumpAt'[s] \in Dump!Live
            PROVE  meta'[s].count <= snapshotCount'[s]
        <5>1. meta[s] \in Meta /\ meta[s].count \in 0..MaxCount /\ meta'[s] = meta[s]
          BY <1>00, <1>4, <4>4
        <5>2. dumpAt[s] \in Dump!Live
          BY <1>0, <1>3, <4>4 DEF Dump!Live, Dump!Handled
        <5>3. meta[s].count <= snapshotCount[s]
          BY <4>4, <5>1, <5>2 DEF DumpInv, MetadataInv
        <5> QED
          BY <1>0, <1>3, <5>1, <5>3
      <4> QED
        BY <4>1, <4>2, <4>3, <4>4
    <3> QED
      BY <1>1, <1>2, <3>1 DEF DumpInv, MetadataInv
  <2>2. \A t \in Sess : Kept(t)
    BY <1>00, <1>2, <1>4 DEF Kept
  <2> QED
    BY <2>1, <2>2
<1>5. ASSUME NEW a \in BOOLEAN, NEW b \in BOOLEAN, NEW n \in 0..MaxCount,
             Dump!SaveMetadata(s, Dump!Fields(a, b, n)),
             dumpAt[s] \in Dump!Live,
             a = opt[s].tcpdump, snapshotCount[s] <= n, n <= snapshotCount'[s],
             b => dumpAt'[s] = "exited"
      PROVE  MetadataInv' /\ \A t \in Sess : Kept(t)
  <2>1. /\ meta'[s] \in Meta /\ meta'[s] \notin {None, Torn}
        /\ meta'[s].captures = a /\ meta'[s].stopped = b /\ meta'[s].count = n
    BY <1>0, <1>5, MetaFacts DEF Dump!SaveMetadata
  <2>2. dumpAt'[s] # "none"
    BY <1>3, <1>5 DEF Dump!Live, Dump!Handled
  <2>3. MetadataInv'
    BY <1>1, <1>2, <1>3, <1>5, <2>1, <2>2 DEF DumpInv, MetadataInv
  <2>4. Kept(s)
    <3> SUFFICES ASSUME meta[s] \notin {None, Torn} PROVE Kept(s)
      BY DEF Kept
    <3>1. meta[s] \in Meta /\ meta[s].count \in 0..MaxCount /\ snapshotCount[s] \in 0..MaxCount
      BY <1>0, <1>00
    <3>2. meta[s].count <= snapshotCount[s] /\ (meta[s].captures => a) /\ ~meta[s].stopped
      BY <1>5 DEF DumpInv, MetadataInv, Dump!Live, Dump!Handled
    <3>3. meta[s].count <= n
      BY <1>5, <3>1, <3>2
    <3> QED
      BY <2>1, <3>2, <3>3 DEF Kept
  <2>5. \A t \in Sess \ {s} : Kept(t)
    BY <1>00, <1>2 DEF Kept
  <2> QED
    BY <2>3, <2>4, <2>5
<1>6. CASE Dump!SaveMetadataFails(s)
  BY <1>0, <1>4, <1>6, TearFacts DEF Dump!SaveMetadataFails
<1>7. CASE Dump!SaveCaptures(s)
  <2>1. opt[s].tcpdump = TRUE /\ dumpAt[s] \in Dump!Live /\ snapshotCount[s] = 0
    BY <1>0, <1>7 DEF Dump!SaveCaptures, DumpInv, CaptureInv, MetadataInv, Early, Dump!Live, Dump!Handled
  <2>2. 0 \in 0..MaxCount /\ snapshotCount[s] <= 0 /\ 0 <= snapshotCount'[s]
    BY <1>0, <2>1, MetaFacts
  <2>3. CASE Dump!SaveMetadata(s, Dump!Fields(TRUE, FALSE, 0))
    BY <1>5, <2>1, <2>2, <2>3
  <2> QED
    BY <1>6, <1>7, <2>3 DEF Dump!SaveCaptures
<1>8. CASE Dump!Tick(s)
  <2>1. dumpAt[s] \in Dump!Live /\ snapshotCount[s] \in 0..MaxCount /\ snapshotCount'[s] \in 0..MaxCount
    BY <1>0, <1>8 DEF Dump!Tick, Dump!Live, Dump!Handled
  <2>2. PICK n \in 0..MaxCount : n = snapshotCount'[s] /\ snapshotCount[s] <= n /\ n <= snapshotCount'[s]
    BY <1>3, <2>1
  <2>3. CASE Dump!SaveMetadata(s, Dump!Fields(opt[s].tcpdump, FALSE, snapshotCount'[s]))
    BY <1>0, <1>5, <2>1, <2>2, <2>3
  <2> QED
    BY <1>6, <1>8, <2>3 DEF Dump!Tick
<1>9. CASE Dump!Final(s)
  <2>1. /\ dumpAt[s] \in Dump!Live /\ dumpAt'[s] = "exited" /\ snapshotCount[s] \in 0..MaxCount
        /\ UNCHANGED snapshotCount
    BY <1>0, <1>9 DEF Dump!Final, Dump!Become, DumpInv, Dump!TypeOK, Dump!Live, Dump!Handled
  <2>2. snapshotCount[s] <= snapshotCount[s] /\ snapshotCount[s] <= snapshotCount'[s]
    BY <2>1
  <2>3. CASE Dump!SaveMetadata(s, Dump!Fields(opt[s].tcpdump, TRUE, snapshotCount[s]))
    BY <1>0, <1>5, <2>1, <2>2, <2>3
  <2> QED
    BY <1>6, <1>9, <2>3 DEF Dump!Final
<1>10. CASE UNCHANGED meta
  BY <1>4, <1>10
<1> QED
  BY <1>7, <1>8, <1>9, <1>10
  DEF Dump!DaemonStep, Dump!Boot, Dump!StartCapture, Dump!StartCaptureFails, Dump!NotifyContext, Dump!Done,
      Dump!LastLook, Dump!StopCapture, Dump!Analyse, Dump!CaptureEnds, Dump!files

\* The command writes metadata before the daemon does, and after it has ended.
LEMMA MetadataCommandStep ==
  ASSUME DumpInv,
         \/ Dump!StartLoad(Command) \/ Dump!StopLoad(Command) \/ Dump!Interrupt(Command)
         \/ Dump!StartStep(Command) \/ Dump!StopStep(Command)
  PROVE  MetadataInv' /\ \A t \in Sess : Kept(t)
<1>0. /\ meta \in [Sess -> {None, Torn} \cup Meta]
      /\ dumpAt \in [Sess -> Dump!Live \cup {"none", "exited"}]
      /\ snapshotCount \in [Sess -> 0..MaxCount] /\ None \notin Sess /\ None # Torn
  BY AnyConnectAssumption DEF DumpInv, Dump!TypeOK, Dump!CiscoDumpAssumption, Meta
<1>00. \A t \in Sess : meta[t] \notin {None, Torn} => meta[t] \in Meta /\ meta[t].count \in 0..MaxCount
  BY <1>0 DEF Meta
\* The session that the command works on has been launched; a stop has seen it end.
<1>k. /\ dumpPc[Command] \in {"saveMeta", "saveCurrent"} =>
           dumpMine[Command] \in Sess /\ dumpAt[dumpMine[Command]] # "none"
      /\ dumpPc[Command] \in {"term", "poll", "kill", "pollKilled"} =>
           dumpCur[Command] \in Sess /\ dumpAt[dumpCur[Command]] # "none"
  BY <1>0 DEF DumpInv, DumpCommandInv, KnownInv
\* Daemons only end, and metadata only tears, that of launched sessions.
<1>t. ASSUME UNCHANGED <<opt, snapshotCount>>,
             \A t \in Sess : dumpAt'[t] = dumpAt[t] \/ (dumpAt[t] # "none" /\ dumpAt'[t] = "exited"),
             \A t \in Sess : meta'[t] = meta[t] \/ (dumpAt[t] # "none" /\ meta'[t] = Torn)
      PROVE  MetadataInv' /\ \A t \in Sess : Kept(t)
  <2>1. MetadataInv'
    BY <1>t DEF DumpInv, MetadataInv, Dump!Live, Dump!Handled, Early
  <2>2. \A t \in Sess : Kept(t)
    BY <1>00, <1>t DEF Kept
  <2> QED
    BY <2>1, <2>2
<1>1. CASE UNCHANGED <<meta, opt, dumpAt, snapshotCount>>
  BY <1>t, <1>1
<1>2. CASE Dump!Spawn(Command)
  <2>1. PICK s \in Sess, o \in Dump!Options :
          /\ dumpAt[s] = "none" /\ opt' = [opt EXCEPT ![s] = o]
          /\ dumpAt' = [dumpAt EXCEPT ![s] = "boot"]
    BY <1>2 DEF Dump!Spawn, Dump!Become
  <2>2. UNCHANGED <<meta, snapshotCount>>
    BY <1>2 DEF Dump!Spawn, Dump!files
  <2>3. MetadataInv'
    BY <2>1, <2>2 DEF DumpInv, MetadataInv, Dump!TypeOK, Early
  <2>4. \A t \in Sess : Kept(t)
    BY <1>00, <2>2 DEF Kept
  <2> QED
    BY <2>3, <2>4
<1>3. CASE Dump!SaveMeta(Command)
  <2> DEFINE s == dumpMine[Command]
  <2>1. /\ s \in Sess /\ meta[s] = None /\ dumpAt[s] \in {"boot", "exited"}
        /\ meta' = [meta EXCEPT ![s] = Dump!Fields(FALSE, FALSE, 0)]
        /\ UNCHANGED <<opt, dumpAt, snapshotCount>>
    BY <1>3 DEF Dump!SaveMeta, Dump!SaveMetadata, DumpInv, DumpCommandInv, Dump!daemon
  <2> HIDE DEF s
  <2>2. /\ ~Dump!Fields(FALSE, FALSE, 0).captures /\ ~Dump!Fields(FALSE, FALSE, 0).stopped
        /\ Dump!Fields(FALSE, FALSE, 0).count = 0 /\ 0 <= snapshotCount[s]
    <3>1. snapshotCount[s] \in 0..MaxCount
      BY <1>0, <2>1
    <3>2. 0 <= snapshotCount[s]
      BY <3>1
    <3>3. FALSE \in BOOLEAN /\ 0 \in 0..MaxCount
      BY MetaFacts
    <3> QED
      BY <3>2, <3>3, MetaFacts
  <2>3. MetadataInv'
    BY <1>0, <2>1, <2>2 DEF DumpInv, MetadataInv
  <2>4. ASSUME NEW t \in Sess PROVE Kept(t)
    <3>1. meta[t] \notin {None, Torn} => meta'[t] = meta[t]
      BY <1>0, <2>1
    <3> QED
      BY <1>00, <3>1 DEF Kept
  <2> QED
    BY <2>3, <2>4
<1>4. CASE Dump!Gone(Command) /\ Dump!SaveMetadata(dumpCur[Command], Dump!Refresh(dumpCur[Command]))
  <2> DEFINE s == dumpCur[Command]
  <2>1. /\ s \in Sess /\ dumpAt[s] \notin Dump!Live /\ dumpAt[s] # "none"
        /\ meta' = [meta EXCEPT ![s] = Dump!Refresh(s)]
        /\ UNCHANGED <<opt, dumpAt, snapshotCount>>
    BY <1>4, <1>k DEF Dump!Gone, Dump!SaveMetadata, Dump!daemon, Dump!SessionAlive
  <2>2. dumpAt[s] = "exited"
    BY <1>0, <2>1
  <2> HIDE DEF s
  <2>3. /\ Dump!Refresh(s) \in Meta
        /\ meta[s] \in Meta =>
             /\ Dump!Refresh(s).captures = meta[s].captures
             /\ Dump!Refresh(s).stopped = meta[s].stopped
             /\ meta[s].count <= Dump!Refresh(s).count
        /\ meta[s] \notin Meta => ~Dump!Refresh(s).captures /\ ~Dump!Refresh(s).stopped
    BY <1>0, <2>1, RefreshFacts
  <2>4. \A t \in Sess \ {s} : meta'[t] = meta[t]
    BY <1>0, <2>1
  <2>5. meta'[s] = Dump!Refresh(s)
    BY <1>0, <2>1
  <2>6. MetadataInv'
    BY <1>0, <1>00, <2>1, <2>2, <2>3, <2>4, <2>5, MetaFacts DEF DumpInv, MetadataInv
  <2>7. \A t \in Sess : Kept(t)
    BY <1>00, <2>3, <2>4, <2>5 DEF Kept
  <2> QED
    BY <2>6, <2>7
<1>5. CASE Dump!SaveFails(Command) \/ Dump!Kill(Command)
  <2>1. PICK s \in Sess : /\ Dump!KillGroup(s) /\ dumpAt[s] # "none"
                          /\ Dump!Tear(s) \/ UNCHANGED meta
    BY <1>5, <1>k DEF Dump!SaveFails, Dump!Kill, Dump!CutShort, Dump!SaveMetadataFails
  <2>2. \A t \in Sess : meta'[t] = meta[t] \/ (t = s /\ meta'[t] = Torn)
    BY <1>0, <2>1, TearFacts
  <2>3. /\ \A t \in Sess : dumpAt'[t] = dumpAt[t] \/ (t = s /\ dumpAt'[t] = "exited")
        /\ UNCHANGED <<opt, snapshotCount>>
    BY <2>1, KillFacts DEF DumpInv
  <2> QED
    BY <1>t, <2>1, <2>2, <2>3
<1>6. CASE Dump!Term(Command)
  <2>1. PICK s \in Sess : /\ Dump!Terminate(s) /\ dumpAt[s] # "none"
                          /\ Dump!Tear(s) \/ UNCHANGED meta
    BY <1>6, <1>k DEF Dump!Term, Dump!Terminate, Dump!CutShort
  <2>2. \A t \in Sess : meta'[t] = meta[t] \/ (t = s /\ meta'[t] = Torn)
    BY <1>0, <2>1, TearFacts
  <2>3. /\ \A t \in Sess : dumpAt'[t] = dumpAt[t] \/ (t = s /\ dumpAt'[t] = "exited")
        /\ UNCHANGED <<opt, snapshotCount>>
    BY <1>0, <2>1 DEF Dump!Terminate, Dump!Become
  <2> QED
    BY <1>t, <2>1, <2>2, <2>3
<1>7. CASE /\ UNCHANGED Dump!daemon
           /\ \E s \in Sess : dumpAt[s] # "none" /\ Dump!Tear(s)
  <2>1. PICK s \in Sess : dumpAt[s] # "none" /\ Dump!Tear(s)
    BY <1>7
  <2>2. \A t \in Sess : meta'[t] = meta[t] \/ (t = s /\ meta'[t] = Torn)
    BY <1>0, <2>1, TearFacts
  <2> QED
    BY <1>t, <1>7, <2>1, <2>2 DEF Dump!daemon
<1>8. CASE Dump!Interrupt(Command)
  BY <1>1, <1>7, <1>8, <1>k DEF Dump!Interrupt, Dump!files, Dump!daemon
<1>9. CASE Dump!Gone(Command)
  BY <1>1, <1>4, <1>7, <1>9, <1>k DEF Dump!Gone, Dump!SaveMetadataFails, Dump!daemon
<1> QED
  BY <1>1, <1>2, <1>3, <1>5, <1>6, <1>8, <1>9
  DEF Dump!StartStep, Dump!StopStep, Dump!StartLoad, Dump!StopLoad, Dump!StartCheck,
      Dump!Prepare, Dump!SaveCurrent, Dump!StableStart, Dump!StopCheck,
      Dump!PollTimeout, Dump!Clear, Dump!files, Dump!daemon

\* Every step of a command or a daemon keeps the invariant, and the metadata.
LEMMA DumpStep ==
  ASSUME DumpInv, Dump!Next
  PROVE  DumpInv' /\ \A t \in Sess : Kept(t)
<1>1. CASE \/ Dump!StartLoad(Command) \/ Dump!StopLoad(Command) \/ Dump!Interrupt(Command)
           \/ Dump!StartStep(Command) \/ Dump!StopStep(Command)
  <2>1. \A t \in Sess : SessionInv(t)'
    BY <1>1, SessionCommandStep
  <2>2. (CaptureInv /\ DerivedInv /\ Dump!CapturesOwned /\ Dump!OcscFromLoopback)'
    BY <2>1
    DEF SessionInv, CaptureInv, DerivedInv, Dump!CapturesOwned, Dump!OcscFromLoopback
  <2>3. Dump!TypeOK' /\ RecordedInv' /\ DumpCommandInv' /\ KnownInv'
    BY <1>1, DumpCommandType, RecordCommandStep, KnownCommandStep
  <2> QED
    BY <1>1, <2>2, <2>3, MetadataCommandStep DEF DumpInv
<1>2. ASSUME NEW s \in Sess,
             Dump!DaemonStep(s) \/ Dump!Tick(s) \/ \E k \in 1..2 : Dump!CaptureEnds(s, k)
      PROVE  DumpInv' /\ \A t \in Sess : Kept(t)
  <2>1. \A t \in Sess : SessionInv(t)'
    <3>1. SessionInv(s)'
      BY <1>2, SessionDaemonStep
    <3>2. ASSUME NEW t \in Sess \ {s} PROVE SessionInv(t)'
      <4>1. SessionInv(t)
        BY SessionInvIs DEF DumpInv
      <4>2. /\ dumpAt'[t] = dumpAt[t] /\ derived'[t] = derived[t] /\ lost'[t] = lost[t]
            /\ cap'[t] = cap[t] /\ opt' = opt
        BY <1>2, DaemonMoves
      <4> QED
        BY <4>1, <4>2 DEF SessionInv, Dump!Captures, Dump!shouldStartOCSCLoopbackCapture
    <3> QED
      BY <3>1, <3>2
  <2>2. (CaptureInv /\ DerivedInv /\ Dump!CapturesOwned /\ Dump!OcscFromLoopback)'
    BY <2>1
    DEF SessionInv, CaptureInv, DerivedInv, Dump!CapturesOwned, Dump!OcscFromLoopback
  <2>3. Dump!TypeOK' /\ RecordedInv' /\ DumpCommandInv' /\ KnownInv'
    BY <1>2, DaemonType, RecordDaemonStep, KnownDaemonStep
  <2> QED
    BY <1>2, <2>2, <2>3, MetadataDaemonStep DEF DumpInv
<1> QED
  BY <1>1, <1>2 DEF Dump!Next, Command

\* The steps of the other parts do not change a variable of the dump.
LEMMA DumpKept ==
  ASSUME DumpInv, UNCHANGED dumpVars
  PROVE  DumpInv'
  BY DEF dumpVars, DumpInv, Dump!TypeOK, RecordedInv, KnownInv, DumpCommandInv, CaptureInv, MetadataInv,
         DerivedInv, Dump!CapturesOwned, Dump!OcscFromLoopback, Dump!Captures,
         Dump!shouldStartOCSCLoopbackCapture

\* Nothing has been launched yet.
LEMMA DumpInit == Dump!Init => DumpInv
<1> SUFFICES ASSUME Dump!Init PROVE DumpInv
  OBVIOUS
<1> USE DEF Dump!Init, Command
<1>1. Dump!TypeOK
  <2>1. cap \in [Sess -> [1..2 -> Dump!CapState]] /\ \A s \in Sess, k \in 1..2 : cap[s][k] = "none"
    BY DEF Dump!CapState
  <2>2. opt \in [Sess -> Dump!Options]
    BY DEF Dump!Options
  <2>3. snapshotCount \in [Sess -> 0..MaxCount]
    BY MetaFacts
  <2> QED
    BY <2>1, <2>2, <2>3 DEF Dump!TypeOK, Dump!Step, Dump!Ended
<1>2. \A s \in Sess : dumpAt[s] = "none" /\ cap[s][1] = "none" /\ cap[s][2] = "none"
                      /\ derived[s] = None /\ meta[s] = None /\ snapshotCount[s] = 0
  OBVIOUS
<1>3. /\ RecordedInv /\ KnownInv /\ DumpCommandInv /\ CaptureInv /\ MetadataInv /\ DerivedInv
      /\ Dump!CapturesOwned /\ Dump!OcscFromLoopback
  <2>1. None \notin Sess
    BY AnyConnectAssumption DEF Dump!CiscoDumpAssumption
  <2> QED
    BY <1>2, <2>1 DEF RecordedInv, KnownInv, DumpCommandInv, CaptureInv, MetadataInv, DerivedInv,
       Dump!CapturesOwned, Dump!OcscFromLoopback, Dump!Live, Dump!Handled, Early
<1> QED
  BY <1>1, <1>3 DEF DumpInv

---------------------------------------------------------------------------
(* The snapshots of the monitor *)

\* What a stream has looked at and what it has written have the digest that it keeps.
FollowInv ==
  /\ looked \in [Monitor!Stream -> Monitor!Seen]
  /\ last = [s \in Monitor!Stream |-> last[s]]
  /\ \A s \in Monitor!Stream :
       /\ looked[s].stream \in {s, "none"}
       /\ looked[s].stream = "none" => last[s] = {} /\ file[s].stream = "none"
       /\ looked[s].stream = s => last[s] = Monitor!Digest(looked[s])
       /\ looked[s].stream = s /\ s \notin missed =>
            file[s].stream = s /\ last[s] = Monitor!Digest(file[s])

MonitorInv == Monitor!TypeOK /\ FollowInv

\* A digest is never the empty one of a new monitor.
LEMMA DigestNotEmpty ==
  ASSUME NEW look, look.stream \in Monitor!Stream
  PROVE  Monitor!Digest(look) # {}
  BY DEF Monitor!Digest, Monitor!Stream

\* Equal digests of a stream mean equal facts for the reader of a snapshot.
LEMMA DigestTellsFacts ==
  ASSUME NEW a, NEW b, a.stream \in Monitor!Stream, a.stream = b.stream,
         Monitor!Digest(a) = Monitor!Digest(b)
  PROVE  Monitor!Facts(a) = Monitor!Facts(b)
<1>1. CASE a.stream = "processes"
  <2>1. Monitor!processSnapshotDigest(a) = Monitor!processSnapshotDigest(b)
    <3>1. {<<Monitor!processSnapshotDigest(a)>>} = {<<Monitor!processSnapshotDigest(b)>>}
      BY <1>1 DEF Monitor!Digest
    <3>2. <<Monitor!processSnapshotDigest(a)>> = <<Monitor!processSnapshotDigest(b)>>
      BY <3>1, Zenon
    <3> QED
      BY <3>2
  <2>2. {l.pid : l \in a.lines} = {l.pid : l \in b.lines}
    BY <2>1 DEF Monitor!processSnapshotDigest, Monitor!normalizeProcessLine
  <2>3. Monitor!Facts(a) = {l.pid : l \in a.lines} /\ Monitor!Facts(b) = {l.pid : l \in b.lines}
    BY <1>1 DEF Monitor!Facts
  <2> QED
    BY <2>2, <2>3
<1>2. CASE a.stream = "sockets"
  <2>1. Monitor!socketDigest(a) = Monitor!socketDigest(b)
    BY <1>2 DEF Monitor!Digest
  <2>2. /\ {k[1] : k \in Monitor!trackedSockets(a)} = {k[1] : k \in Monitor!trackedSockets(b)}
        /\ {k[1] : k \in Monitor!loopbackSockets(a)} = {k[1] : k \in Monitor!loopbackSockets(b)}
    BY <2>1 DEF Monitor!socketDigest, Monitor!normalizeSocket
  <2>3. \A look : {k[1] : k \in Monitor!trackedSockets(look) \cup Monitor!loopbackSockets(look)}
                    = {k[1] : k \in Monitor!trackedSockets(look)}
                      \cup {k[1] : k \in Monitor!loopbackSockets(look)}
    OBVIOUS
  <2>4. \A look : look.stream = "sockets" => Monitor!Facts(look) =
          {k[1] : k \in Monitor!trackedSockets(look) \cup Monitor!loopbackSockets(look)}
    BY DEF Monitor!Facts
  <2> QED
    BY <1>2, <2>2, <2>3, <2>4
<1>3. CASE a.stream = "network"
  BY <1>3 DEF Monitor!Digest, Monitor!networkDigest, Monitor!Facts
<1> QED
  BY <1>1, <1>2, <1>3 DEF Monitor!Stream

\* The effect of a snapshot, whichever of the three streams it is of.
Snapped(look) ==
  LET s == look.stream
  IN  /\ looked' = [looked EXCEPT ![s] = look]
      /\ \/ Monitor!Digest(look) = last[s] /\ UNCHANGED <<last, file, missed>>
         \/ /\ last' = [last EXCEPT ![s] = Monitor!Digest(look)]
            /\ \/ file' = [file EXCEPT ![s] = look] /\ missed' = missed \ {s}
               \/ missed' = missed \cup {s} /\ UNCHANGED file

\* A snapshot keeps the digests together.
LEMMA SnapshotFollows ==
  ASSUME MonitorInv, NEW look \in Monitor!Seen, look.stream \in Monitor!Stream,
         Snapped(look)
  PROVE  /\ FollowInv'
         /\ file' \in [Monitor!Stream -> Monitor!Seen] /\ missed' \subseteq Monitor!Stream
         /\ \A s \in Monitor!Stream : file'[s].stream \in {s, "none"}
<1> DEFINE s == look.stream
<1>0. /\ file \in [Monitor!Stream -> Monitor!Seen] /\ missed \subseteq Monitor!Stream
      /\ looked \in [Monitor!Stream -> Monitor!Seen] /\ last = [t \in Monitor!Stream |-> last[t]]
      /\ \A t \in Monitor!Stream : file[t].stream \in {t, "none"}
      /\ s \in Monitor!Stream /\ s # "none"
  BY DEF MonitorInv, Monitor!TypeOK, FollowInv, Monitor!Stream
<1>1. Monitor!Digest(look) # {}
  BY DigestNotEmpty
<1>2. CASE Monitor!Digest(look) = last[s] /\ UNCHANGED <<last, file, missed>>
  BY <1>0, <1>1, <1>2 DEF MonitorInv, FollowInv, Snapped
<1>3. CASE /\ last' = [last EXCEPT ![s] = Monitor!Digest(look)]
           /\ file' = [file EXCEPT ![s] = look] /\ missed' = missed \ {s}
  BY <1>0, <1>3 DEF MonitorInv, FollowInv, Snapped
<1>4. CASE /\ last' = [last EXCEPT ![s] = Monitor!Digest(look)]
           /\ missed' = missed \cup {s} /\ UNCHANGED file
  BY <1>0, <1>4 DEF MonitorInv, FollowInv, Snapped
<1> QED
  BY <1>2, <1>3, <1>4 DEF Snapped

\* Every step of the monitor keeps the invariant.
LEMMA MonitorStep ==
  ASSUME MonitorInv, Monitor!Next
  PROVE  MonitorInv'
<1>0. lines \subseteq Monitor!Line
  BY DEF MonitorInv, Monitor!TypeOK
<1>1. CASE Monitor!Begin
  <2>1. lines' \subseteq Monitor!Line
    BY <1>1 DEF Monitor!Begin, Monitor!Line
  <2> QED
    BY <1>1, <2>1 DEF Monitor!Begin, MonitorInv, Monitor!TypeOK, FollowInv
<1>2. CASE Monitor!SnapshotProcesses
  <2> DEFINE look == [stream |-> "processes", lines |-> lines]
  <2>1. look \in Monitor!Seen /\ look.stream = "processes"
    BY <1>0 DEF Monitor!Seen
  <2>2. Snapped(look)
    BY <1>2 DEF Monitor!SnapshotProcesses, Monitor!Snapshot, Snapped
  <2> HIDE DEF look
  <2>3. /\ FollowInv'
        /\ file' \in [Monitor!Stream -> Monitor!Seen] /\ missed' \subseteq Monitor!Stream
        /\ \A s \in Monitor!Stream : file'[s].stream \in {s, "none"}
    BY <2>1, <2>2, SnapshotFollows DEF Monitor!Stream
  <2>4. watching = "processes" /\ watching' = "sockets" /\ UNCHANGED <<lines, probes>>
    BY <1>2 DEF Monitor!SnapshotProcesses
  <2> QED
    BY <2>3, <2>4 DEF MonitorInv, Monitor!TypeOK
<1>3. CASE Monitor!SnapshotSockets
  <2>1. PICK socks \in SUBSET Sock, volatile \in {0, 1} :
          Snapped([stream |-> "sockets", lines |-> lines, socks |-> socks \X {volatile}])
    BY <1>3 DEF Monitor!SnapshotSockets, Monitor!Snapshot, Snapped
  <2> DEFINE look == [stream |-> "sockets", lines |-> lines, socks |-> socks \X {volatile}]
  <2>2. look \in Monitor!Seen /\ look.stream = "sockets"
    BY <1>0 DEF Monitor!Seen
  <2>3. Snapped(look)
    BY <2>1
  <2> HIDE DEF look
  <2>4. /\ FollowInv'
        /\ file' \in [Monitor!Stream -> Monitor!Seen] /\ missed' \subseteq Monitor!Stream
        /\ \A s \in Monitor!Stream : file'[s].stream \in {s, "none"}
    BY <2>2, <2>3, SnapshotFollows DEF Monitor!Stream
  <2>5. watching = "sockets" /\ watching' = "network" /\ lines' = {} /\ UNCHANGED probes
    BY <1>3 DEF Monitor!SnapshotSockets
  <2> QED
    BY <2>4, <2>5 DEF MonitorInv, Monitor!TypeOK
<1>4. ASSUME NEW final \in BOOLEAN, Monitor!SnapshotNetwork(final)
      PROVE  MonitorInv'
  <2>1. PICK net \in Net : Snapped([stream |-> "network", net |-> net])
    BY <1>4 DEF Monitor!SnapshotNetwork, Monitor!Snapshot, Snapped
  <2> DEFINE look == [stream |-> "network", net |-> net]
  <2>2. look \in Monitor!Seen /\ look.stream = "network"
    BY DEF Monitor!Seen
  <2>3. Snapped(look)
    BY <2>1
  <2> HIDE DEF look
  <2>4. /\ FollowInv'
        /\ file' \in [Monitor!Stream -> Monitor!Seen] /\ missed' \subseteq Monitor!Stream
        /\ \A s \in Monitor!Stream : file'[s].stream \in {s, "none"}
    BY <2>2, <2>3, SnapshotFollows DEF Monitor!Stream
  <2>5. /\ UNCHANGED lines
        /\ (watching' = "probe" /\ probes' = 1) \/ (watching' = "idle" /\ probes' = 0)
    <3>1. PICK changed \in BOOLEAN :
            /\ watching' = IF changed /\ ~final THEN "probe" ELSE "idle"
            /\ probes' = IF changed /\ ~final THEN 1 ELSE 0
      BY <1>4, Zenon DEF Monitor!SnapshotNetwork
    <3> QED
      BY <1>4, <3>1 DEF Monitor!SnapshotNetwork
  <2> QED
    BY <2>4, <2>5 DEF MonitorInv, Monitor!TypeOK
<1>5. CASE Monitor!SnapshotHostProbes
  BY <1>5 DEF Monitor!SnapshotHostProbes, MonitorInv, Monitor!TypeOK, FollowInv
<1> QED
  BY <1>1, <1>2, <1>3, <1>4, <1>5 DEF Monitor!Next

\* A new monitor has looked at nothing.
LEMMA MonitorInit == Monitor!Init => MonitorInv
<1> SUFFICES ASSUME Monitor!Init PROVE MonitorInv
  OBVIOUS
<1>1. Monitor!Never \in Monitor!Seen /\ Monitor!Never.stream = "none"
  BY DEF Monitor!Seen, Monitor!Never
<1>2. /\ \A s \in Monitor!Stream : looked[s] = Monitor!Never /\ file[s] = Monitor!Never /\ last[s] = {}
      /\ looked \in [Monitor!Stream -> Monitor!Seen] /\ file \in [Monitor!Stream -> Monitor!Seen]
      /\ last = [s \in Monitor!Stream |-> last[s]]
  BY <1>1 DEF Monitor!Init, Monitor!NoSnapshot
<1>3. \A s \in Monitor!Stream : s # "none"
  BY DEF Monitor!Stream
<1> QED
  BY <1>1, <1>2, <1>3 DEF Monitor!Init, MonitorInv, FollowInv, Monitor!TypeOK

LEMMA MonitorKept ==
  ASSUME MonitorInv, UNCHANGED monitorVars
  PROVE  MonitorInv'
  BY DEF monitorVars, MonitorInv, FollowInv, Monitor!TypeOK

\* What was written last of a stream shows what was looked at last.
LEMMA MonitorFollows == MonitorInv => Monitor!TypeOK /\ Monitor!SnapshotsFollow
<1> SUFFICES ASSUME MonitorInv, NEW s \in Monitor!Stream \ missed
             PROVE  Monitor!Facts(file[s]) = Monitor!Facts(looked[s])
  BY DEF MonitorInv, Monitor!SnapshotsFollow
<1>1. CASE looked[s].stream = "none"
  <2>1. file[s].stream = "none"
    BY <1>1 DEF MonitorInv, FollowInv
  <2> QED
    BY <1>1, <2>1 DEF Monitor!Facts
<1>2. CASE looked[s].stream = s
  BY <1>2, DigestTellsFacts DEF MonitorInv, FollowInv
<1> QED
  BY <1>1, <1>2 DEF MonitorInv, FollowInv

---------------------------------------------------------------------------
(* The mirror of the logs *)

\* No two of the files are mirrored under one name.
DistinctBases == \A f, g \in DOMAIN Logs : Logs[f].base = Logs[g].base => f = g

\* Times never come back, and a copy that was overtaken has an older stamp.
MirrorInv ==
  /\ clock \in Nat
  /\ time \in [Mirror!File -> Nat] /\ \A f \in Mirror!File : time[f] <= clock
  /\ stamp \in [Mirror!File -> Nat] /\ \A f \in Mirror!File : stamp[f] <= clock
  /\ mirror = [b \in Mirror!Base |-> mirror[b]]
  /\ todo \subseteq Mirror!File
  /\ copying # <<>> => \E f \in Mirror!File, t \in 0..clock :
       copying = <<f, t>> /\ (time[f] = 0 \/ time[f] # stamp[f])
  /\ Mirror!MirrorFaithful

LEMMA MirrorStep ==
  ASSUME DistinctBases, MirrorInv, Mirror!Next
  PROVE  MirrorInv'
<1> USE DEF MirrorInv, Mirror!MirrorFaithful
<1>0. /\ \A f \in Mirror!File : Logs[f].base \in Mirror!Base
      /\ \A f, g \in Mirror!File : Logs[f].base = Logs[g].base => f = g
  BY DEF DistinctBases, Mirror!Base, Mirror!File
<1>1. CASE Mirror!Begin
  <2>1. todo' \subseteq Mirror!File
    BY <1>1 DEF Mirror!Begin, Mirror!relevantCiscoSources, Mirror!latestUIHistoryFiles
  <2> QED
    BY <1>1, <2>1 DEF Mirror!Begin
<1>2. CASE Mirror!Stat
  <2>1. PICK f \in todo :
          /\ todo' = todo \ {f}
          /\ copying' = IF time[f] = 0 \/ time[f] = stamp[f] THEN <<>> ELSE <<f, time[f]>>
    BY <1>2 DEF Mirror!Stat
  <2>2. f \in Mirror!File /\ time[f] \in 0..clock
    OBVIOUS
  <2> QED
    BY <1>2, <2>1, <2>2 DEF Mirror!Stat
<1>3. CASE Mirror!Copy
  <2>1. PICK f \in Mirror!File, t \in 0..clock : copying = <<f, t>>
    BY <1>3 DEF Mirror!Copy
  <2>2. copying[1] = f /\ copying[2] = t
    BY <2>1
  <2>3. /\ mirror' = [mirror EXCEPT ![Logs[f].base] = <<f, time[f]>>]
        /\ stamp' = [stamp EXCEPT ![f] = t]
        /\ copying' = <<>> /\ UNCHANGED <<clock, time, todo>>
    BY <1>3, <2>2 DEF Mirror!Copy
  <2>4. t \in Nat /\ t <= clock
    OBVIOUS
  <2>5. stamp' \in [Mirror!File -> Nat] /\ \A g \in Mirror!File : stamp'[g] <= clock'
    BY <2>3, <2>4
  <2>6. mirror' = [b \in Mirror!Base |-> mirror'[b]]
    BY <2>3
  <2>7. ASSUME NEW g \in Mirror!File, time'[g] # 0, stamp'[g] = time'[g]
        PROVE  mirror'[Logs[g].base] = <<g, time'[g]>>
    <3>1. CASE g = f
      BY <1>0, <2>3, <3>1
    <3>2. CASE g # f
      <4>1. mirror'[Logs[g].base] = mirror[Logs[g].base] /\ stamp'[g] = stamp[g]
        BY <1>0, <2>3, <3>2
      <4> QED
        BY <2>3, <2>7, <4>1
    <3> QED
      BY <3>1, <3>2
  <2> QED
    BY <2>3, <2>5, <2>6, <2>7
<1>4. CASE Mirror!CopyFails
  <2>1. PICK f \in Mirror!File, t \in 0..clock :
          copying = <<f, t>> /\ (time[f] = 0 \/ time[f] # stamp[f])
    BY <1>4 DEF Mirror!CopyFails
  <2>2. copying[1] = f
    BY <2>1
  <2>3. /\ mirror' \in {mirror, [mirror EXCEPT ![Logs[f].base] = <<>>]}
        /\ copying' = <<>> /\ todo' = {} /\ UNCHANGED <<clock, time, stamp>>
    BY <1>4, <2>2 DEF Mirror!CopyFails
  <2>4. mirror' = [b \in Mirror!Base |-> mirror'[b]]
    BY <2>3
  <2>5. \A g \in Mirror!File : g # f => mirror'[Logs[g].base] = mirror[Logs[g].base]
    BY <1>0, <2>3
  <2> QED
    BY <2>1, <2>3, <2>4, <2>5
<1>6. CASE Mirror!StatFails
  BY <1>6 DEF Mirror!StatFails
<1>7. CASE Mirror!Trouble
  BY <1>7 DEF Mirror!Trouble
<1>5. ASSUME NEW f \in Mirror!File, Mirror!Write(f)
      PROVE  MirrorInv'
  <2>1. /\ clock' = clock + 1 /\ UNCHANGED <<stamp, mirror, todo, copying>>
        /\ time' \in {[time EXCEPT ![f] = clock + 1], [time EXCEPT ![f] = 0]}
    BY <1>5 DEF Mirror!Write
  <2>2. clock' \in Nat /\ 0..clock \subseteq 0..clock'
    BY <2>1
  <2>3. time' \in [Mirror!File -> Nat] /\ \A g \in Mirror!File : time'[g] <= clock'
    <3>1. PICK n \in {clock + 1, 0} : time' = [time EXCEPT ![f] = n]
      BY <2>1
    <3>2. n \in Nat /\ n <= clock' /\ \A g \in Mirror!File : time[g] \in Nat /\ time[g] <= clock'
      BY <2>1
    <3> HIDE DEF MirrorInv
    <3>3. time \in [Mirror!File -> Nat]
      BY DEF MirrorInv
    <3> QED
      BY <3>1, <3>2, <3>3
  <2>4. \A g \in Mirror!File : stamp'[g] <= clock'
    BY <2>1
  <2>5. \A g \in Mirror!File : time'[g] # 0 /\ stamp'[g] = time'[g] => time'[g] = time[g]
    BY <2>1
  <2> QED
    BY <2>1, <2>2, <2>3, <2>4, <2>5
<1> QED
  BY <1>1, <1>2, <1>3, <1>4, <1>5, <1>6, <1>7 DEF Mirror!Next, Mirror!Step

LEMMA MirrorKept ==
  ASSUME MirrorInv, UNCHANGED mirrorVars
  PROVE  MirrorInv'
  BY DEF mirrorVars, MirrorInv, Mirror!MirrorFaithful

LEMMA MirrorInit == Mirror!Init => MirrorInv
  BY DEF Mirror!Init, MirrorInv, Mirror!MirrorFaithful

---------------------------------------------------------------------------
\* For any number of sessions, processes, sockets and files, with one command at a time:
\* at most one daemon runs past its comparison, no error path leaves a capture behind
\* unnoticed, the analysis reads the loopback capture, stopped unless its stop failed, the
\* metadata is never taken back except by a failed or cut write, the snapshots show what was looked at last, and the mirror what it copied
\* (ciscodump/runtime.go).  Files of one base name overwrite each other in the mirror, so
\* that the last is said of files with different base names.
THEOREM DumpIsCorrect == ASSUME DistinctBases PROVE Spec => DumpCorrect
<1> DEFINE I == DumpInv /\ MonitorInv /\ MirrorInv
<1>1. Init => I
  BY DumpInit, MonitorInit, MirrorInit DEF Init
<1>2. I /\ [Next]_vars => I'
  <2> SUFFICES ASSUME I, [Next]_vars PROVE I'
    OBVIOUS
  <2>1. DumpInv'
    BY DumpStep, DumpKept DEF Next, vars
  <2>2. MonitorInv'
    BY MonitorStep, MonitorKept DEF Next, vars
  <2>3. MirrorInv'
    BY MirrorStep, MirrorKept DEF Next, vars
  <2> QED
    BY <2>1, <2>2, <2>3
<1>3. I => /\ part = "dump" =>
                Dump!TypeOK /\ Dump!OneDaemon /\ Dump!CapturesOwned /\ Dump!OcscFromLoopback
           /\ part = "monitor" => Monitor!TypeOK /\ Monitor!SnapshotsFollow
           /\ part = "mirror" => Mirror!MirrorFaithful
  <2>1. DumpInv => Dump!TypeOK /\ Dump!OneDaemon /\ Dump!CapturesOwned /\ Dump!OcscFromLoopback
    BY DEF DumpInv, RecordedInv, Dump!OneDaemon
  <2> QED
    BY <2>1, MonitorFollows DEF MirrorInv
<1>4. I /\ [Next]_vars =>
        [\A s \in Sess :
           meta[s] \notin {None, Torn} /\ meta'[s] # Torn =>
             /\ meta[s].captures => meta'[s].captures
             /\ meta[s].stopped => meta'[s].stopped
             /\ meta[s].count <= meta'[s].count]_(Dump!vars)
  <2>1. I /\ Dump!Next => \A s \in Sess : Kept(s)
    BY DumpStep
  <2>2. [Next]_vars => Dump!Next \/ UNCHANGED dumpVars
    BY DEF Next, vars
  <2>3. UNCHANGED dumpVars => UNCHANGED Dump!vars
    BY DEF dumpVars, Dump!vars, Dump!files, Dump!daemon
  <2> HIDE DEF I
  <2> QED
    BY <2>1, <2>2, <2>3 DEF Kept
<1> HIDE DEF I
<1> QED
  BY <1>1, <1>2, <1>3, <1>4, PTL DEF Spec, DumpCorrect, Dump!MetadataKept

---------------------------------------------------------------------------
(* ssh-proxy: starts and stops of any number of profiles, by any number of commands *)

\* The process of a session has a pid that nobody else can get.
Held(s) == ssh[s].st \in SshProxy!Running \cup {"zombie"}

\* A record of a session names the pid that its ssh has, or had.
Linked(r) == ssh[r.id].st # "unused" /\ ssh[r.id].pid = r.pid

\* Where a stop is between its load and its end.
Stopping == {"stopCheck", "term", "exit", "kill", "killed", "remove"}

\* A pid has one holder.
HolderInv == \A s, t \in Sess : Held(s) /\ Held(t) /\ ssh[s].pid = ssh[t].pid => s = t

\* What is recorded, or was loaded, is an ssh that was started, with its pid; a stop has
\* loaded something; a start that waits or saves has an ssh.
LinkInv ==
  /\ \A s \in Sess : ssh[s].st # "unused" => ssh[s].pid \in Pid
  /\ \A p \in Profile : record[p] # None => Linked(record[p])
  /\ \A c \in Client : cur[c] # None => Linked(cur[c])
  /\ \A c \in Client : pc[c] \in Stopping \cup {"stopped"} => cur[c] # None
  /\ \A c \in Client : pc[c] \in {"wait", "save"} =>
       mine[c] \in Sess /\ ssh[mine[c]].st # "unused"

\* What every step of any number of commands keeps: no ssh that a stop has waited for runs.
ProxyInv == SshProxy!TypeOK /\ HolderInv /\ LinkInv /\ SshProxy!StopHonest

\* A process goes on: it listens, exits or is reaped, and keeps its pid.
Onward(s) ==
  /\ ssh'[s].pid = ssh[s].pid
  /\ <<ssh[s].st, ssh'[s].st>> \in
       {<<"connecting", "listening">>, <<"connecting", "zombie">>, <<"connecting", "gone">>,
        <<"listening", "zombie">>, <<"listening", "gone">>, <<"zombie", "gone">>}

\* What the table holds of a process, and a step that starts none.
SshType == [st : SshProxy!Phase, pid : Pid \cup {None}]

Goes ==
  /\ ssh' \in [Sess -> SshType]
  /\ \A s \in Sess : ssh'[s] = ssh[s] \/ Onward(s)

\* A command starts an ssh.
Begins(s) ==
  /\ ssh[s].st = "unused"
  /\ \E c \in Client : pc' = [pc EXCEPT ![c] = "wait"] /\ mine' = [mine EXCEPT ![c] = s]
  /\ \E p \in Pid : SshProxy!Free(p) /\ ssh' = [ssh EXCEPT ![s] = [st |-> "connecting", pid |-> p]]

\* The end of a command reaps its zombie; a process that exits leaves the port.
LEMMA ReturnMoves ==
  ASSUME SshProxy!TypeOK, NEW c, NEW how, SshProxy!Return(c, how)
  PROVE  /\ Goes
         /\ \A s \in Sess : ssh[s].st = "listening" => ssh'[s] = ssh[s]
<1>1. ssh \in [Sess -> SshType]
  BY DEF SshProxy!TypeOK, SshType
<1>2. ssh' = [s \in Sess |-> IF mine[c] = s /\ ssh[s].st = "zombie"
                             THEN [ssh[s] EXCEPT !.st = "gone"] ELSE ssh[s]]
  BY DEF SshProxy!Return
<1>3. ASSUME NEW s \in Sess
      PROVE  ssh'[s] \in SshType /\ (ssh'[s] = ssh[s] \/ Onward(s))
             /\ (ssh[s].st = "listening" => ssh'[s] = ssh[s])
  BY <1>1, <1>2 DEF SshType, Onward, SshProxy!Phase
<1> QED
  BY <1>2, <1>3 DEF Goes

\* An ssh that exits becomes a zombie or is gone; no other process changes.
LEMMA ExitMoves ==
  ASSUME SshProxy!TypeOK, NEW s \in Sess, ssh[s].st \in SshProxy!Running,
         SshProxy!Exit(s, SshProxy!AfterExit(s))
  PROVE  /\ Goes
         /\ \A t \in Sess : t # s => ssh'[t] = ssh[t]
<1>1. ssh \in [Sess -> SshType]
  BY DEF SshProxy!TypeOK, SshType
<1>2. SshProxy!AfterExit(s) \in {"zombie", "gone"}
  BY DEF SshProxy!AfterExit
<1>3. ssh' = [ssh EXCEPT ![s].st = SshProxy!AfterExit(s)]
  BY DEF SshProxy!Exit
<1>4. ASSUME NEW t \in Sess
      PROVE  ssh'[t] \in SshType /\ (ssh'[t] = ssh[t] \/ Onward(t)) /\ (t # s => ssh'[t] = ssh[t])
  BY <1>1, <1>2, <1>3 DEF SshType, Onward, SshProxy!Phase, SshProxy!Running
<1>5. ssh' \in [Sess -> SshType]
  BY <1>1, <1>2, <1>3 DEF SshType, SshProxy!Phase
<1> QED
  BY <1>4, <1>5 DEF Goes

\* Every step moves the processes onward or starts one.
LEMMA SshMoves ==
  ASSUME SshProxy!TypeOK, SshProxy!Next \/ UNCHANGED sshproxyVars
  PROVE  Goes \/ \E s \in Sess : Begins(s)
<1>1. ssh \in [Sess -> SshType]
  BY DEF SshProxy!TypeOK, SshType
<1>2. ASSUME UNCHANGED ssh PROVE Goes
  BY <1>1, <1>2 DEF Goes
<1>3. ASSUME NEW c \in Client, SshProxy!Interrupt(c) \/ SshProxy!StartStep(c) \/ SshProxy!StopStep(c)
      PROVE  Goes \/ \E s \in Sess : Begins(s)
  <2>1. CASE SshProxy!Interrupt(c) \/ SshProxy!WaitFails(c) \/ SshProxy!Save(c) \/ SshProxy!SaveFails(c)
    BY <2>1, ReturnMoves DEF SshProxy!Interrupt, SshProxy!WaitFails, SshProxy!Save, SshProxy!SaveFails
  <2>2. CASE SshProxy!Spawn(c)
    BY <2>2 DEF SshProxy!Spawn, SshProxy!Goto, Begins
  <2>3. CASE SshProxy!Kill(c)
    BY <1>2, <2>3, ExitMoves DEF SshProxy!Kill
  <2>4. CASE \/ SshProxy!StartCheck(c) \/ SshProxy!EnsurePort(c) \/ SshProxy!SpawnFails(c)
             \/ SshProxy!WaitReady(c) \/ SshProxy!StopCheck(c) \/ SshProxy!Term(c)
             \/ SshProxy!WaitExit(c) \/ SshProxy!ExitTimeout(c) \/ SshProxy!Remove(c)
    BY <1>2, <2>4 DEF SshProxy!StartCheck, SshProxy!EnsurePort, SshProxy!SpawnFails,
       SshProxy!WaitReady, SshProxy!StopCheck, SshProxy!Term, SshProxy!WaitExit,
       SshProxy!ExitTimeout, SshProxy!Remove
  <2> QED
    BY <1>3, <2>1, <2>2, <2>3, <2>4 DEF SshProxy!StartStep, SshProxy!StopStep
<1>4. CASE \E c \in Client, p \in Profile : SshProxy!StartLoad(c, p) \/ SshProxy!StopLoad(c, p)
  BY <1>2, <1>4 DEF SshProxy!StartLoad, SshProxy!StopLoad, SshProxy!LoadServer
<1>5. CASE \E p \in Profile, force \in BOOLEAN : SshProxy!Setup(p, force)
  BY <1>2, <1>5 DEF SshProxy!Setup
<1>6. CASE \E s \in Sess : SshProxy!Bind(s) \/ SshProxy!SshExit(s)
  <2> PICK s \in Sess : SshProxy!Bind(s) \/ SshProxy!SshExit(s)
    BY <1>6
  <2>1. ssh[s].st \in SshProxy!Running
    BY DEF SshProxy!Bind, SshProxy!SshExit, SshProxy!Running
  <2>2. CASE SshProxy!Exit(s, SshProxy!AfterExit(s))
    BY <2>1, <2>2, ExitMoves
  <2>3. CASE ssh[s].st = "connecting" /\ ssh' = [ssh EXCEPT ![s].st = "listening"]
    <3>1. ssh' \in [Sess -> SshType]
      BY <1>1, <2>3 DEF SshType, SshProxy!Phase
    <3>2. \A t \in Sess : ssh'[t] = ssh[t] \/ Onward(t)
      BY <1>1, <2>3 DEF SshType, Onward
    <3> QED
      BY <3>1, <3>2 DEF Goes
  <2> QED
    BY <2>2, <2>3 DEF SshProxy!Bind, SshProxy!SshExit
<1>7. CASE SshProxy!EditConfig \/ SshProxy!ForeignListener \/ SshProxy!PidReused \/ UNCHANGED sshproxyVars
  BY <1>2, <1>7 DEF SshProxy!EditConfig, SshProxy!ForeignListener, SshProxy!PidReused, sshproxyVars
<1> QED
  BY <1>3, <1>4, <1>5, <1>6, <1>7 DEF SshProxy!Next

\* What such a step keeps of a process: its pid, that it was started, that it has ended.
LEMMA SshKept ==
  ASSUME SshProxy!SshProxyAssumption, SshProxy!TypeOK, LinkInv,
         Goes \/ \E s \in Sess : Begins(s), NEW s \in Sess
  PROVE  /\ ssh'[s] \in SshType
         /\ ssh[s].st # "unused" => ssh'[s].st # "unused" /\ ssh'[s].pid = ssh[s].pid
         /\ ssh'[s].st # "unused" => ssh'[s].pid \in Pid
         /\ ssh[s].st # "unused" /\ ssh[s].st \notin SshProxy!Running =>
              ssh'[s].st \notin SshProxy!Running
         /\ ssh[s].st # "unused" /\ Held(s)' => Held(s)
<1>1. ssh \in [Sess -> SshType]
  BY DEF SshProxy!TypeOK, SshType
<1>2. CASE Goes
  <2>1. ssh'[s] \in SshType /\ (ssh'[s] = ssh[s] \/ Onward(s))
    BY <1>2 DEF Goes
  <2>2. CASE ssh'[s] = ssh[s]
    BY <2>1, <2>2 DEF LinkInv, Held
  <2>3. CASE Onward(s)
    BY <2>1, <2>3 DEF Onward, LinkInv, Held, SshProxy!Running
  <2> QED
    BY <2>1, <2>2, <2>3
<1>3. CASE \E t \in Sess : Begins(t)
  <2> PICK t \in Sess : Begins(t)
    BY <1>3
  <2> PICK p \in Pid : ssh' = [ssh EXCEPT ![t] = [st |-> "connecting", pid |-> p]]
    BY DEF Begins
  <2>1. CASE s = t
    BY <1>1, <2>1 DEF Begins, SshType, SshProxy!Phase
  <2>2. CASE s # t
    BY <1>1, <2>2 DEF LinkInv, Held
  <2> QED
    BY <2>1, <2>2
<1> QED
  BY <1>2, <1>3

\* Every step keeps the type of the process table.
LEMMA SshTyped ==
  ASSUME SshProxy!TypeOK, Goes \/ \E s \in Sess : Begins(s)
  PROVE  ssh' \in [Sess -> SshType]
<1>1. ssh \in [Sess -> SshType]
  BY DEF SshProxy!TypeOK, SshType
<1>2. CASE Goes
  BY <1>2 DEF Goes
<1>3. CASE \E s \in Sess : Begins(s)
  BY <1>1, <1>3 DEF Begins, SshType, SshProxy!Phase
<1> QED
  BY <1>2, <1>3

\* Every step leaves a pid with one holder: an ssh gets a free one.
LEMMA HolderStep ==
  ASSUME SshProxy!SshProxyAssumption, SshProxy!TypeOK, HolderInv, LinkInv,
         Goes \/ \E s \in Sess : Begins(s)
  PROVE  HolderInv'
<1> SUFFICES ASSUME NEW s \in Sess, NEW t \in Sess, Held(s)', Held(t)', ssh'[s].pid = ssh'[t].pid
             PROVE  s = t
  BY DEF HolderInv
<1>1. CASE Goes
  <2>1. ASSUME NEW u \in Sess, Held(u)' PROVE Held(u) /\ ssh'[u].pid = ssh[u].pid
    BY <1>1, <2>1 DEF Goes, Onward, Held, SshProxy!Running
  <2> QED
    BY <2>1 DEF HolderInv
<1>2. CASE \E u \in Sess : Begins(u)
  <2> PICK u \in Sess : Begins(u)
    BY <1>2
  <2> PICK p \in Pid : /\ SshProxy!Free(p)
                       /\ ssh' = [ssh EXCEPT ![u] = [st |-> "connecting", pid |-> p]]
    BY DEF Begins
  <2>1. ASSUME NEW v \in Sess, v # u, Held(v)' PROVE Held(v) /\ ssh'[v].pid = ssh[v].pid /\ ssh[v].pid # p
    BY <2>1 DEF Held, SshProxy!Free, SshProxy!Holds
  <2>2. ssh'[u].pid = p
    BY DEF SshProxy!TypeOK
  <2> QED
    BY <2>1, <2>2 DEF HolderInv
<1> QED
  BY <1>1, <1>2

\* Hence the type of the process table.
LEMMA OneHolder ==
  ASSUME HolderInv, NEW p \in Pid
  PROVE  Cardinality({s \in Sess : ssh[s].pid = p /\ ssh[s].st \in SshProxy!Running \cup {"zombie"}}) <= 1
<1> DEFINE H == {s \in Sess : ssh[s].pid = p /\ ssh[s].st \in SshProxy!Running \cup {"zombie"}}
<1>1. CASE H = {}
  BY <1>1, FS_EmptySet
<1>2. CASE H # {}
  <2>1. PICK s \in H : TRUE
    BY <1>2
  <2>2. H = {s}
    BY <2>1 DEF HolderInv, Held
  <2>3. Cardinality(H) = 1
    <3> HIDE DEF H
    <3> QED
      BY <2>2, FS_Singleton
  <2> QED
    BY <2>3
<1> QED
  BY <1>1, <1>2

\* A session on the port listens.
PortInv == port \in Sess \cup {None, "foreign"} /\ (port \in Sess => ssh[port].st = "listening")

\* Every step keeps a session on the port listening: an ssh that exits gives up the port.
LEMMA PortStep ==
  ASSUME SshProxy!SshProxyAssumption, SshProxy!TypeOK, SshProxy!Next \/ UNCHANGED sshproxyVars
  PROVE  PortInv'
<1>0. PortInv /\ ssh \in [Sess -> SshType]
  BY DEF SshProxy!TypeOK, PortInv, SshType
<1>1. ASSUME UNCHANGED <<ssh, port>> PROVE PortInv'
  BY <1>0, <1>1 DEF PortInv
<1>2. ASSUME NEW s \in Sess, ssh[s].st \in SshProxy!Running, SshProxy!Exit(s, SshProxy!AfterExit(s))
      PROVE  PortInv'
  <2>1. port' = IF port = s THEN None ELSE port
    BY <1>2 DEF SshProxy!Exit
  <2>2. \A t \in Sess : t # s => ssh'[t] = ssh[t]
    BY <1>2, ExitMoves
  <2> QED
    BY <1>0, <2>1, <2>2 DEF PortInv, SshProxy!SshProxyAssumption
<1>3. ASSUME NEW c, NEW how, SshProxy!Return(c, how), UNCHANGED port PROVE PortInv'
  BY <1>0, <1>3, ReturnMoves DEF PortInv
<1>4. ASSUME NEW c \in Client, SshProxy!Interrupt(c) \/ SshProxy!StartStep(c) \/ SshProxy!StopStep(c)
      PROVE  PortInv'
  <2>1. CASE SshProxy!Interrupt(c) \/ SshProxy!WaitFails(c) \/ SshProxy!Save(c) \/ SshProxy!SaveFails(c)
    BY <1>3, <2>1 DEF SshProxy!Interrupt, SshProxy!WaitFails, SshProxy!Save, SshProxy!SaveFails
  <2>2. CASE SshProxy!Spawn(c)
    <3> PICK s \in Sess : Begins(s)
      BY <2>2 DEF SshProxy!Spawn, SshProxy!Goto, Begins
    <3>1. port' = port /\ \A t \in Sess : t # s => ssh'[t] = ssh[t]
      BY <2>2 DEF SshProxy!Spawn, Begins
    <3>2. port # s
      BY <1>0 DEF PortInv, Begins
    <3> QED
      BY <1>0, <3>1, <3>2 DEF PortInv
  <2>3. CASE SshProxy!Kill(c)
    BY <1>1, <1>2, <2>3 DEF SshProxy!Kill
  <2>4. CASE \/ SshProxy!StartCheck(c) \/ SshProxy!EnsurePort(c) \/ SshProxy!SpawnFails(c)
             \/ SshProxy!WaitReady(c) \/ SshProxy!StopCheck(c) \/ SshProxy!Term(c)
             \/ SshProxy!WaitExit(c) \/ SshProxy!ExitTimeout(c) \/ SshProxy!Remove(c)
    BY <1>1, <2>4 DEF SshProxy!StartCheck, SshProxy!EnsurePort, SshProxy!SpawnFails,
       SshProxy!WaitReady, SshProxy!StopCheck, SshProxy!Term, SshProxy!WaitExit,
       SshProxy!ExitTimeout, SshProxy!Remove
  <2> QED
    BY <1>4, <2>1, <2>2, <2>3, <2>4 DEF SshProxy!StartStep, SshProxy!StopStep
<1>5. CASE \/ \E c \in Client, p \in Profile : SshProxy!StartLoad(c, p) \/ SshProxy!StopLoad(c, p)
           \/ \E p \in Profile, force \in BOOLEAN : SshProxy!Setup(p, force)
           \/ SshProxy!EditConfig \/ SshProxy!PidReused \/ UNCHANGED sshproxyVars
  BY <1>1, <1>5 DEF SshProxy!StartLoad, SshProxy!StopLoad, SshProxy!LoadServer, SshProxy!Setup,
     SshProxy!EditConfig, SshProxy!PidReused, sshproxyVars
<1>6. CASE \E s \in Sess : SshProxy!Bind(s) \/ SshProxy!SshExit(s)
  <2> PICK s \in Sess : SshProxy!Bind(s) \/ SshProxy!SshExit(s)
    BY <1>6
  <2>1. ssh[s].st \in SshProxy!Running
    BY DEF SshProxy!Bind, SshProxy!SshExit, SshProxy!Running
  <2>2. CASE SshProxy!Exit(s, SshProxy!AfterExit(s))
    BY <1>2, <2>1, <2>2
  <2>3. CASE ssh' = [ssh EXCEPT ![s].st = "listening"] /\ port' = s
    BY <1>0, <2>3 DEF PortInv, SshType
  <2> QED
    BY <2>2, <2>3 DEF SshProxy!Bind, SshProxy!SshExit
<1>7. CASE SshProxy!ForeignListener
  BY <1>0, <1>7 DEF SshProxy!ForeignListener, PortInv, SshProxy!SshProxyAssumption
<1> QED
  BY <1>4, <1>5, <1>6, <1>7 DEF SshProxy!Next

\* The types of everything but the processes and the port.
Loaded == [id : Sess, pid : Pid] \cup {None}
FilesType ==
  /\ config \in [current : Profile \cup {None}, servers : SUBSET Profile] \cup {None}
  /\ record \in [Profile -> Loaded]
  /\ stranger \subseteq Pid /\ hit \subseteq Pid /\ termed \subseteq Sess /\ adrift \subseteq Sess
CommandsType ==
  /\ pc \in [Client -> SshProxy!Step] /\ prof \in [Client -> Profile \cup {None}]
  /\ cur \in [Client -> Loaded] /\ mine \in [Client -> Sess \cup {None}]

\* The part of the type that counts the holders of a pid.
PidsType ==
  \A p \in Pid :
    SshProxy!Cardinality({s \in Sess : ssh[s].pid = p /\ ssh[s].st \in SshProxy!Running \cup {"zombie"}}) <= 1

\* The module counts as the library does.
LEMMA ProxyCounts == ASSUME NEW S PROVE SshProxy!Cardinality(S) = Cardinality(S)
  BY DEF SshProxy!Cardinality, Cardinality, SshProxy!IsFiniteSet, IsFiniteSet

\* With one holder the count is at most one.
LEMMA PidsTyped == ASSUME HolderInv PROVE PidsType
  BY OneHolder, ProxyCounts DEF PidsType

\* The type of the module, in parts.
LEMMA ProxyTypes ==
  SshProxy!TypeOK <=>
    FilesType /\ CommandsType /\ PortInv /\ ssh \in [Sess -> SshType] /\ PidsType
<1>1. SshProxy!TypeOK => PidsType
  BY Zenon DEF SshProxy!TypeOK, PidsType
<1>2. SshProxy!TypeOK => FilesType /\ CommandsType /\ PortInv /\ ssh \in [Sess -> SshType]
  BY DEF SshProxy!TypeOK, FilesType, CommandsType, PortInv, Loaded, SshType
<1>3. FilesType /\ CommandsType /\ PortInv /\ ssh \in [Sess -> SshType] /\ PidsType
        => SshProxy!TypeOK
  BY Zenon DEF SshProxy!TypeOK, FilesType, CommandsType, PortInv, Loaded, SshType, PidsType
<1> QED
  BY <1>1, <1>2, <1>3

\* Every step keeps the types of the files and of what was signalled or lost.
LEMMA FilesTypeStep ==
  ASSUME SshProxy!SshProxyAssumption, SshProxy!TypeOK, LinkInv,
         SshProxy!Next \/ UNCHANGED sshproxyVars
  PROVE  FilesType'
<1>0. FilesType /\ CommandsType
  BY ProxyTypes
<1> USE DEF FilesType
<1>1. ASSUME NEW c \in Client, SshProxy!Interrupt(c) \/ SshProxy!StartStep(c) \/ SshProxy!StopStep(c)
      PROVE  FilesType'
  <2>1. CASE SshProxy!Interrupt(c)
    <3>1. mine[c] \in Sess \cup {None}
      BY <1>0 DEF CommandsType
    <3> QED
      BY <1>0, <2>1, <3>1 DEF SshProxy!Interrupt
  <2>2. CASE SshProxy!WaitFails(c) \/ SshProxy!SaveFails(c)
    <3>1. mine[c] \in Sess
      BY <2>2 DEF LinkInv, SshProxy!WaitFails, SshProxy!SaveFails
    <3> QED
      BY <1>0, <2>2, <3>1 DEF SshProxy!WaitFails, SshProxy!SaveFails
  <2>3. CASE SshProxy!Save(c)
    <3>1. mine[c] \in Sess /\ ssh[mine[c]].pid \in Pid
      BY <2>3 DEF LinkInv, SshProxy!Save
    <3>2. [id |-> mine[c], pid |-> ssh[mine[c]].pid] \in Loaded
      BY <3>1 DEF Loaded
    <3> QED
      BY <1>0, <2>3, <3>2 DEF SshProxy!Save
  <2>4. CASE SshProxy!StartCheck(c) \/ SshProxy!StopCheck(c) \/ SshProxy!Remove(c)
    <3>1. record' \in [Profile -> Loaded]
      BY <1>0, <2>4 DEF SshProxy!StartCheck, SshProxy!StopCheck, SshProxy!Remove, SshProxy!Drop, Loaded
    <3> QED
      BY <1>0, <2>4, <3>1 DEF SshProxy!StartCheck, SshProxy!StopCheck, SshProxy!Remove
  <2>5. CASE SshProxy!Term(c) \/ SshProxy!Kill(c)
    BY <1>0, <2>5 DEF SshProxy!Term, SshProxy!Kill, SshProxy!Deliver
  <2>6. CASE \/ SshProxy!EnsurePort(c) \/ SshProxy!Spawn(c) \/ SshProxy!SpawnFails(c)
             \/ SshProxy!WaitReady(c) \/ SshProxy!WaitExit(c) \/ SshProxy!ExitTimeout(c)
    BY <1>0, <2>6 DEF SshProxy!EnsurePort, SshProxy!Spawn, SshProxy!SpawnFails, SshProxy!WaitReady,
       SshProxy!WaitExit, SshProxy!ExitTimeout
  <2> QED
    BY <1>1, <2>1, <2>2, <2>3, <2>4, <2>5, <2>6 DEF SshProxy!StartStep, SshProxy!StopStep
<1>2. CASE \E c \in Client, p \in Profile : SshProxy!StartLoad(c, p) \/ SshProxy!StopLoad(c, p)
  BY <1>0, <1>2 DEF SshProxy!StartLoad, SshProxy!StopLoad, SshProxy!LoadServer
<1>3. CASE \E p \in Profile, force \in BOOLEAN : SshProxy!Setup(p, force)
  BY <1>0, <1>3 DEF SshProxy!Setup
<1>4. CASE SshProxy!EditConfig
  BY <1>0, <1>4 DEF SshProxy!EditConfig
<1>5. CASE \E s \in Sess : SshProxy!Bind(s) \/ SshProxy!SshExit(s)
  BY <1>0, <1>5 DEF SshProxy!Bind, SshProxy!SshExit
<1>6. CASE SshProxy!ForeignListener \/ SshProxy!PidReused \/ UNCHANGED sshproxyVars
  BY <1>0, <1>6 DEF SshProxy!ForeignListener, SshProxy!PidReused, sshproxyVars
<1> QED
  BY <1>1, <1>2, <1>3, <1>4, <1>5, <1>6 DEF SshProxy!Next

\* What a step of a command does to its own variables.
Turns(c, step) ==
  /\ pc[c] \notin SshProxy!Ended /\ step \in SshProxy!Step
  /\ UNCHANGED <<config, prof, cur>>
  /\ pc' = [pc EXCEPT ![c] = step]
  /\ step = "stopped" => pc[c] = "remove"
  /\ step = "remove" => pc[c] \in {"exit", "killed"} /\ ~SshProxy!Alive(cur[c].pid)
  /\ step \in Stopping => pc[c] \in Stopping
  /\ step = "save" => pc[c] = "wait"
  /\ step = "wait" => SshProxy!Spawn(c)
  /\ step = "spawn" => pc[c] = "port"
  /\ step = "port" => pc[c] = "check" /\ ((cur[c] = None /\ record' = record) \/ SshProxy!Drop(c))
  /\ step \in {"spawn", "wait", "save"} \cup Stopping => record' = record
  /\ step # "check"
  /\ mine' = mine \/ step = "wait"

\* Every step of a command is such a turn.
LEMMA CommandMoves ==
  ASSUME NEW c \in Client,
         SshProxy!Interrupt(c) \/ SshProxy!StartStep(c) \/ SshProxy!StopStep(c)
  PROVE  \E step : Turns(c, step)
<1> USE DEF SshProxy!Goto, SshProxy!Step, SshProxy!Ended, Stopping, Turns
<1>1. CASE SshProxy!Interrupt(c)
  <2>1. Turns(c, "failed")
    BY <1>1 DEF SshProxy!Interrupt, SshProxy!Return
  <2> QED
    BY <2>1
<1>2. CASE SshProxy!SpawnFails(c)
  <2>1. Turns(c, "failed")
    BY <1>2 DEF SshProxy!SpawnFails
  <2> QED
    BY <2>1
<1>3. CASE SshProxy!Spawn(c)
  <2>1. Turns(c, "wait")
    BY <1>3 DEF SshProxy!Spawn
  <2> QED
    BY <2>1
<1>4. CASE SshProxy!WaitReady(c)
  <2>1. Turns(c, "save")
    BY <1>4 DEF SshProxy!WaitReady
  <2> QED
    BY <2>1
<1>5. CASE SshProxy!WaitFails(c)
  <2>1. Turns(c, "failed")
    BY <1>5 DEF SshProxy!WaitFails, SshProxy!Return
  <2> QED
    BY <2>1
<1>6. CASE SshProxy!Save(c)
  <2>1. Turns(c, "started")
    BY <1>6 DEF SshProxy!Save, SshProxy!Return
  <2> QED
    BY <2>1
<1>7. CASE SshProxy!SaveFails(c)
  <2>1. Turns(c, "failed")
    BY <1>7 DEF SshProxy!SaveFails, SshProxy!Return
  <2> QED
    BY <2>1
<1>8. CASE SshProxy!WaitExit(c)
  <2>1. Turns(c, "remove")
    BY <1>8 DEF SshProxy!WaitExit
  <2> QED
    BY <2>1
<1>9. CASE SshProxy!StartCheck(c)
  <2>1. Turns(c, "failed") \/ Turns(c, "port")
    BY <1>9 DEF SshProxy!StartCheck
  <2> QED
    BY <2>1
<1>10. CASE SshProxy!EnsurePort(c)
  <2>1. Turns(c, "spawn") \/ Turns(c, "failed")
    BY <1>10 DEF SshProxy!EnsurePort
  <2> QED
    BY <2>1
<1>11. CASE SshProxy!StopCheck(c)
  <2>1. Turns(c, "term") \/ Turns(c, "idle") \/ Turns(c, "failed")
    BY <1>11 DEF SshProxy!StopCheck
  <2> QED
    BY <2>1
<1>12. CASE SshProxy!Term(c)
  <2>1. Turns(c, "exit") \/ Turns(c, "failed")
    BY <1>12 DEF SshProxy!Term
  <2> QED
    BY <2>1
<1>13. CASE SshProxy!ExitTimeout(c)
  <2>1. Turns(c, "failed") \/ Turns(c, "kill")
    BY <1>13 DEF SshProxy!ExitTimeout
  <2> QED
    BY <2>1
<1>14. CASE SshProxy!Kill(c)
  <2>1. Turns(c, "killed") \/ Turns(c, "failed")
    BY <1>14 DEF SshProxy!Kill
  <2> QED
    BY <2>1
<1>15. CASE SshProxy!Remove(c)
  <2>1. Turns(c, "stopped") \/ Turns(c, "failed")
    BY <1>15 DEF SshProxy!Remove
  <2> QED
    BY <2>1
<1> QED
  BY <1>1, <1>2, <1>3, <1>4, <1>5, <1>6, <1>7, <1>8, <1>9, <1>10, <1>11, <1>12, <1>13, <1>14, <1>15
     DEF SshProxy!StartStep, SshProxy!StopStep

\* What the load of a command does.
Loads(c, p) ==
  /\ pc[c] \in SshProxy!Ended
  /\ \E step \in {"check", "idle", "stopCheck"} :
       /\ pc' = [pc EXCEPT ![c] = step]
       /\ step = "stopCheck" => record[p] # None
  /\ prof' = [prof EXCEPT ![c] = p]
  /\ cur' = [cur EXCEPT ![c] = record[p]]
  /\ mine' = [mine EXCEPT ![c] = None]
  /\ UNCHANGED <<config, record, ssh, port, stranger, termed, adrift, hit>>

\* The steps of the module, by what they do to the commands.
LEMMA ProxyMoves ==
  ASSUME SshProxy!Next \/ UNCHANGED sshproxyVars
  PROVE  \/ \E c \in Client : SshProxy!Interrupt(c) \/ SshProxy!StartStep(c) \/ SshProxy!StopStep(c)
         \/ \E c \in Client, p \in Profile : Loads(c, p)
         \/ UNCHANGED <<record, pc, prof, cur, mine, termed, adrift>>
<1>1. ASSUME NEW c \in Client, NEW p \in Profile, SshProxy!StartLoad(c, p) \/ SshProxy!StopLoad(c, p)
      PROVE  Loads(c, p)
  <2>1. CASE SshProxy!StartLoad(c, p)
    BY <2>1 DEF SshProxy!StartLoad, SshProxy!LoadServer, SshProxy!Goto, Loads
  <2>2. CASE SshProxy!StopLoad(c, p)
    BY <2>2 DEF SshProxy!StopLoad, SshProxy!LoadServer, SshProxy!Goto, Loads
  <2> QED
    BY <1>1, <2>1, <2>2
<1>2. CASE \/ \E p \in Profile, force \in BOOLEAN : SshProxy!Setup(p, force)
           \/ \E s \in Sess : SshProxy!Bind(s) \/ SshProxy!SshExit(s)
           \/ SshProxy!EditConfig \/ SshProxy!ForeignListener \/ SshProxy!PidReused
           \/ UNCHANGED sshproxyVars
  BY <1>2 DEF SshProxy!Setup, SshProxy!Bind, SshProxy!SshExit, SshProxy!EditConfig,
     SshProxy!ForeignListener, SshProxy!PidReused, sshproxyVars
<1> QED
  BY <1>1, <1>2 DEF SshProxy!Next

\* Every step keeps the types of the commands.
LEMMA CommandsTypeStep ==
  ASSUME SshProxy!TypeOK, SshProxy!Next \/ UNCHANGED sshproxyVars
  PROVE  CommandsType'
<1>0. FilesType /\ CommandsType
  BY ProxyTypes
<1> USE DEF CommandsType
<1>1. ASSUME NEW c \in Client, SshProxy!Interrupt(c) \/ SshProxy!StartStep(c) \/ SshProxy!StopStep(c)
      PROVE  CommandsType'
  <2> PICK step : Turns(c, step)
    BY <1>1, CommandMoves
  <2>1. mine' \in [Client -> Sess \cup {None}]
    BY <1>0 DEF Turns, SshProxy!Spawn
  <2> QED
    BY <1>0, <2>1 DEF Turns
<1>2. ASSUME NEW c \in Client, NEW p \in Profile, Loads(c, p) PROVE CommandsType'
  BY <1>0, <1>2 DEF Loads, FilesType, SshProxy!Step, SshProxy!Ended
<1>3. CASE UNCHANGED <<record, pc, prof, cur, mine, termed, adrift>>
  BY <1>0, <1>3
<1> QED
  BY <1>1, <1>2, <1>3, ProxyMoves

\* The type of the process table, to be primed.
TableType == ssh \in [Sess -> SshType]

\* Both facts about the types, of the next state.
LEMMA ProxyTypesNext ==
  /\ HolderInv' => PidsType'
  /\ FilesType' /\ CommandsType' /\ PortInv' /\ TableType' /\ PidsType' => SshProxy!TypeOK'
<1>1. HolderInv => PidsType
  BY PidsTyped
<1>2. FilesType /\ CommandsType /\ PortInv /\ TableType /\ PidsType => SshProxy!TypeOK
  BY ProxyTypes DEF TableType
<1> QED
  BY <1>1, <1>2, PTL

\* Every step keeps the types, and a pid with one holder.
LEMMA ProxyTypeStep ==
  ASSUME SshProxy!SshProxyAssumption, ProxyInv, SshProxy!Next \/ UNCHANGED sshproxyVars
  PROVE  SshProxy!TypeOK' /\ HolderInv'
<1> USE DEF ProxyInv
<1>1. FilesType' /\ CommandsType' /\ PortInv' /\ ssh' \in [Sess -> SshType]
  BY FilesTypeStep, CommandsTypeStep, PortStep, SshMoves, SshTyped
<1>2. HolderInv'
  BY HolderStep, SshMoves
<1> QED
  BY <1>1, <1>2, ProxyTypesNext DEF TableType

\* What a step does to the records: the command that acts drops or saves one.
LEMMA RecordMoves ==
  ASSUME SshProxy!TypeOK, SshProxy!Next \/ UNCHANGED sshproxyVars
  PROVE  \/ UNCHANGED record
         \/ \E c \in Client :
              /\ SshProxy!Drop(c)
              /\ \/ pc[c] = "check" /\ pc'[c] = "port" /\ cur[c] # None /\ ~SshProxy!Alive(cur[c].pid)
                 \/ pc[c] = "stopCheck" /\ ~SshProxy!Alive(cur[c].pid) /\ pc'[c] = "idle"
                 \/ pc[c] = "remove" /\ pc'[c] = "stopped"
         \/ \E c \in Client :
              /\ pc[c] = "save"
              /\ record' = [record EXCEPT ![prof[c]] = [id |-> mine[c], pid |-> ssh[mine[c]].pid]]
<1>0. pc \in [Client -> SshProxy!Step]
  BY DEF SshProxy!TypeOK
<1>1. ASSUME NEW c \in Client, SshProxy!Interrupt(c) \/ SshProxy!StartStep(c) \/ SshProxy!StopStep(c)
      PROVE  \/ UNCHANGED record
             \/ /\ SshProxy!Drop(c)
                /\ \/ pc[c] = "check" /\ pc'[c] = "port" /\ cur[c] # None /\ ~SshProxy!Alive(cur[c].pid)
                   \/ pc[c] = "stopCheck" /\ ~SshProxy!Alive(cur[c].pid) /\ pc'[c] = "idle"
                   \/ pc[c] = "remove" /\ pc'[c] = "stopped"
             \/ /\ pc[c] = "save"
                /\ record' = [record EXCEPT ![prof[c]] = [id |-> mine[c], pid |-> ssh[mine[c]].pid]]
  <2>1. CASE SshProxy!StartCheck(c)
    BY <1>0, <2>1 DEF SshProxy!StartCheck, SshProxy!Goto
  <2>2. CASE SshProxy!StopCheck(c)
    BY <1>0, <2>2 DEF SshProxy!StopCheck, SshProxy!Goto
  <2>3. CASE SshProxy!Remove(c)
    BY <1>0, <2>3 DEF SshProxy!Remove, SshProxy!Goto
  <2>4. CASE SshProxy!Save(c)
    BY <2>4 DEF SshProxy!Save
  <2>5. CASE \/ SshProxy!Interrupt(c) \/ SshProxy!WaitFails(c) \/ SshProxy!SaveFails(c)
             \/ SshProxy!EnsurePort(c) \/ SshProxy!Spawn(c) \/ SshProxy!SpawnFails(c)
             \/ SshProxy!WaitReady(c) \/ SshProxy!Term(c) \/ SshProxy!WaitExit(c)
             \/ SshProxy!ExitTimeout(c) \/ SshProxy!Kill(c)
    BY <2>5 DEF SshProxy!Interrupt, SshProxy!WaitFails, SshProxy!SaveFails, SshProxy!EnsurePort,
       SshProxy!Spawn, SshProxy!SpawnFails, SshProxy!WaitReady, SshProxy!Term, SshProxy!WaitExit,
       SshProxy!ExitTimeout, SshProxy!Kill
  <2> QED
    BY <1>1, <2>1, <2>2, <2>3, <2>4, <2>5 DEF SshProxy!StartStep, SshProxy!StopStep
<1> QED
  BY <1>1, ProxyMoves DEF Loads

\* A record stays linked.
LinkedNext(r) == ssh'[r.id].st # "unused" /\ ssh'[r.id].pid = r.pid

\* Every step keeps the links between records, commands and processes.
LEMMA LinkStep ==
  ASSUME SshProxy!SshProxyAssumption, ProxyInv, SshProxy!Next \/ UNCHANGED sshproxyVars
  PROVE  LinkInv'
<1> USE DEF ProxyInv
<1>1. ASSUME NEW s \in Sess
      PROVE  /\ ssh[s].st # "unused" => ssh'[s].st # "unused" /\ ssh'[s].pid = ssh[s].pid
             /\ ssh'[s].st # "unused" => ssh'[s].pid \in Pid
  BY SshMoves, SshKept
<1>2. ASSUME NEW r \in Loaded, r # None, Linked(r) PROVE LinkedNext(r)
  BY <1>1, <1>2 DEF Linked, LinkedNext, Loaded
<1>3. FilesType /\ CommandsType
  BY ProxyTypes
<1>4. ASSUME NEW p \in Profile, record'[p] # None PROVE LinkedNext(record'[p])
  <2>1. CASE record'[p] = record[p]
    BY <1>2, <1>3, <1>4, <2>1 DEF LinkInv, FilesType
  <2>2. CASE record'[p] # record[p]
    <3>1. PICK c \in Client : /\ pc[c] = "save"
                              /\ record'[p] = [id |-> mine[c], pid |-> ssh[mine[c]].pid]
      BY <1>3, <1>4, <2>2, RecordMoves DEF SshProxy!Drop, FilesType
    <3>2. mine[c] \in Sess /\ ssh[mine[c]].st # "unused"
      BY <3>1 DEF LinkInv
    <3> QED
      BY <1>1, <3>1, <3>2 DEF LinkedNext
  <2> QED
    BY <2>1, <2>2
<1>5. \A s \in Sess : ssh'[s].st # "unused" => ssh'[s].pid \in Pid
  BY <1>1
<1>6. \A c \in Client : cur[c] \in Loaded /\ (cur[c] # None => LinkedNext(cur[c]))
  BY <1>2, <1>3 DEF LinkInv, CommandsType
<1>7. ASSUME NEW c \in Client, NEW step, Turns(c, step) PROVE LinkInv'
  <2>1. \A d \in Client : cur'[d] # None => LinkedNext(cur'[d])
    BY <1>6, <1>7 DEF Turns
  <2>2. \A d \in Client : pc'[d] \in Stopping \cup {"stopped"} => cur'[d] # None
    BY <1>3, <1>7 DEF Turns, LinkInv, CommandsType, Stopping
  <2>3. ASSUME NEW d \in Client, pc'[d] \in {"wait", "save"}
        PROVE  mine'[d] \in Sess /\ ssh'[mine'[d]].st # "unused"
    <3>1. CASE step = "wait"
      <4>1. PICK s \in Sess, p \in Pid :
              /\ ssh[s].st = "unused" /\ ssh' = [ssh EXCEPT ![s] = [st |-> "connecting", pid |-> p]]
              /\ mine' = [mine EXCEPT ![c] = s]
        BY <1>7, <3>1 DEF Turns, SshProxy!Spawn
      <4>2. CASE d = c
        BY <1>3, <4>1, <4>2 DEF CommandsType, SshProxy!TypeOK
      <4>3. CASE d # c
        BY <1>1, <1>3, <1>7, <2>3, <4>1, <4>3 DEF Turns, LinkInv, CommandsType
      <4> QED
        BY <4>2, <4>3
    <3>2. CASE step # "wait"
      BY <1>1, <1>3, <1>7, <2>3, <3>2 DEF Turns, LinkInv, CommandsType
    <3> QED
      BY <3>1, <3>2
  <2> QED
    BY <1>4, <1>5, <2>1, <2>2, <2>3 DEF LinkInv, Linked, LinkedNext
<1>8. ASSUME NEW c \in Client, NEW q \in Profile, Loads(c, q) PROVE LinkInv'
  <2>1. \A d \in Client : cur'[d] # None => LinkedNext(cur'[d])
    BY <1>2, <1>3, <1>6, <1>8 DEF Loads, LinkInv, CommandsType, FilesType
  <2>2. \A d \in Client : pc'[d] \in Stopping \cup {"stopped"} => cur'[d] # None
    BY <1>3, <1>8 DEF Loads, LinkInv, CommandsType, Stopping
  <2>3. \A d \in Client : pc'[d] \in {"wait", "save"} => mine'[d] \in Sess /\ ssh'[mine'[d]].st # "unused"
    BY <1>3, <1>8 DEF Loads, LinkInv, CommandsType
  <2> QED
    BY <1>4, <1>5, <2>1, <2>2, <2>3 DEF LinkInv, Linked, LinkedNext
<1>9. CASE UNCHANGED <<record, pc, prof, cur, mine, termed, adrift>>
  <2>1. \A d \in Client : cur'[d] # None => LinkedNext(cur'[d])
    BY <1>6, <1>9
  <2>2. \A d \in Client : pc'[d] \in Stopping \cup {"stopped"} => cur'[d] # None
    BY <1>9 DEF LinkInv
  <2>3. \A d \in Client : pc'[d] \in {"wait", "save"} => mine'[d] \in Sess /\ ssh'[mine'[d]].st # "unused"
    BY <1>1, <1>9 DEF LinkInv
  <2> QED
    BY <1>4, <1>5, <2>1, <2>2, <2>3 DEF LinkInv, Linked, LinkedNext
<1> QED
  BY <1>7, <1>8, <1>9, ProxyMoves, CommandMoves

\* An ssh whose pid nobody has is not running.
LEMMA GoneIsEnded ==
  ASSUME NEW r, r.id \in Sess, Linked(r), ~SshProxy!Alive(r.pid)
  PROVE  ssh[r.id].st \notin SshProxy!Running
  BY DEF Linked, SshProxy!Alive, SshProxy!Free, SshProxy!Holds

\* Every step keeps a stop honest.
LEMMA HonestStep ==
  ASSUME SshProxy!SshProxyAssumption, ProxyInv, SshProxy!Next \/ UNCHANGED sshproxyVars
  PROVE  SshProxy!StopHonest'
<1> USE DEF ProxyInv
<1>1. ASSUME NEW r \in Loaded, r # None, Linked(r), ssh[r.id].st \notin SshProxy!Running
      PROVE  ssh'[r.id].st \notin SshProxy!Running
  BY <1>1, SshMoves, SshKept DEF Linked, Loaded
<1>2. FilesType /\ CommandsType
  BY ProxyTypes
<1> SUFFICES ASSUME NEW d \in Client, pc'[d] \in {"remove", "stopped"}
             PROVE  ssh'[cur'[d].id].st \notin SshProxy!Running
  BY DEF SshProxy!StopHonest
<1>3. ASSUME pc[d] \in {"remove", "stopped"}, cur'[d] = cur[d]
      PROVE  ssh'[cur'[d].id].st \notin SshProxy!Running
  BY <1>1, <1>2, <1>3 DEF SshProxy!StopHonest, LinkInv, CommandsType, Stopping
<1>4. ASSUME NEW c \in Client, NEW step, Turns(c, step) PROVE ssh'[cur'[d].id].st \notin SshProxy!Running
  <2>1. CASE d = c /\ step = "remove"
    <3>1. pc[c] \in Stopping /\ ~SshProxy!Alive(cur[c].pid) /\ cur' = cur
      BY <1>4, <2>1 DEF Turns, Stopping
    <3>2. cur[c] # None /\ Linked(cur[c]) /\ cur[c] \in Loaded
      BY <1>2, <3>1 DEF LinkInv, CommandsType
    <3>3. ssh[cur[c].id].st \notin SshProxy!Running
      BY <3>1, <3>2, GoneIsEnded DEF Loaded
    <3> QED
      BY <1>1, <2>1, <3>1, <3>2, <3>3
  <2>2. CASE ~(d = c /\ step = "remove")
    <3>1. pc[d] \in {"remove", "stopped"} /\ cur'[d] = cur[d]
      BY <1>2, <1>4, <2>2 DEF Turns, CommandsType
    <3> QED
      BY <1>3, <3>1
  <2> QED
    BY <2>1, <2>2
<1>5. ASSUME NEW c \in Client, NEW q \in Profile, Loads(c, q)
      PROVE  ssh'[cur'[d].id].st \notin SshProxy!Running
  <2>1. d # c /\ pc[d] \in {"remove", "stopped"} /\ cur'[d] = cur[d]
    BY <1>2, <1>5 DEF Loads, CommandsType
  <2> QED
    BY <1>3, <2>1
<1>6. CASE UNCHANGED <<record, pc, prof, cur, mine, termed, adrift>>
  BY <1>3, <1>6
<1> QED
  BY <1>4, <1>5, <1>6, ProxyMoves, CommandMoves

\* The invariant is inductive.
LEMMA ProxyStep ==
  ASSUME SshProxy!SshProxyAssumption, ProxyInv, SshProxy!Next \/ UNCHANGED sshproxyVars
  PROVE  ProxyInv'
  BY ProxyTypeStep, LinkStep, HonestStep DEF ProxyInv

\* The invariant holds with no ssh started and nothing recorded.
LEMMA ProxyInit == ASSUME SshProxy!SshProxyAssumption, SshProxy!Init PROVE ProxyInv
<1> USE DEF SshProxy!Init
<1>1. HolderInv /\ LinkInv /\ SshProxy!StopHonest
  BY DEF HolderInv, Held, LinkInv, SshProxy!StopHonest, SshProxy!Running, Stopping
<1>2. FilesType /\ CommandsType /\ PortInv /\ ssh \in [Sess -> SshType]
  BY DEF FilesType, CommandsType, PortInv, SshType, Loaded, SshProxy!Step, SshProxy!Ended,
     SshProxy!Phase, SshProxy!SshProxyAssumption
<1> QED
  BY <1>1, <1>2, PidsTyped, ProxyTypes DEF ProxyInv

\* With one command at a time nobody changes the record that it has loaded: a start that has
\* passed its check has none, and a stop the one it is stopping.
SoloInv ==
  /\ \A c, d \in Client : pc[c] # "idle" /\ pc[d] # "idle" => c = d
  /\ \A c \in Client : pc[c] \notin SshProxy!Ended => prof[c] \in Profile
  /\ \A c \in Client : pc[c] \in Stopping \cup {"check"} => cur[c] = record[prof[c]]
  /\ \A c \in Client : pc[c] \in {"port", "spawn", "wait", "save"} => record[prof[c]] = None

\* Every step of one command at a time keeps that.
LEMMA SoloStep ==
  ASSUME ProxyInv, SoloInv, SshProxy!Next \/ UNCHANGED sshproxyVars,
         Alone' \/ UNCHANGED sshproxyVars
  PROVE  SoloInv'
<1>1. FilesType /\ CommandsType
  BY ProxyTypes DEF ProxyInv
<1>2. \A c, d \in Client : pc'[c] # "idle" /\ pc'[d] # "idle" => c = d
  <2>1. CASE Alone'
    BY <2>1 DEF Alone
  <2>2. CASE UNCHANGED sshproxyVars
    BY <2>2 DEF SoloInv, sshproxyVars
  <2> QED
    BY <2>1, <2>2
<1>3. ASSUME NEW c \in Client, NEW step, Turns(c, step) PROVE SoloInv'
  <2>1. \A d \in Client : d # c => pc'[d] = "idle"
    BY <1>1, <1>3 DEF SoloInv, Turns, CommandsType, SshProxy!Ended
  <2>2. pc'[c] = step /\ prof'[c] = prof[c] /\ cur'[c] = cur[c] /\ prof[c] \in Profile
    BY <1>1, <1>3 DEF SoloInv, Turns, CommandsType
  <2>3. step \in Stopping \cup {"check"} => cur[c] = record'[prof[c]]
    BY <1>3 DEF SoloInv, Turns
  <2>4. step \in {"port", "spawn", "wait", "save"} => record'[prof[c]] = None
    <3>1. step = "port" => record'[prof[c]] = None
      BY <1>1, <1>3, <2>2 DEF SoloInv, Turns, SshProxy!Drop, FilesType
    <3>2. step = "wait" => pc[c] = "spawn"
      BY <1>3 DEF Turns, SshProxy!Spawn
    <3>3. step \in {"spawn", "wait", "save"} => pc[c] \in {"port", "spawn", "wait"} /\ record' = record
      BY <1>3, <3>2 DEF Turns
    <3> QED
      BY <3>1, <3>3 DEF SoloInv
  <2> QED
    BY <1>2, <2>1, <2>2, <2>3, <2>4 DEF SoloInv, Stopping, SshProxy!Ended
<1>4. ASSUME NEW c \in Client, NEW p \in Profile, Loads(c, p) PROVE SoloInv'
  <2>1. \A d \in Client : d # c => pc'[d] = pc[d] /\ prof'[d] = prof[d] /\ cur'[d] = cur[d]
    BY <1>1, <1>4 DEF Loads, CommandsType
  <2>2. pc'[c] \in {"check", "idle", "stopCheck"} /\ prof'[c] = p /\ cur'[c] = record[p] /\ record' = record
    BY <1>1, <1>4 DEF Loads, CommandsType
  <2> QED
    BY <1>2, <1>4, <2>1, <2>2 DEF SoloInv, Stopping, SshProxy!Ended
<1>5. CASE UNCHANGED <<record, pc, prof, cur, mine, termed, adrift>>
  BY <1>5 DEF SoloInv
<1> QED
  BY <1>3, <1>4, <1>5, ProxyMoves, CommandMoves

\* With one command at a time a record is dropped when its ssh has ended.
LEMMA SoloDrops ==
  ASSUME ProxyInv, SoloInv, SshProxy!Next \/ UNCHANGED sshproxyVars
  PROVE  SshProxy!DropsEnded
<1> SUFFICES ASSUME NEW p \in Profile, record[p] # None, record'[p] # record[p]
             PROVE  ssh[record[p].id].st \notin SshProxy!Running
  BY DEF SshProxy!DropsEnded
<1>1. FilesType /\ CommandsType
  BY ProxyTypes DEF ProxyInv
<1>2. record[p].id \in Sess /\ Linked(record[p])
  BY <1>1 DEF ProxyInv, LinkInv, FilesType, Loaded
<1>3. CASE \E c \in Client : /\ SshProxy!Drop(c) /\ pc[c] \in {"check", "stopCheck"}
                             /\ ~SshProxy!Alive(cur[c].pid)
  <2> PICK c \in Client : /\ SshProxy!Drop(c) /\ pc[c] \in {"check", "stopCheck"}
                          /\ ~SshProxy!Alive(cur[c].pid)
    BY <1>3
  <2>1. prof[c] = p
    BY <1>1 DEF SshProxy!Drop, FilesType
  <2>2. cur[c] = record[p]
    BY <2>1 DEF SoloInv, Stopping
  <2> QED
    BY <1>2, <2>2, GoneIsEnded
<1>4. CASE \E c \in Client : SshProxy!Drop(c) /\ pc[c] = "remove"
  <2> PICK c \in Client : SshProxy!Drop(c) /\ pc[c] = "remove"
    BY <1>4
  <2>1. prof[c] = p
    BY <1>1 DEF SshProxy!Drop, FilesType
  <2>2. cur[c] = record[p]
    BY <2>1 DEF SoloInv, Stopping
  <2> QED
    BY <2>2 DEF ProxyInv, SshProxy!StopHonest
<1>5. CASE \E c \in Client : /\ pc[c] = "save"
                             /\ record' = [record EXCEPT ![prof[c]] = [id |-> mine[c], pid |-> ssh[mine[c]].pid]]
  BY <1>1, <1>5 DEF SoloInv, FilesType
<1> QED
  BY <1>3, <1>4, <1>5, RecordMoves DEF ProxyInv

\* What was signalled or lost stays so; a start that ends has saved, signalled or lost its ssh.
LEMMA TrackMoves ==
  ASSUME SshProxy!SshProxyAssumption, ProxyInv, SoloInv, NEW c \in Client,
         SshProxy!Interrupt(c) \/ SshProxy!StartStep(c) \/ SshProxy!StopStep(c)
  PROVE  /\ termed \subseteq termed' /\ adrift \subseteq adrift'
         /\ pc[c] \in {"wait", "save"} =>
              \/ mine[c] \in termed' \cup adrift'
              \/ mine'[c] = mine[c] /\ pc'[c] \in {"wait", "save"}
              \/ record'[prof[c]] = [id |-> mine[c], pid |-> ssh[mine[c]].pid]
<1>1. FilesType /\ CommandsType
  BY ProxyTypes DEF ProxyInv
<1>2. pc[c] \in {"wait", "save"} => mine[c] # None /\ prof[c] \in Profile
  BY DEF ProxyInv, LinkInv, SshProxy!SshProxyAssumption, SoloInv, SshProxy!Ended
<1>3. CASE SshProxy!Interrupt(c)
  BY <1>2, <1>3 DEF SshProxy!Interrupt
<1>4. CASE SshProxy!WaitFails(c) \/ SshProxy!SaveFails(c)
  BY <1>4 DEF SshProxy!WaitFails, SshProxy!SaveFails
<1>5. CASE SshProxy!Save(c)
  BY <1>1, <1>2, <1>5 DEF SshProxy!Save, FilesType
<1>6. CASE SshProxy!WaitReady(c)
  BY <1>1, <1>6 DEF SshProxy!WaitReady, SshProxy!Goto, CommandsType
<1>7. CASE \/ SshProxy!StartCheck(c) \/ SshProxy!EnsurePort(c) \/ SshProxy!Spawn(c)
           \/ SshProxy!SpawnFails(c) \/ SshProxy!StopCheck(c) \/ SshProxy!WaitExit(c)
           \/ SshProxy!ExitTimeout(c) \/ SshProxy!Remove(c)
  BY <1>7 DEF SshProxy!StartCheck, SshProxy!EnsurePort, SshProxy!Spawn, SshProxy!SpawnFails,
     SshProxy!StopCheck, SshProxy!WaitExit, SshProxy!ExitTimeout, SshProxy!Remove
<1>8. CASE SshProxy!Term(c) \/ SshProxy!Kill(c)
  BY <1>8 DEF SshProxy!Term, SshProxy!Kill, SshProxy!Deliver
<1> QED
  BY <1>3, <1>4, <1>5, <1>6, <1>7, <1>8 DEF SshProxy!StartStep, SshProxy!StopStep

\* An ssh that runs after a step ran before it, or a command has just started it.
LEMMA RunningBefore ==
  ASSUME SshProxy!SshProxyAssumption, ProxyInv, SshProxy!Next \/ UNCHANGED sshproxyVars,
         NEW s \in Sess, ssh'[s].st \in SshProxy!Running, ssh[s].st \notin SshProxy!Running
  PROVE  \E c \in Client : mine'[c] = s /\ pc'[c] = "wait"
<1>1. FilesType /\ CommandsType
  BY ProxyTypes DEF ProxyInv
<1>2. ssh[s].st = "unused"
  BY SshMoves, SshKept DEF ProxyInv
<1>3. ~Goes
  BY <1>2 DEF Goes, Onward, SshProxy!Running
<1>4. PICK t \in Sess : Begins(t)
  BY <1>3, SshMoves DEF ProxyInv
<1>5. t = s
  BY <1>4 DEF Begins
<1>6. PICK c \in Client : pc' = [pc EXCEPT ![c] = "wait"] /\ mine' = [mine EXCEPT ![c] = s]
  BY <1>4, <1>5 DEF Begins
<1> QED
  BY <1>1, <1>6 DEF CommandsType

\* With one command at a time every step leaves a running ssh recorded, being started,
\* signalled or lost to an interrupt.
LEMMA TrackStep ==
  ASSUME SshProxy!SshProxyAssumption, ProxyInv, SoloInv, SshProxy!NothingUntracked,
         SshProxy!Next \/ UNCHANGED sshproxyVars
  PROVE  SshProxy!NothingUntracked'
<1> SUFFICES ASSUME NEW s \in Sess, ssh'[s].st \in SshProxy!Running
             PROVE  \/ \E p \in Profile : record'[p] # None /\ record'[p].id = s
                    \/ s \in termed' \/ s \in adrift'
                    \/ \E c \in Client : mine'[c] = s /\ pc'[c] \in {"wait", "save"}
  BY DEF SshProxy!NothingUntracked
<1>1. FilesType /\ CommandsType
  BY ProxyTypes DEF ProxyInv
<1>2. CASE ssh[s].st \notin SshProxy!Running
  BY <1>2, RunningBefore
<1>3. ASSUME NEW p \in Profile, record[p] # None, record[p].id = s, ssh[s].st \in SshProxy!Running
      PROVE  record'[p] = record[p]
  BY <1>3, SoloDrops DEF SshProxy!DropsEnded
<1>4. termed \subseteq termed' /\ adrift \subseteq adrift'
  BY ProxyMoves, TrackMoves DEF Loads
<1>5. ASSUME NEW c \in Client, mine[c] = s, pc[c] \in {"wait", "save"}
      PROVE  \/ \E p \in Profile : record'[p] # None /\ record'[p].id = s
             \/ s \in termed' \/ s \in adrift'
             \/ mine'[c] = s /\ pc'[c] \in {"wait", "save"}
  <2>1. prof[c] \in Profile
    BY <1>5 DEF SoloInv, SshProxy!Ended
  <2>2. ASSUME NEW d \in Client,
               SshProxy!Interrupt(d) \/ SshProxy!StartStep(d) \/ SshProxy!StopStep(d)
        PROVE  d = c
    <3>1. pc[d] \notin SshProxy!Ended
      BY <2>2, CommandMoves DEF Turns
    <3> QED
      BY <1>5, <3>1 DEF SoloInv, SshProxy!Ended
  <2>3. CASE \E d \in Client : SshProxy!Interrupt(d) \/ SshProxy!StartStep(d) \/ SshProxy!StopStep(d)
    <3>1. \/ s \in termed' \cup adrift'
          \/ mine'[c] = s /\ pc'[c] \in {"wait", "save"}
          \/ record'[prof[c]] = [id |-> s, pid |-> ssh[s].pid]
      BY <1>5, <2>2, <2>3, TrackMoves
    <3>2. ASSUME record'[prof[c]] = [id |-> s, pid |-> ssh[s].pid]
          PROVE  record'[prof[c]] # None /\ record'[prof[c]].id = s
      <4>1. ssh[s].pid \in Pid
        BY <1>5 DEF ProxyInv, LinkInv
      <4> QED
        BY <3>2, <4>1 DEF SshProxy!SshProxyAssumption
    <3> QED
      BY <2>1, <3>1, <3>2
  <2>4. CASE \E d \in Client, p \in Profile : Loads(d, p)
    BY <1>1, <1>5, <2>4 DEF Loads, CommandsType, SshProxy!Ended
  <2>5. CASE UNCHANGED <<record, pc, prof, cur, mine, termed, adrift>>
    BY <1>5, <2>5
  <2> QED
    BY <2>3, <2>4, <2>5, ProxyMoves
<1>6. CASE ssh[s].st \in SshProxy!Running
  <2>1. CASE \E p \in Profile : record[p] # None /\ record[p].id = s
    BY <1>3, <1>6, <2>1
  <2>2. CASE s \in termed \/ s \in adrift
    BY <1>4, <2>2
  <2>3. CASE \E c \in Client : mine[c] = s /\ pc[c] \in {"wait", "save"}
    BY <1>5, <2>3
  <2> QED
    BY <1>6, <2>1, <2>2, <2>3 DEF SshProxy!NothingUntracked
<1> QED
  BY <1>2, <1>6

\* ssh-proxy, for any commands, profiles, sessions and pids: no stop reports an ssh that is
\* still running as stopped, whoever else starts, stops, exits or takes over pids; and with
\* one command at a time a record is dropped or replaced only when its ssh has ended, and
\* every running ssh is recorded, being started, signalled or lost to an interrupt.
THEOREM SshProxyIsCorrect == Spec => SshProxyCorrect
<1> DEFINE I == /\ part \in {"sshproxy", "profiles"} => ProxyInv
                /\ part = "profiles" => SoloInv /\ SshProxy!NothingUntracked
<1>1. Init => I
  <2> SUFFICES ASSUME Init PROVE I
    OBVIOUS
  <2>1. ProxyInv
    BY AnyConnectAssumption, ProxyInit DEF Init
  <2>2. SoloInv /\ SshProxy!NothingUntracked
    BY DEF Init, SshProxy!Init, SoloInv, SshProxy!NothingUntracked, Stopping, SshProxy!Ended,
       SshProxy!Running
  <2> QED
    BY <2>1, <2>2
<1>2. I /\ [Next]_vars => I' /\ (part = "profiles" => SshProxy!DropsEnded)
  <2> SUFFICES ASSUME I, [Next]_vars PROVE I' /\ (part = "profiles" => SshProxy!DropsEnded)
    OBVIOUS
  <2>1. /\ part' = part
        /\ part \in {"sshproxy", "profiles"} => SshProxy!Next \/ UNCHANGED sshproxyVars
        /\ part = "profiles" => Alone' \/ UNCHANGED sshproxyVars
    BY DEF Next, vars
  <2>2. part \in {"sshproxy", "profiles"} => ProxyInv'
    BY <2>1, AnyConnectAssumption, ProxyStep
  <2>3. ASSUME part = "profiles" PROVE SoloInv' /\ SshProxy!NothingUntracked' /\ SshProxy!DropsEnded
    BY <2>1, <2>3, AnyConnectAssumption, SoloStep, TrackStep, SoloDrops
  <2> QED
    BY <2>1, <2>2, <2>3
<1>3. I => /\ part = "sshproxy" => SshProxy!TypeOK /\ SshProxy!StopHonest
           /\ part = "profiles" => SshProxy!TypeOK /\ SshProxy!StopHonest /\ SshProxy!NothingUntracked
  BY DEF ProxyInv
<1>4. (part = "profiles" => SshProxy!DropsEnded) => [part = "profiles" => SshProxy!DropsEnded]_sshproxyVars
  OBVIOUS
<1> QED
  BY <1>1, <1>2, <1>3, <1>4, PTL DEF Spec, SshProxyCorrect

=============================================================================
