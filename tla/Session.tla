------------------------------- MODULE Session -------------------------------
(***************************************************************************)
(* Logging in through WeChat Work and the token that later requests are    *)
(* resolved by: WechatController.userInfo, TokenUtil and CookieUtil.  A    *)
(* login is a request of its own thread, in steps at its remote calls: the *)
(* code is exchanged, the cookie's token is looked up in Redis, a fresh    *)
(* token is stored there, and the reply brings it to the browser.          *)
(***************************************************************************)
EXTENDS Integers

CONSTANTS Browsers,
          Users,       \* WeChat Work users (userId, used as openid)
          Tokens,      \* UUIDs
          Logins,      \* bound: the login requests of a behaviour
          Expire,      \* TOKEN_EXPIRE, the life of a token and its cookie in ticks
          MaxTime,     \* bound on the clock
          None         \* no token, no user

ASSUME NoneAssumption == None \notin Tokens /\ None \notin Users /\ None \notin Browsers
ASSUME TimeAssumption == Expire \in Nat /\ Expire > 1 /\ MaxTime \in Nat

VARIABLES
    now,       \* clock; a tick is longer than any request
    redis,     \* token -> [openid, until]; None as openid: never stored
    cookie,    \* browser -> [token, until]; None as token: no cookie
    login      \* the login requests

vars == <<now, redis, cookie, login>>

Unstored == [openid |-> None, until |-> 0]
NoCookie == [token |-> None, until |-> 0]

\* browser, user: who logs in where; sent: the token in the request's cookie;
\* token: the one setToken made; since: the tick the request was made in.
NotLoggingIn == [phase |-> "idle", browser |-> None, user |-> None, sent |-> None,
                 token |-> None, since |-> 0]

InFlight(l) == login[l].phase \notin {"idle", "done", "lost"}

\* TokenUtil.getToken for the cookie of a request.  Redis drops a key, and the
\* browser a cookie, when its time is over.
Lookup(token) == IF token # None /\ now < redis[token].until THEN redis[token].openid ELSE None
CookieOf(b) == IF now < cookie[b].until THEN cookie[b].token ELSE None
getToken(b) == Lookup(CookieOf(b))

-------------------------------------------------------------------------------
\* WeChat redirects the browser to /userInfo with a code for this user.
Authorize(l, b, u) ==
    /\ login[l].phase = "idle"
    /\ login' = [login EXCEPT ![l] = [phase |-> "code", browser |-> b, user |-> u,
                                      sent |-> CookieOf(b), token |-> None, since |-> now]]
    /\ UNCHANGED <<now, redis, cookie>>

\* getUserInfo(code) throws (a code used twice or too late): the exception is
\* swallowed and the redirect sent.
CodeRejected(l) ==
    /\ login[l].phase = "code"
    /\ login' = [login EXCEPT ![l].phase = "reply"]
    /\ UNCHANGED <<now, redis, cookie>>

\* Mutated form: every login makes a token.
CodeAccepted_always(l) ==
    /\ login[l].phase = "code"
    /\ login' = [login EXCEPT ![l].phase = "set token"]
    /\ UNCHANGED <<now, redis, cookie>>

\* The user is known; a token is set only if the request has no session yet.
CodeAccepted(l) ==
    /\ login[l].phase = "code"
    /\ login' = [login EXCEPT ![l].phase = IF Lookup(login[l].sent) = None THEN "set token"
                                                                          ELSE "reply"]
    /\ UNCHANGED <<now, redis, cookie>>

\* The token goes to Redis and into the response.
Store(l, token, openid, expire) ==
    /\ login[l].phase = "set token"
    /\ redis' = [redis EXCEPT ![token] = [openid |-> openid, until |-> now + expire]]
    /\ login' = [login EXCEPT ![l].phase = "reply", ![l].token = token]
    /\ UNCHANGED <<now, cookie>>

Fresh == {token \in Tokens : redis[token] = Unstored}

\* Mutated forms: a token that may be another login's; the token stored as its
\* own value; stored for the shorter time (EXPIRE), or for less than the cookie.
setToken_anyToken(l) == \E token \in Tokens : Store(l, token, login[l].user, Expire)
setToken_swapped(l) == \E token \in Fresh : Store(l, token, token, Expire)
setToken_shorter(l) == \E token \in Fresh : Store(l, token, login[l].user, 1)
setToken_lessThanCookie(l) == \E token \in Fresh : Store(l, token, login[l].user, Expire - 1)

\* setToken: the token is a fresh UUID.
setToken(l) == \E token \in Fresh : Store(l, token, login[l].user, Expire)

\* The redirect reaches the browser, with a cookie if a token was set.
Redirected(l) ==
    /\ login[l].phase = "reply"
    /\ login' = [login EXCEPT ![l].phase = "done"]
    /\ IF login[l].token = None
       THEN UNCHANGED cookie
       ELSE cookie' = [cookie EXCEPT ![login[l].browser] =
                            [token |-> login[l].token, until |-> now + Expire]]
    /\ UNCHANGED <<now, redis>>

\* The connection breaks, the server restarts, or Redis fails (an exception that
\* userInfo does not catch: an error page, no cookie).  Redis keeps what it has.
Lost(l) ==
    /\ InFlight(l)
    /\ login' = [login EXCEPT ![l].phase = "lost"]
    /\ UNCHANGED <<now, redis, cookie>>

\* No request outlives the tick after the one it was made in.
Tick ==
    /\ now < MaxTime
    /\ \A l \in Logins : InFlight(l) => login[l].since = now
    /\ now' = now + 1
    /\ UNCHANGED <<redis, cookie, login>>

Init == /\ now = 0
        /\ redis = [token \in Tokens |-> Unstored]
        /\ cookie = [b \in Browsers |-> NoCookie]
        /\ login = [l \in Logins |-> NotLoggingIn]

ServerStep(l) == CodeRejected(l) \/ CodeAccepted(l) \/ setToken(l) \/ Redirected(l)

Next == \/ \E l \in Logins, b \in Browsers, u \in Users : Authorize(l, b, u)
        \/ \E l \in Logins : ServerStep(l) \/ Lost(l)
        \/ Tick

Spec == Init /\ [][Next]_vars

-------------------------------------------------------------------------------
Phases == {"idle", "code", "set token", "reply", "done", "lost"}
Entries == [openid : Users \cup {None}, until : Nat]
TokenCookies == [token : Tokens \cup {None}, until : Nat]
Requests == [phase : Phases, browser : Browsers \cup {None}, user : Users \cup {None},
             sent : Tokens \cup {None}, token : Tokens \cup {None}, since : Nat]

(* Every value the variables take.                                           *)
TypeOK ==
    /\ now \in Nat
    /\ redis \in [Tokens -> Entries]
    /\ cookie \in [Browsers -> TokenCookies]
    /\ login \in [Logins -> Requests]

(* Whoever a browser's requests are resolved to (TokenUtil.getToken) logged  *)
(* in with that browser: tokens of concurrent logins never change owners.    *)
ResolvedWasAuthenticated ==
    \A b \in Browsers : getToken(b) # None =>
        \E l \in Logins : /\ login[l].phase = "done"
                          /\ login[l].browser = b /\ login[l].user = getToken(b)

(* A token is only ever made for a login without a session: a live session   *)
(* is never replaced by a login whose request carried it                     *)
(* (WechatController.userInfo, isBlank(getToken)).                           *)
LiveSessionIsKept ==
    [][\A b \in Browsers :
         /\ getToken(b) # None /\ getToken(b)' # None
         /\ CookieOf(b)' # CookieOf(b)
         => \E l \in Logins : /\ login[l].browser = b /\ login[l].phase = "reply"
                              /\ login'[l].phase = "done"
                              /\ login[l].sent # CookieOf(b)]_vars

(* A login that made a token leaves its browser resolved to its user when    *)
(* the redirect arrives, whatever other logins did meanwhile: the token is   *)
(* in Redis before the browser has it (TokenUtil.setToken).                  *)
LoginGivesSession ==
    [][\A l \in Logins :
         login[l].phase = "reply" /\ login'[l].phase = "done" /\ login[l].token # None
           => getToken(login[l].browser)' = login[l].user]_vars

(* A token stays in Redis as long as its cookie in the browser: setToken     *)
(* gives both TOKEN_EXPIRE, where RedisConstant has a shorter EXPIRE as      *)
(* well.  But for the cookie's last tick (it may come to the browser a tick  *)
(* after the token came to Redis) a browser that sends it has a session.     *)
SessionLastsAsItsCookie ==
    \A b \in Browsers : now + 1 < cookie[b].until => getToken(b) # None
==============================================================================
