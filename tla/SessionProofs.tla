---------------------------- MODULE SessionProofs ----------------------------
(***************************************************************************)
(* Theorems about Session for any number of browsers, users, tokens and    *)
(* logins, any life of a token and any time.                               *)
(***************************************************************************)
EXTENDS Session, TLAPS

-------------------------------------------------------------------------------
(* What the steps do to a request.                                           *)

\* Nothing changes but the phase of l.
SameButPhase(m) == /\ login'[m].browser = login[m].browser /\ login'[m].user = login[m].user
                   /\ login'[m].sent = login[m].sent
                   /\ login'[m].token = login[m].token /\ login'[m].since = login[m].since
OnlyPhase(l) == \A m \in Logins : SameButPhase(m) /\ (m # l => login'[m] = login[m])

LEMMA PhaseStep ==
    ASSUME TypeOK, NEW l \in Logins, NEW p \in Phases, login' = [login EXCEPT ![l].phase = p]
    PROVE  login' \in [Logins -> Requests] /\ OnlyPhase(l) /\ login'[l].phase = p
<1>1. login[l] \in Requests
  BY DEF TypeOK
<1>2. [login[l] EXCEPT !.phase = p] \in Requests
  BY <1>1 DEF Requests
<1>3. login' = [login EXCEPT ![l] = [login[l] EXCEPT !.phase = p]]
  OBVIOUS
<1>4. login' \in [Logins -> Requests]
  BY <1>2, <1>3 DEF TypeOK
<1>5. /\ login'[l] = [login[l] EXCEPT !.phase = p]
      /\ \A m \in Logins : m # l => login'[m] = login[m]
  BY <1>3 DEF TypeOK
<1>6. SameButPhase(l)
  BY <1>1, <1>5 DEF Requests, SameButPhase
<1>7. login'[l].phase = p
  BY <1>1, <1>5 DEF Requests
<1> QED
  BY <1>4, <1>5, <1>6, <1>7 DEF OnlyPhase, SameButPhase

(* A token is stored for the user of its request.                            *)
LEMMA StoreStep ==
    ASSUME TypeOK, NEW l \in Logins, setToken(l)
    PROVE  \E k \in Tokens :
              /\ redis[k] = Unstored
              /\ redis' \in [Tokens -> Entries]
              /\ redis'[k].openid = login[l].user /\ redis'[k].until = now + Expire
              /\ redis'[k] # Unstored
              /\ \A j \in Tokens : j # k => redis'[j] = redis[j]
              /\ login' \in [Logins -> Requests]
              /\ login[l].phase = "set token" /\ login'[l].phase = "reply"
              /\ login'[l].token = k /\ login'[l].user = login[l].user
              /\ login'[l].browser = login[l].browser /\ login'[l].since = login[l].since
              /\ \A m \in Logins : m # l => login'[m] = login[m]
              /\ UNCHANGED <<now, cookie>>
<1>1. PICK k \in Fresh : Store(l, k, login[l].user, Expire)
  BY DEF setToken
<1>2. k \in Tokens /\ redis[k] = Unstored
  BY <1>1 DEF Fresh
<1>3. login[l] \in Requests /\ now \in Nat
  BY DEF TypeOK
<1>4. now + Expire \in Nat
  BY <1>3, TimeAssumption
<1>5. [openid |-> login[l].user, until |-> now + Expire] \in Entries
  BY <1>3, <1>4 DEF Entries, Requests
<1>6. [login[l] EXCEPT !.phase = "reply", !.token = k] \in Requests
  BY <1>2, <1>3 DEF Requests, Phases
<1>7. login' = [login EXCEPT ![l] = [login[l] EXCEPT !.phase = "reply", !.token = k]]
  BY <1>1 DEF Store
<1>8. redis' = [redis EXCEPT ![k] = [openid |-> login[l].user, until |-> now + Expire]]
  BY <1>1 DEF Store
<1>9. redis' \in [Tokens -> Entries] /\ login' \in [Logins -> Requests]
  BY <1>5, <1>6, <1>7, <1>8 DEF TypeOK
<1>10. /\ login'[l] = [login[l] EXCEPT !.phase = "reply", !.token = k]
       /\ \A m \in Logins : m # l => login'[m] = login[m]
  BY <1>7 DEF TypeOK
<1>11. /\ login'[l].phase = "reply" /\ login'[l].token = k
       /\ login'[l].user = login[l].user /\ login'[l].browser = login[l].browser
       /\ login'[l].since = login[l].since
  BY <1>3, <1>10 DEF Requests
<1>12. /\ redis'[k].openid = login[l].user /\ redis'[k].until = now + Expire
       /\ \A j \in Tokens : j # k => redis'[j] = redis[j]
  BY <1>2, <1>8 DEF TypeOK
<1>13. now + Expire # 0
  BY <1>3, TimeAssumption
<1>14. redis'[k] # Unstored
  BY <1>12, <1>13 DEF Unstored
<1>15. login[l].phase = "set token" /\ UNCHANGED <<now, cookie>>
  BY <1>1 DEF Store
<1> QED
  BY <1>2, <1>9, <1>10, <1>11, <1>12, <1>14, <1>15

LEMMA StoreKeepsSent ==
    ASSUME TypeOK, NEW l \in Logins, setToken(l)
    PROVE  \A m \in Logins : login'[m].sent = login[m].sent
<1>1. \E k \in Fresh : login' = [login EXCEPT ![l].phase = "reply", ![l].token = k]
  BY DEF setToken, Store
<1> QED
  BY <1>1 DEF TypeOK, Requests

(* The token of a request arrives in its browser.                            *)
LEMMA RedirectStep ==
    ASSUME TypeOK, NEW l \in Logins, Redirected(l)
    PROVE  /\ login' \in [Logins -> Requests] /\ OnlyPhase(l)
           /\ login[l].phase = "reply" /\ login'[l].phase = "done"
           /\ UNCHANGED <<now, redis>>
           /\ cookie' \in [Browsers -> TokenCookies]
           /\ \A b \in Browsers :
                 IF b = login[l].browser /\ login[l].token # None
                 THEN cookie'[b] = [token |-> login[l].token, until |-> now + Expire]
                 ELSE cookie'[b] = cookie[b]
<1>1. /\ login' \in [Logins -> Requests] /\ OnlyPhase(l) /\ login'[l].phase = "done"
      /\ login[l].phase = "reply" /\ UNCHANGED <<now, redis>>
  BY PhaseStep DEF Redirected, Phases
<1>2. login[l] \in Requests /\ now \in Nat
  BY DEF TypeOK
<1>3. now + Expire \in Nat
  BY <1>2, TimeAssumption
<1>4. login[l].token \in Tokens \cup {None}
  BY <1>2 DEF Requests
<1>5. [token |-> login[l].token, until |-> now + Expire] \in TokenCookies
  BY <1>3, <1>4 DEF TokenCookies
<1>6. CASE login[l].token = None
  <2>1. cookie' = cookie
    BY <1>6 DEF Redirected
  <2> QED
    BY <1>1, <1>6, <2>1 DEF TypeOK
<1>7. CASE login[l].token # None
  <2>1. cookie' = [cookie EXCEPT ![login[l].browser] =
                        [token |-> login[l].token, until |-> now + Expire]]
    BY <1>7 DEF Redirected
  <2> QED
    BY <1>1, <1>5, <1>7, <2>1 DEF TypeOK
<1> QED
  BY <1>6, <1>7

(* A new request has no token and came with a cookie the browser holds.      *)
LEMMA AuthorizeStep ==
    ASSUME TypeOK, NEW l \in Logins, NEW b \in Browsers, NEW u \in Users, Authorize(l, b, u)
    PROVE  /\ login' \in [Logins -> Requests]
           /\ login[l].phase = "idle" /\ login'[l].phase = "code"
           /\ login'[l].token = None /\ login'[l].since = now /\ login'[l].browser = b
           /\ login'[l].user = u /\ login'[l].sent = CookieOf(b)
           /\ \A m \in Logins : m # l => login'[m] = login[m]
           /\ UNCHANGED <<now, redis, cookie>>
<1> DEFINE r == [phase |-> "code", browser |-> b, user |-> u,
                 sent |-> CookieOf(b), token |-> None, since |-> now]
<1>1. cookie[b] \in TokenCookies /\ now \in Nat
  BY DEF TypeOK
<1>2. CookieOf(b) \in Tokens \cup {None}
  BY <1>1 DEF CookieOf, TokenCookies
<1>3. r \in Requests
  BY <1>1, <1>2 DEF Requests, Phases
<1>4. login' = [login EXCEPT ![l] = r]
  BY DEF Authorize
<1>5. login' \in [Logins -> Requests] /\ login'[l] = r
  BY <1>3, <1>4 DEF TypeOK
<1>6. \A m \in Logins : m # l => login'[m] = login[m]
  BY <1>4 DEF TypeOK
<1>7. login[l].phase = "idle" /\ UNCHANGED <<now, redis, cookie>>
  BY DEF Authorize
<1> QED
  BY <1>5, <1>6, <1>7

\* Every step is one of these; the steps that only change a phase together.
LEMMA Steps ==
    ASSUME TypeOK, Next
    PROVE  \/ \E l \in Logins, b \in Browsers, u \in Users : Authorize(l, b, u)
           \/ \E l \in Logins : /\ CodeRejected(l) \/ CodeAccepted(l) \/ Lost(l)
                                /\ InFlight(l) /\ login'[l].phase # "done"
                                /\ login' \in [Logins -> Requests] /\ OnlyPhase(l)
                                /\ UNCHANGED <<now, redis, cookie>>
           \/ \E l \in Logins : setToken(l)
           \/ \E l \in Logins : Redirected(l)
           \/ Tick
<1>1. ASSUME NEW l \in Logins, CodeRejected(l) \/ CodeAccepted(l) \/ Lost(l)
      PROVE  /\ InFlight(l) /\ login'[l].phase # "done"
             /\ login' \in [Logins -> Requests] /\ OnlyPhase(l)
             /\ UNCHANGED <<now, redis, cookie>>
  <2>1. \E p \in Phases \ {"done"} : login' = [login EXCEPT ![l].phase = p]
    BY <1>1 DEF CodeRejected, CodeAccepted, Lost, Phases
  <2>2. InFlight(l) /\ UNCHANGED <<now, redis, cookie>>
    BY <1>1 DEF CodeRejected, CodeAccepted, Lost, InFlight
  <2> QED
    BY <2>1, <2>2, PhaseStep
<1> QED
  BY <1>1 DEF Next, ServerStep

(* Every variable keeps its type.                                            *)
THEOREM SessionTypes == Spec => []TypeOK
<1>1. Init => TypeOK
  BY DEF Init, TypeOK, Unstored, NoCookie, NotLoggingIn, Entries, TokenCookies, Requests, Phases
<1>2. ASSUME TypeOK, [Next]_vars PROVE TypeOK'
  <2>1. CASE UNCHANGED vars
    BY <1>2, <2>1 DEF vars, TypeOK
  <2>2. ASSUME NEW l \in Logins, NEW b \in Browsers, NEW u \in Users, Authorize(l, b, u)
        PROVE  TypeOK'
    BY <1>2, <2>2, AuthorizeStep DEF TypeOK
  <2>3. ASSUME NEW l \in Logins, setToken(l)
        PROVE  TypeOK'
    BY <1>2, <2>3, StoreStep DEF TypeOK
  <2>4. ASSUME NEW l \in Logins, Redirected(l)
        PROVE  TypeOK'
    BY <1>2, <2>4, RedirectStep DEF TypeOK
  <2>5. CASE Tick
    <3>1. now \in Nat
      BY <1>2 DEF TypeOK
    <3>2. now' \in Nat
      BY <3>1, <2>5 DEF Tick
    <3> QED
      BY <1>2, <2>5, <3>2 DEF Tick, TypeOK
  <2>6. CASE /\ login' \in [Logins -> Requests]
             /\ UNCHANGED <<now, redis, cookie>>
    BY <1>2, <2>6 DEF TypeOK
  <2> QED
    BY <1>2, <2>1, <2>2, <2>3, <2>4, <2>5, <2>6, Steps
<1> QED
  BY <1>1, <1>2, PTL DEF Spec

-------------------------------------------------------------------------------
(* Who a token belongs to.                                                   *)

\* A token made by a login is stored for its user, ...
TokensOwned ==
    \A l \in Logins : login[l].token # None =>
        /\ redis[login[l].token] # Unstored
        /\ redis[login[l].token].openid = login[l].user

\* ... and in a browser only once a login of that browser brought it there.
CookiesBrought ==
    \A b \in Browsers : cookie[b].token # None =>
        \E l \in Logins : /\ login[l].phase = "done" /\ login[l].browser = b
                          /\ login[l].token = cookie[b].token

OwnerInv == TokensOwned /\ CookiesBrought

LEMMA OwnerStep ==
    ASSUME TypeOK, OwnerInv, [Next]_vars
    PROVE  OwnerInv'
<1> USE DEF OwnerInv, TokensOwned, CookiesBrought
<1>1. CASE UNCHANGED vars
  BY <1>1 DEF vars
<1>2. ASSUME NEW l \in Logins, NEW b \in Browsers, NEW u \in Users, Authorize(l, b, u)
      PROVE  OwnerInv'
  <2>1. /\ login'[l].token = None /\ login[l].phase = "idle"
        /\ \A m \in Logins : m # l => login'[m] = login[m]
        /\ UNCHANGED <<redis, cookie>>
    BY <1>2, AuthorizeStep
  <2> QED
    BY <2>1
<1>3. ASSUME NEW l \in Logins, setToken(l)
      PROVE  OwnerInv'
  <2>1. PICK k \in Tokens :
            /\ redis[k] = Unstored
            /\ redis'[k].openid = login[l].user /\ redis'[k] # Unstored
            /\ \A j \in Tokens : j # k => redis'[j] = redis[j]
            /\ login[l].phase = "set token"
            /\ login'[l].token = k /\ login'[l].user = login[l].user
            /\ \A m \in Logins : m # l => login'[m] = login[m]
            /\ cookie' = cookie
    BY <1>3, StoreStep
  <2>2. \A m \in Logins : login[m].token # k
    BY <2>1, NoneAssumption
  <2>3. \A m \in Logins : login[m].token \in Tokens \cup {None}
    BY DEF TypeOK, Requests
  <2>4. ASSUME NEW m \in Logins, login'[m].token # None
        PROVE  redis'[login'[m].token] # Unstored
               /\ redis'[login'[m].token].openid = login'[m].user
    <3>1. CASE m = l
      BY <2>1, <3>1
    <3>2. CASE m # l
      <4>1. login'[m] = login[m] /\ login[m].token \in Tokens /\ login[m].token # k
        BY <2>1, <2>2, <2>3, <2>4, <3>2
      <4>2. redis'[login[m].token] = redis[login[m].token]
        BY <2>1, <4>1
      <4> QED
        BY <2>4, <4>1, <4>2
    <3> QED
      BY <3>1, <3>2
  <2>5. ASSUME NEW b \in Browsers, cookie'[b].token # None
        PROVE  \E m \in Logins : /\ login'[m].phase = "done" /\ login'[m].browser = b
                                 /\ login'[m].token = cookie'[b].token
    <3>1. PICK m \in Logins : /\ login[m].phase = "done" /\ login[m].browser = b
                              /\ login[m].token = cookie[b].token
      BY <2>1, <2>5
    <3>2. login'[m] = login[m] /\ cookie' = cookie
      BY <2>1, <3>1
    <3>3. /\ login'[m].phase = "done" /\ login'[m].browser = b
          /\ login'[m].token = cookie'[b].token
      BY <3>1, <3>2
    <3> QED
      BY <3>3
  <2> QED
    BY <2>4, <2>5
<1>4. ASSUME NEW l \in Logins, Redirected(l)
      PROVE  OwnerInv'
  <2>1. /\ OnlyPhase(l) /\ login'[l].phase = "done" /\ UNCHANGED <<now, redis>>
        /\ \A b \in Browsers :
              IF b = login[l].browser /\ login[l].token # None
              THEN cookie'[b] = [token |-> login[l].token, until |-> now + Expire]
              ELSE cookie'[b] = cookie[b]
    BY <1>4, RedirectStep
  <2>2. \A m \in Logins : /\ login'[m].token = login[m].token
                          /\ login'[m].user = login[m].user
                          /\ login'[m].browser = login[m].browser
                          /\ login[m].phase = "done" => login'[m].phase = "done"
    BY <2>1 DEF OnlyPhase, SameButPhase
  <2> QED
    BY <2>1, <2>2
<1>5. CASE Tick
  BY <1>5 DEF Tick
<1>6. ASSUME NEW l \in Logins, InFlight(l), OnlyPhase(l), UNCHANGED <<redis, cookie>>
      PROVE  OwnerInv'
  <2>1. \A m \in Logins : /\ login'[m].token = login[m].token
                          /\ login'[m].user = login[m].user
                          /\ login'[m].browser = login[m].browser
                          /\ login[m].phase = "done" => login'[m].phase = "done"
    BY <1>6 DEF OnlyPhase, SameButPhase, InFlight
  <2> QED
    BY <1>6, <2>1
<1> QED
  BY <1>1, <1>2, <1>3, <1>4, <1>5, <1>6, Steps

(* Whoever requests of a browser are resolved to logged in with it, however  *)
(* many logins run at the same time.                                         *)
THEOREM SessionsAreAuthenticated == Spec => []ResolvedWasAuthenticated
<1>1. Init => OwnerInv
  BY DEF Init, OwnerInv, TokensOwned, CookiesBrought, NoCookie, NotLoggingIn
<1>2. TypeOK /\ OwnerInv /\ [Next]_vars => OwnerInv'
  BY OwnerStep
<1>3. OwnerInv => ResolvedWasAuthenticated
  <2> SUFFICES ASSUME OwnerInv, NEW b \in Browsers, getToken(b) # None
               PROVE  \E l \in Logins : /\ login[l].phase = "done"
                                        /\ login[l].browser = b /\ login[l].user = getToken(b)
    BY DEF ResolvedWasAuthenticated
  <2>1. cookie[b].token # None /\ getToken(b) = redis[cookie[b].token].openid
    BY DEF getToken, Lookup, CookieOf
  <2>2. PICK l \in Logins : /\ login[l].phase = "done" /\ login[l].browser = b
                            /\ login[l].token = cookie[b].token
    BY <2>1 DEF OwnerInv, CookiesBrought
  <2>3. login[l].user = redis[cookie[b].token].openid
    BY <2>1, <2>2 DEF OwnerInv, TokensOwned
  <2> QED
    BY <2>1, <2>2, <2>3
<1> QED
  BY <1>1, <1>2, <1>3, SessionTypes, PTL DEF Spec

-------------------------------------------------------------------------------
(* The token is still stored when it reaches the browser.                    *)

\* A request under way belongs to a browser and is younger than two ticks, ...
Young == \A l \in Logins : InFlight(l) => /\ login[l].browser \in Browsers
                                          /\ login[l].since <= now
                                          /\ now <= login[l].since + 1

\* ... and its token is stored for longer than that.
StoredLonger == \A l \in Logins : login[l].token # None =>
                    login[l].since + Expire <= redis[login[l].token].until

LEMMA YoungStep ==
    ASSUME TypeOK, Young, [Next]_vars
    PROVE  Young'
<1> SUFFICES ASSUME NEW m \in Logins, InFlight(m)'
             PROVE  /\ login'[m].browser \in Browsers
                    /\ login'[m].since <= now'
                    /\ now' <= login'[m].since + 1
  BY DEF Young
<1>0. login[m].since \in Nat /\ now \in Nat
  BY DEF TypeOK, Requests
<1>1. CASE login'[m] = login[m] /\ now' = now
  BY <1>1 DEF Young, InFlight
<1>2. CASE UNCHANGED vars
  BY <1>1, <1>2 DEF vars
<1>3. ASSUME NEW l \in Logins, NEW b \in Browsers, NEW u \in Users, Authorize(l, b, u)
      PROVE  /\ login'[m].browser \in Browsers
             /\ login'[m].since <= now' /\ now' <= login'[m].since + 1
  <2>1. CASE m # l
    BY <1>1, <1>3, <2>1, AuthorizeStep
  <2>2. CASE m = l
    <3>1. login'[m].browser = b /\ login'[m].since = now /\ now' = now
      BY <1>3, <2>2, AuthorizeStep
    <3> QED
      BY <1>0, <3>1
  <2> QED
    BY <2>1, <2>2
<1>4. CASE /\ now' = now /\ InFlight(m)
           /\ login'[m].browser = login[m].browser /\ login'[m].since = login[m].since
  BY <1>4 DEF Young
<1>5. ASSUME NEW l \in Logins, setToken(l)
      PROVE  /\ login'[m].browser \in Browsers
             /\ login'[m].since <= now' /\ now' <= login'[m].since + 1
  <2>1. CASE m # l
    BY <1>1, <1>5, <2>1, StoreStep
  <2>2. CASE m = l
    <3>1. /\ login[m].phase = "set token" /\ now' = now
          /\ login'[m].browser = login[m].browser /\ login'[m].since = login[m].since
      BY <1>5, <2>2, StoreStep
    <3> QED
      BY <1>4, <3>1 DEF InFlight
  <2> QED
    BY <2>1, <2>2
<1>6. ASSUME NEW l \in Logins, OnlyPhase(l), InFlight(l), now' = now
      PROVE  /\ login'[m].browser \in Browsers
             /\ login'[m].since <= now' /\ now' <= login'[m].since + 1
  BY <1>1, <1>4, <1>6 DEF OnlyPhase, SameButPhase
<1>7. ASSUME NEW l \in Logins, Redirected(l)
      PROVE  OnlyPhase(l) /\ InFlight(l) /\ now' = now
  BY <1>7, RedirectStep DEF InFlight
<1>8. CASE Tick
  <2>1. login'[m] = login[m] /\ now' = now + 1 /\ InFlight(m)
    BY <1>8 DEF Tick, InFlight
  <2>2. login[m].since = now
    BY <1>8, <2>1 DEF Tick
  <2>3. login[m].browser \in Browsers
    BY <2>1 DEF Young
  <2> QED
    BY <1>0, <2>1, <2>2, <2>3
<1> QED
  BY <1>2, <1>3, <1>5, <1>6, <1>7, <1>8, Steps

LEMMA StoredLongerStep ==
    ASSUME TypeOK, TokensOwned, Young, StoredLonger, [Next]_vars
    PROVE  StoredLonger'
<1> SUFFICES ASSUME NEW m \in Logins, login'[m].token # None
             PROVE  login'[m].since + Expire <= redis'[login'[m].token].until
  BY DEF StoredLonger
<1>1. CASE login'[m].token = login[m].token /\ login'[m].since = login[m].since /\ redis' = redis
  BY <1>1 DEF StoredLonger
<1>2. CASE UNCHANGED vars
  BY <1>1, <1>2 DEF vars
<1>3. ASSUME NEW l \in Logins, NEW b \in Browsers, NEW u \in Users, Authorize(l, b, u)
      PROVE  login'[m].since + Expire <= redis'[login'[m].token].until
  BY <1>1, <1>3, AuthorizeStep
<1>4. ASSUME NEW l \in Logins, setToken(l)
      PROVE  login'[m].since + Expire <= redis'[login'[m].token].until
  <2>1. PICK k \in Tokens :
            /\ redis[k] = Unstored /\ redis'[k].until = now + Expire
            /\ \A j \in Tokens : j # k => redis'[j] = redis[j]
            /\ login[l].phase = "set token"
            /\ login'[l].token = k /\ login'[l].since = login[l].since
            /\ \A n \in Logins : n # l => login'[n] = login[n]
    BY <1>4, StoreStep
  <2>2. login[m].token # k /\ login[m].token \in Tokens \cup {None}
    BY <2>1, NoneAssumption DEF TokensOwned, TypeOK, Requests
  <2>3. CASE m # l
    <3>1. login'[m] = login[m] /\ redis'[login[m].token] = redis[login[m].token]
      BY <2>1, <2>2, <2>3
    <3> QED
      BY <3>1 DEF StoredLonger
  <2>4. CASE m = l
    <3>1. login[m].since \in Nat /\ now \in Nat
      BY DEF TypeOK, Requests
    <3>2. login[m].since <= now
      BY <2>1, <2>4 DEF Young, InFlight
    <3>3. login[m].since + Expire <= now + Expire
      BY <3>1, <3>2, TimeAssumption
    <3>4. login'[m].since = login[m].since /\ redis'[login'[m].token].until = now + Expire
      BY <2>1, <2>4
    <3> QED
      BY <3>3, <3>4
  <2> QED
    BY <2>3, <2>4
<1>5. ASSUME NEW l \in Logins, OnlyPhase(l), UNCHANGED redis
      PROVE  login'[m].since + Expire <= redis'[login'[m].token].until
  BY <1>1, <1>5 DEF OnlyPhase, SameButPhase
<1>6. ASSUME NEW l \in Logins, Redirected(l)
      PROVE  OnlyPhase(l) /\ UNCHANGED redis
  BY <1>6, RedirectStep
<1>7. CASE Tick
  BY <1>1, <1>7 DEF Tick
<1> QED
  BY <1>2, <1>3, <1>4, <1>5, <1>6, <1>7, Steps

\* Only the redirect brings a request to its end.
LEMMA DoneStep ==
    ASSUME TypeOK, [Next]_vars, NEW l \in Logins,
           login[l].phase = "reply", login'[l].phase = "done"
    PROVE  Redirected(l)
<1> DEFINE Same == login'[l] = login[l]
<1>1. ~ Same
  OBVIOUS
<1>2. ~ UNCHANGED vars /\ ~ Tick
  BY <1>1 DEF vars, Tick
<1>3. ASSUME NEW m \in Logins, NEW b \in Browsers, NEW u \in Users, Authorize(m, b, u)
      PROVE  FALSE
  BY <1>1, <1>3, AuthorizeStep
<1>4. ASSUME NEW m \in Logins, setToken(m)
      PROVE  FALSE
  BY <1>1, <1>4, StoreStep
<1>5. ASSUME NEW m \in Logins, OnlyPhase(m), login'[m].phase # "done"
      PROVE  FALSE
  BY <1>1, <1>5 DEF OnlyPhase
<1>6. ASSUME NEW m \in Logins, Redirected(m)
      PROVE  m = l
  BY <1>1, <1>6, RedirectStep DEF OnlyPhase
<1> QED
  BY <1>2, <1>3, <1>4, <1>5, <1>6, Steps

(* A login that made a token leaves its browser resolved to its user, for    *)
(* every life of a token longer than a request and whatever else happens.    *)
THEOREM LoginsGiveSessions == Spec => LoginGivesSession
<1> DEFINE Gives == \A l \in Logins :
         login[l].phase = "reply" /\ login'[l].phase = "done" /\ login[l].token # None
           => getToken(login[l].browser)' = login[l].user
<1>1. Init => Young /\ StoredLonger /\ OwnerInv
  BY DEF Init, Young, StoredLonger, OwnerInv, TokensOwned, CookiesBrought, NoCookie,
         NotLoggingIn, InFlight
<1>2. TypeOK /\ OwnerInv /\ Young /\ StoredLonger /\ [Next]_vars
        => Young' /\ StoredLonger' /\ OwnerInv'
  BY YoungStep, StoredLongerStep, OwnerStep DEF OwnerInv
<1>3. ASSUME TypeOK, OwnerInv, Young, StoredLonger, [Next]_vars
      PROVE  Gives
  <2> SUFFICES ASSUME NEW l \in Logins, login[l].phase = "reply",
                      login'[l].phase = "done", login[l].token # None
               PROVE  getToken(login[l].browser)' = login[l].user
    OBVIOUS
  <2> DEFINE b == login[l].browser
             k == login[l].token
  <2>1. Redirected(l)
    BY <1>3, DoneStep
  <2>2. b \in Browsers /\ login[l].since <= now /\ now <= login[l].since + 1
    BY <1>3 DEF Young, InFlight
  <2>3. /\ cookie'[b] = [token |-> k, until |-> now + Expire]
        /\ now' = now /\ redis' = redis
        /\ login'[l].browser = b
    BY <1>3, <2>1, <2>2, RedirectStep DEF OnlyPhase, SameButPhase
  <2>4. now \in Nat /\ login[l].since \in Nat /\ k \in Tokens /\ redis[k].until \in Nat
    BY <1>3 DEF TypeOK, Requests, Entries
  <2>5. login[l].since + Expire <= redis[k].until
    BY <1>3 DEF StoredLonger
  <2>6. now < redis[k].until
    BY <2>2, <2>4, <2>5, TimeAssumption
  <2>7. now < now + Expire
    BY <2>4, TimeAssumption
  <2>8. CookieOf(b)' = k
    BY <2>3, <2>7 DEF CookieOf
  <2>9. redis[k].openid = login[l].user
    BY <1>3 DEF OwnerInv, TokensOwned
  <2> QED
    BY <2>3, <2>6, <2>8, <2>9 DEF getToken, Lookup
<1>4. TypeOK /\ OwnerInv /\ Young /\ StoredLonger /\ [Next]_vars => [Gives]_vars
  BY <1>3
<1> QED
  BY <1>1, <1>2, <1>4, SessionTypes, PTL DEF Spec, LoginGivesSession

-------------------------------------------------------------------------------
(* A login with a live session makes no token.                               *)

\* A token is stored for a user who logged in.
StoredForUsers ==
    /\ \A l \in Logins : login[l].phase # "idle" => login[l].user \in Users
    /\ \A k \in Tokens : redis[k] # Unstored => redis[k].openid \in Users

\* The token in the cookie of a request was stored once, so no login makes it
\* again, ...
SentStored == \A l \in Logins : login[l].sent # None => redis[login[l].sent] # Unstored

\* ... and its time is over when the request makes a token of its own.
SentOver == \A l \in Logins :
    login[l].phase = "set token" \/ login[l].token # None
        => login[l].sent = None \/ redis[login[l].sent].until <= now

SentInv == StoredForUsers /\ SentStored /\ SentOver

LEMMA StoredForUsersStep ==
    ASSUME TypeOK, StoredForUsers, [Next]_vars
    PROVE  StoredForUsers'
<1>1. CASE UNCHANGED vars
  BY <1>1 DEF vars, StoredForUsers
<1>2. ASSUME NEW l \in Logins, NEW b \in Browsers, NEW u \in Users, Authorize(l, b, u)
      PROVE  StoredForUsers'
  BY <1>2, AuthorizeStep DEF StoredForUsers
<1>3. ASSUME NEW l \in Logins, setToken(l)
      PROVE  StoredForUsers'
  <2>1. login[l].user \in Users
    BY <1>3 DEF StoredForUsers, setToken, Store
  <2> QED
    BY <1>3, <2>1, StoreStep DEF StoredForUsers
<1>4. ASSUME NEW l \in Logins, OnlyPhase(l), login[l].phase # "idle", UNCHANGED redis
      PROVE  StoredForUsers'
  BY <1>4 DEF StoredForUsers, OnlyPhase, SameButPhase
<1>5. ASSUME NEW l \in Logins, Redirected(l)
      PROVE  OnlyPhase(l) /\ login[l].phase # "idle" /\ UNCHANGED redis
  BY <1>5, RedirectStep
<1>6. CASE Tick
  BY <1>6 DEF Tick, StoredForUsers
<1> QED
  BY <1>1, <1>2, <1>3, <1>4, <1>5, <1>6, Steps DEF InFlight

LEMMA SentStoredStep ==
    ASSUME TypeOK, OwnerInv, SentStored, [Next]_vars
    PROVE  SentStored'
<1>1. CASE UNCHANGED vars
  BY <1>1 DEF vars, SentStored
<1>2. ASSUME NEW l \in Logins, NEW b \in Browsers, NEW u \in Users, Authorize(l, b, u)
      PROVE  SentStored'
  <2>1. CookieOf(b) # None => redis[CookieOf(b)] # Unstored
    BY DEF CookieOf, OwnerInv, TokensOwned, CookiesBrought
  <2> QED
    BY <1>2, <2>1, AuthorizeStep DEF SentStored
<1>3. ASSUME NEW l \in Logins, setToken(l)
      PROVE  SentStored'
  <2>1. \A k \in Tokens : redis[k] # Unstored => redis'[k] # Unstored
    BY <1>3, StoreStep
  <2>2. \A m \in Logins : login'[m].sent = login[m].sent /\ login[m].sent \in Tokens \cup {None}
    BY <1>3, StoreKeepsSent DEF TypeOK, Requests
  <2> QED
    BY <2>1, <2>2 DEF SentStored
<1>4. ASSUME NEW l \in Logins, OnlyPhase(l), UNCHANGED redis
      PROVE  SentStored'
  BY <1>4 DEF SentStored, OnlyPhase, SameButPhase
<1>5. ASSUME NEW l \in Logins, Redirected(l)
      PROVE  OnlyPhase(l) /\ UNCHANGED redis
  BY <1>5, RedirectStep
<1>6. CASE Tick
  BY <1>6 DEF Tick, SentStored
<1> QED
  BY <1>1, <1>2, <1>3, <1>4, <1>5, <1>6, Steps

LEMMA SentOverStep ==
    ASSUME TypeOK, SentInv, [Next]_vars
    PROVE  SentOver'
<1> DEFINE Over(k) == k = None \/ redis[k].until <= now
           OverNext(k) == k = None \/ redis'[k].until <= now'
<1>1. CASE UNCHANGED vars
  BY <1>1 DEF vars, SentInv, SentOver
<1>2. ASSUME NEW l \in Logins, NEW b \in Browsers, NEW u \in Users, Authorize(l, b, u)
      PROVE  SentOver'
  BY <1>2, AuthorizeStep DEF SentInv, SentOver
<1>3. ASSUME NEW l \in Logins, setToken(l)
      PROVE  SentOver'
  <2>1. \A k \in Tokens : redis[k] # Unstored => redis'[k] = redis[k]
    BY <1>3, StoreStep
  <2>2. /\ \A m \in Logins : /\ login'[m].sent = login[m].sent
                             /\ login[m].sent \in Tokens \cup {None}
        /\ \A m \in Logins : m # l => login'[m] = login[m]
        /\ login[l].phase = "set token" /\ now' = now
    BY <1>3, StoreStep, StoreKeepsSent DEF TypeOK, Requests
  <2> QED
    BY <2>1, <2>2 DEF SentInv, SentStored, SentOver
<1>4. ASSUME NEW l \in Logins, OnlyPhase(l), UNCHANGED <<now, redis>>,
             login'[l].phase = "set token" => Over(login[l].sent)
      PROVE  SentOver'
  BY <1>4 DEF SentInv, SentOver, OnlyPhase, SameButPhase
<1>5. ASSUME NEW l \in Logins, CodeRejected(l) \/ CodeAccepted(l) \/ Lost(l),
             login'[l].phase = "set token"
      PROVE  Over(login[l].sent)
  <2>1. CodeAccepted(l) /\ Lookup(login[l].sent) = None
    BY <1>5 DEF CodeRejected, CodeAccepted, Lost, TypeOK, Requests
  <2> DEFINE k == login[l].sent
  <2>2. CASE k = None
    BY <2>2
  <2>3. CASE k # None
    <3>1. k \in Tokens /\ redis[k].until \in Nat /\ now \in Nat
      BY <2>3 DEF TypeOK, Requests, Entries
    <3>2. redis[k].openid # None
      BY <2>3, <3>1, NoneAssumption DEF SentInv, SentStored, StoredForUsers
    <3> QED
      BY <2>1, <2>3, <3>1, <3>2 DEF Lookup
  <2> QED
    BY <2>2, <2>3
<1>6. ASSUME NEW l \in Logins, Redirected(l)
      PROVE  OnlyPhase(l) /\ UNCHANGED <<now, redis>> /\ login'[l].phase # "set token"
  BY <1>6, RedirectStep
<1>7. CASE Tick
  <2>1. \A l \in Logins : login[l].sent # None => redis[login[l].sent].until \in Nat
    BY DEF TypeOK, Requests, Entries
  <2>2. now \in Nat /\ now' = now + 1 /\ redis' = redis /\ login' = login
    BY <1>7 DEF TypeOK, Tick
  <2>3. \A k : redis[k].until \in Nat /\ redis[k].until <= now => redis[k].until <= now + 1
    BY <2>2
  <2> QED
    BY <2>1, <2>2, <2>3 DEF SentInv, SentOver
<1> QED
  BY <1>1, <1>2, <1>3, <1>4, <1>5, <1>6, <1>7, Steps

\* What a browser sends changes when a redirect brings it a token or its time is over.
LEMMA CookieSteps ==
    ASSUME TypeOK, [Next]_vars, NEW b \in Browsers, CookieOf(b)' # CookieOf(b)
    PROVE  \/ CookieOf(b)' = None
           \/ \E l \in Logins : /\ Redirected(l)
                                /\ login[l].browser = b /\ login[l].token # None
<1>1. ASSUME cookie'[b] = cookie[b], now' = now
      PROVE  FALSE
  BY <1>1 DEF CookieOf
<1>2. CASE Tick
  BY <1>2 DEF Tick, CookieOf, TypeOK, TokenCookies
<1>3. ASSUME NEW l \in Logins, Redirected(l)
      PROVE  login[l].browser = b /\ login[l].token # None
  BY <1>1, <1>3, RedirectStep
<1> QED
  BY <1>1, <1>2, <1>3, Steps, AuthorizeStep, StoreStep DEF vars

(* However many logins of a browser run at the same time, none of those that *)
(* came with its live session replaces it: a token is made only where the    *)
(* time of the one sent is over, and it does not come to life again.         *)
THEOREM LiveSessionsAreKept == Spec => LiveSessionIsKept
<1> DEFINE Keeps == \A b \in Browsers :
         /\ getToken(b) # None /\ getToken(b)' # None
         /\ CookieOf(b)' # CookieOf(b)
         => \E l \in Logins : /\ login[l].browser = b /\ login[l].phase = "reply"
                              /\ login'[l].phase = "done"
                              /\ login[l].sent # CookieOf(b)
<1>1. Init => OwnerInv /\ SentInv
  <2>1. Init => OwnerInv
    BY DEF Init, OwnerInv, TokensOwned, CookiesBrought, NoCookie, NotLoggingIn
  <2>2. Init => StoredForUsers
    BY DEF Init, StoredForUsers, NotLoggingIn
  <2>3. Init => SentStored /\ SentOver
    <3>1. Init => \A l \in Logins : /\ login[l].phase = "idle"
                                    /\ login[l].sent = None /\ login[l].token = None
      BY DEF Init, NotLoggingIn
    <3> QED
      BY <3>1 DEF SentStored, SentOver
  <2> QED
    BY <2>1, <2>2, <2>3 DEF SentInv
<1>2. TypeOK /\ OwnerInv /\ SentInv /\ [Next]_vars => OwnerInv' /\ SentInv'
  BY OwnerStep, StoredForUsersStep, SentStoredStep, SentOverStep DEF SentInv
<1>3. ASSUME TypeOK, SentInv, [Next]_vars
      PROVE  Keeps
  <2> SUFFICES ASSUME NEW b \in Browsers, getToken(b) # None, getToken(b)' # None,
                      CookieOf(b)' # CookieOf(b)
               PROVE  \E l \in Logins : /\ login[l].browser = b /\ login[l].phase = "reply"
                                        /\ login'[l].phase = "done"
                                        /\ login[l].sent # CookieOf(b)
    OBVIOUS
  <2>1. CookieOf(b)' # None
    BY DEF getToken, Lookup
  <2>2. PICK l \in Logins : Redirected(l) /\ login[l].browser = b /\ login[l].token # None
    BY <1>3, <2>1, CookieSteps
  <2>3. login[l].phase = "reply" /\ login'[l].phase = "done"
    BY <1>3, <2>2, RedirectStep
  <2>4. CookieOf(b) # None /\ now < redis[CookieOf(b)].until
    BY DEF getToken, Lookup
  <2>5. login[l].sent = None \/ redis[login[l].sent].until <= now
    BY <1>3, <2>2 DEF SentInv, SentOver
  <2>6. now \in Nat /\ (login[l].sent # None => redis[login[l].sent].until \in Nat)
    BY <1>3 DEF TypeOK, Requests, Entries
  <2>7. login[l].sent # CookieOf(b)
    BY <2>4, <2>5, <2>6
  <2> QED
    BY <2>2, <2>3, <2>7
<1>4. TypeOK /\ OwnerInv /\ SentInv /\ [Next]_vars => [Keeps]_vars
  BY <1>3
<1> QED
  BY <1>1, <1>2, <1>4, SessionTypes, PTL DEF Spec, LiveSessionIsKept

-------------------------------------------------------------------------------
(* A token in a browser is stored until the last tick of its cookie.         *)

\* A cookie has a token, and is dated at most a tick later than that.
DatedAlike == \A b \in Browsers : cookie[b].until # 0 =>
                  /\ cookie[b].token # None
                  /\ cookie[b].until <= redis[cookie[b].token].until + 1

LEMMA DatedAlikeStep ==
    ASSUME TypeOK, OwnerInv, Young, StoredLonger, DatedAlike, [Next]_vars
    PROVE  DatedAlike'
<1>1. ASSUME cookie' = cookie, redis' = redis
      PROVE  DatedAlike'
  BY <1>1 DEF DatedAlike
<1>2. ASSUME NEW l \in Logins, setToken(l)
      PROVE  DatedAlike'
  <2>1. \A k \in Tokens : redis[k] # Unstored => redis'[k] = redis[k]
    BY <1>2, StoreStep
  <2>2. cookie' = cookie
    BY <1>2, StoreStep
  <2>3. ASSUME NEW b \in Browsers, cookie[b].until # 0
        PROVE  redis'[cookie[b].token] = redis[cookie[b].token]
    <3>1. cookie[b].token \in Tokens /\ cookie[b].token # None
      BY <2>3 DEF DatedAlike, TypeOK, TokenCookies
    <3>2. redis[cookie[b].token] # Unstored
      BY <3>1 DEF OwnerInv, CookiesBrought, TokensOwned
    <3> QED
      BY <2>1, <3>1, <3>2
  <2> QED
    BY <2>2, <2>3 DEF DatedAlike
<1>3. ASSUME NEW l \in Logins, Redirected(l)
      PROVE  DatedAlike'
  <2>1. /\ login[l].phase = "reply" /\ redis' = redis
        /\ \A b \in Browsers :
              IF b = login[l].browser /\ login[l].token # None
              THEN cookie'[b] = [token |-> login[l].token, until |-> now + Expire]
              ELSE cookie'[b] = cookie[b]
    BY <1>3, RedirectStep
  <2> SUFFICES ASSUME NEW b \in Browsers, cookie'[b].until # 0
               PROVE  /\ cookie'[b].token # None
                      /\ cookie'[b].until <= redis'[cookie'[b].token].until + 1
    BY DEF DatedAlike
  <2>2. CASE b = login[l].browser /\ login[l].token # None
    <3> DEFINE k == login[l].token
    <3>1. cookie'[b].token = k /\ cookie'[b].until = now + Expire
      BY <2>1, <2>2
    <3>2. /\ now \in Nat /\ login[l].since \in Nat
          /\ k \in Tokens /\ redis[k].until \in Nat
      BY <2>2 DEF TypeOK, Requests, Entries
    <3>3. now <= login[l].since + 1
      BY <2>1 DEF Young, InFlight
    <3>4. login[l].since + Expire <= redis[k].until
      BY <2>2 DEF StoredLonger
    <3>5. now + Expire <= redis[k].until + 1
      BY <3>2, <3>3, <3>4, TimeAssumption
    <3> QED
      BY <2>1, <2>2, <3>1, <3>5
  <2>3. CASE ~(b = login[l].browser /\ login[l].token # None)
    BY <2>1, <2>3 DEF DatedAlike
  <2> QED
    BY <2>2, <2>3
<1> QED
  BY <1>1, <1>2, <1>3, Steps, AuthorizeStep DEF vars, Tick

(* Until the last tick of its cookie a browser has a session, whatever other *)
(* logins do, for every life of a token longer than a request.               *)
THEOREM SessionsLastAsTheirCookies == Spec => []SessionLastsAsItsCookie
<1>1. Init => OwnerInv /\ Young /\ StoredLonger /\ StoredForUsers /\ DatedAlike
  <2>1. Init => OwnerInv /\ Young /\ StoredLonger
    BY DEF Init, Young, StoredLonger, OwnerInv, TokensOwned, CookiesBrought, NoCookie,
           NotLoggingIn, InFlight
  <2>2. Init => StoredForUsers
    BY DEF Init, StoredForUsers, NotLoggingIn
  <2>3. Init => DatedAlike
    BY DEF Init, DatedAlike, NoCookie
  <2> QED
    BY <2>1, <2>2, <2>3
<1>2. /\ TypeOK /\ OwnerInv /\ Young /\ StoredLonger /\ StoredForUsers /\ DatedAlike
      /\ [Next]_vars
      => OwnerInv' /\ Young' /\ StoredLonger' /\ StoredForUsers' /\ DatedAlike'
  BY OwnerStep, YoungStep, StoredLongerStep, StoredForUsersStep, DatedAlikeStep DEF OwnerInv
<1>3. ASSUME TypeOK, OwnerInv, StoredForUsers, DatedAlike
      PROVE  SessionLastsAsItsCookie
  <2> SUFFICES ASSUME NEW b \in Browsers, now + 1 < cookie[b].until
               PROVE  getToken(b) # None
    BY DEF SessionLastsAsItsCookie
  <2> DEFINE k == cookie[b].token
  <2>1. now \in Nat /\ cookie[b].until \in Nat
    BY <1>3 DEF TypeOK, TokenCookies
  <2>2. k # None /\ k \in Tokens /\ cookie[b].until <= redis[k].until + 1
    BY <1>3, <2>1 DEF DatedAlike, TypeOK, TokenCookies
  <2>3. redis[k].until \in Nat
    BY <1>3, <2>2 DEF TypeOK, Entries
  <2>4. CookieOf(b) = k /\ now < redis[k].until
    BY <2>1, <2>2, <2>3 DEF CookieOf
  <2>5. redis[k].openid \in Users
    BY <1>3, <2>2 DEF OwnerInv, CookiesBrought, TokensOwned, StoredForUsers
  <2> QED
    BY <2>2, <2>4, <2>5, NoneAssumption DEF getToken, Lookup
<1> QED
  BY <1>1, <1>2, <1>3, SessionTypes, PTL DEF Spec
==============================================================================
