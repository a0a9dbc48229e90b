----------------------------- MODULE AuthSession -----------------------------
(***************************************************************************)
(* Signing in, and the CSRF token of the dashboard: the cookies that       *)
(* internal/auth/auth.go issues and checks, the two middlewares of         *)
(* internal/server/auth.go, and the client in web/src/control/api/client.ts*)
(* that keeps a token per tab and sends a refused request once more.       *)
(*                                                                         *)
(* The tabs of a browser share one cookie jar.  A request takes the jar's  *)
(* cookies when it is sent; the cookies of an answer enter the jar when it *)
(* arrives, and the script that waits for it goes on later.  Answers may   *)
(* come in any order or not at all, the keys may change at a restart, and  *)
(* time passes.                                                            *)
(*                                                                         *)
(* The library reads a cookie that was made with the same keys and is not  *)
(* older than its limit, 30 days.  Sessions end long before that; a CSRF   *)
(* cookie, which stands for its token, may become unreadable at any time.  *)
(* Passwords are right or wrong; LoginLimiter counts them.                 *)
(***************************************************************************)
EXTENDS Integers, FiniteSets

CONSTANTS
    Tabs,
    Calls,      \* calls of client.ts that can be in progress
    TabOf,      \* the tab of each
    Offered,    \* the kinds of calls that are made
    None,       \* no cookie, no token
    Keep,       \* in an answer: the cookie stays as it is
    Duration,   \* of an admin session
    MaxSessionTime, MaxKeys, MaxTokens, MaxCalls, MaxLost  \* bounds

Posts == {"create", "login", "logout"}
Kinds == Posts \cup {"look"}   \* look: GET /api/auth/session by itself

ASSUME AuthAssumption ==
    /\ TabOf \in [Calls -> Tabs]
    /\ Offered \subseteq Kinds
    /\ Duration \in Nat \ {0} /\ MaxKeys \in Nat \ {0}
    /\ {MaxSessionTime, MaxTokens, MaxCalls, MaxLost} \subseteq Nat

VARIABLES
    time, keys,  \* the time and the key in use
    jar,        \* the browser's cookies: csrf and session
    csrfToken,  \* what client.ts keeps in each tab
    tokens,     \* CSRF tokens issued so far
    readable,   \* those whose cookies the server can read
    kind, at, retried, header,  \* of each call: what it does and how far it is
    sent,       \* the cookies of its last request
    answer,     \* what was answered to that: status, token and cookies
    begun, lost,    \* counts of calls and of lost requests
    runs,       \* how often the handler behind the middlewares ran for the call
    lastLogin,  \* the last successful login
    raced,      \* calls whose second attempt was overtaken by a change of cookies
    ended,      \* a logout's answer has arrived, and no login's answer since
    after       \* creations that began so, with no login's answer since

browserVars == <<jar, csrfToken>>
issueVars == <<tokens, readable>>
callVars == <<kind, at, retried, header, sent, answer, begun, lost>>
recordVars == <<runs, lastLogin, raced, ended, after>>
authVars == <<time, keys, issueVars, browserVars, callVars, recordVars>>

Stamps == [at : 0..MaxSessionTime, key : 1..MaxKeys]
Tokens == (1..MaxTokens) \cup {None}

\* Neither mark is a token or a session.
ASSUME MarksAssumption ==
    /\ Keep # None
    /\ {None, Keep} \cap (1..MaxTokens) = {}
    /\ {None, Keep} \cap Stamps = {}

Cookies == [csrf : Tokens, session : Stamps \cup {None}]
Answers == [status : {"ok", "unauthorized", "forbidden"}, token : Tokens,
            csrf : Tokens \cup {Keep}, session : Stamps \cup {None, Keep}]
Active(c) == at[c] # "idle"

AuthTypeOK ==
    /\ time \in 0..MaxSessionTime /\ keys \in 1..MaxKeys
    /\ jar \in Cookies
    /\ csrfToken \in [Tabs -> Tokens]
    /\ tokens \in 0..MaxTokens /\ readable \in SUBSET (1..tokens)
    /\ kind \in [Calls -> Kinds]
    /\ at \in [Calls -> {"idle", "token", "ready", "asking", "posted", "answered",
                          "arrived"}]
    /\ retried \in [Calls -> BOOLEAN]
    /\ header \in [Calls -> Tokens]
    /\ sent \in [Calls -> Cookies]
    /\ answer \in [Calls -> Answers]
    /\ begun \in 0..MaxCalls /\ lost \in 0..MaxLost
    /\ runs \in [Calls -> 0..2]
    /\ lastLogin \in Stamps \cup {None}
    /\ raced \in SUBSET Calls
    /\ ended \in BOOLEAN
    /\ after \in SUBSET Calls

NoCookies == [csrf |-> None, session |-> None]
NoAnswer == [status |-> "ok", token |-> None, csrf |-> Keep, session |-> Keep]

AuthInit ==
    /\ time = 0 /\ keys = 1
    /\ jar = NoCookies
    /\ csrfToken = [t \in Tabs |-> None]
    /\ tokens = 0 /\ readable = {}
    /\ kind = [c \in Calls |-> "look"]
    /\ at = [c \in Calls |-> "idle"]
    /\ retried = [c \in Calls |-> FALSE]
    /\ header = [c \in Calls |-> None]
    /\ sent = [c \in Calls |-> NoCookies]
    /\ answer = [c \in Calls |-> NoAnswer]
    /\ begun = 0 /\ lost = 0
    /\ runs = [c \in Calls |-> 0]
    /\ lastLogin = None
    /\ raced = {}
    /\ ended = FALSE
    /\ after = {}

Proceed(c, where) == at' = [at EXCEPT ![c] = where]

\* The call is over, and what was held for it is dropped.
End(c) ==
    /\ Proceed(c, "idle")
    /\ kind' = [kind EXCEPT ![c] = "look"]
    /\ retried' = [retried EXCEPT ![c] = FALSE]
    /\ header' = [header EXCEPT ![c] = None]
    /\ sent' = [sent EXCEPT ![c] = NoCookies]
    /\ answer' = [answer EXCEPT ![c] = NoAnswer]
    /\ runs' = [runs EXCEPT ![c] = 0]
    /\ raced' = raced \ {c}
    /\ after' = after \ {c}
    /\ UNCHANGED <<time, keys, issueVars, begun, lastLogin, ended>>

\* What happens now may spoil the second attempt of the calls of cs.
Overtakes(cs) == raced' = raced \cup {c \in cs : Active(c) /\ retried[c]}

-----------------------------------------------------------------------------
(***************************************************************************)
(* The server: cookies made and read, and the answers to requests.         *)
(***************************************************************************)
Stamp == [at |-> time, key |-> keys]

\* CheckCSRF
CheckCSRF(c) ==
    /\ sent[c].csrf \in readable
    /\ header[c] = sent[c].csrf

\* Session: the cookie is one of ours, and its exp is still to come.
Session(c) ==
    LET cookie == sent[c].session IN
    cookie # None /\ cookie.key = keys /\ time < cookie.at + Duration

Reply(c, status, token, csrf, session) ==
    /\ answer' = [answer EXCEPT ![c] =
          [status |-> status, token |-> token, csrf |-> csrf, session |-> session]]
    /\ Proceed(c, "answered")

\* GET /api/auth/session: the token of the cookie that came, or a new one.
ApiAuthSession(c) ==
    /\ at[c] = "asking"
    /\ IF sent[c].csrf \in readable
       THEN Reply(c, "ok", sent[c].csrf, Keep, Keep) /\ UNCHANGED <<tokens, readable>>
       ELSE /\ tokens < MaxTokens
            /\ tokens' = tokens + 1
            /\ readable' = readable \cup {tokens + 1}
            /\ Reply(c, "ok", tokens + 1, tokens + 1, Keep)
    /\ UNCHANGED <<time, keys, browserVars, kind, retried, header, sent, begun, lost,
                   recordVars>>

\* The middlewares: a POST to the API needs a session, every POST the token.
AuthRefuses(c) ==
    /\ at[c] = "posted"
    /\ kind[c] = "create" /\ ~Session(c)
    /\ Reply(c, "unauthorized", None, Keep, Keep)
    /\ UNCHANGED <<time, keys, issueVars, browserVars, kind, retried, header, sent, begun,
                   lost, recordVars>>

\* Mutant: the token is checked behind the handler.
RunThenRefuse(c) ==
    /\ at[c] = "posted"
    /\ kind[c] = "create" => Session(c)
    /\ ~CheckCSRF(c)
    /\ Reply(c, "forbidden", None, Keep, Keep)
    /\ runs' = [runs EXCEPT ![c] = @ + 1]
    /\ UNCHANGED <<time, keys, issueVars, browserVars, kind, retried, header, sent, begun,
                   lost, lastLogin, raced, ended, after>>

CsrfRefuses(c) ==
    /\ at[c] = "posted"
    /\ kind[c] = "create" => Session(c)
    /\ ~CheckCSRF(c)
    /\ Reply(c, "forbidden", None, Keep, Keep)
    /\ UNCHANGED <<time, keys, issueVars, browserVars, kind, retried, header, sent, begun,
                   lost, recordVars>>

Runs(c) ==
    /\ at[c] = "posted" /\ CheckCSRF(c)
    /\ runs' = [runs EXCEPT ![c] = @ + 1]
    /\ UNCHANGED <<time, keys, issueVars, browserVars, kind, retried, header, sent, begun,
                   lost, raced, ended, after>>

ApiSessions(c) ==
    /\ kind[c] = "create" /\ Session(c) /\ Runs(c)
    /\ Reply(c, "ok", None, Keep, Keep)
    /\ UNCHANGED lastLogin

\* POST /login: SetSessionCookie, or the wrong password.
ApiLogin(c) ==
    /\ kind[c] = "login" /\ Runs(c)
    /\ \/ Reply(c, "ok", None, Keep, Stamp) /\ lastLogin' = Stamp
       \/ Reply(c, "unauthorized", None, Keep, Keep) /\ UNCHANGED lastLogin

\* Mutant: the cookie stays.
LogoutKeeping(c) ==
    /\ kind[c] = "logout" /\ Runs(c)
    /\ Reply(c, "ok", None, Keep, Keep)
    /\ UNCHANGED lastLogin

\* POST /logout: ClearSessionCookie.
Logout(c) ==
    /\ kind[c] = "logout" /\ Runs(c)
    /\ Reply(c, "ok", None, Keep, None)
    /\ UNCHANGED lastLogin

-----------------------------------------------------------------------------
(***************************************************************************)
(* The browser and client.ts.                                              *)
(***************************************************************************)
Begin(c, k) ==
    /\ ~Active(c) /\ begun < MaxCalls
    /\ begun' = begun + 1
    /\ kind' = [kind EXCEPT ![c] = k]
    /\ after' = IF ended /\ k = "create" THEN after \cup {c} ELSE after
    /\ Proceed(c, "token")
    /\ UNCHANGED <<time, keys, issueVars, browserVars, retried, header, sent, answer, lost,
                   runs, lastLogin, raced, ended>>

Send(c, where) ==
    /\ sent' = [sent EXCEPT ![c] = jar]
    /\ Proceed(c, where)

\* getCSRFToken: the token that is kept is taken,
TakeToken(c) ==
    /\ at[c] = "token" /\ kind[c] # "look"
    /\ csrfToken[TabOf[c]] # None
    /\ header' = [header EXCEPT ![c] = csrfToken[TabOf[c]]]
    /\ Proceed(c, "ready")
    /\ UNCHANGED <<time, keys, issueVars, browserVars, kind, retried, sent, answer, begun,
                   lost, recordVars>>

\* or one is asked for.
AskForToken(c) ==
    /\ at[c] = "token"
    /\ kind[c] = "look" \/ csrfToken[TabOf[c]] = None
    /\ Send(c, "asking")
    /\ UNCHANGED <<time, keys, issueVars, browserVars, kind, retried, header, answer,
                   begun, lost, recordVars>>

\* The fetch of fetchWithCSRF.
Fetch(c) ==
    /\ at[c] = "ready"
    /\ Send(c, "posted")
    /\ UNCHANGED <<time, keys, issueVars, browserVars, kind, retried, header, answer,
                   begun, lost, recordVars>>

\* The answer of c says that its POST of kind k was done.
Done(c, k) ==
    kind[c] = k /\ answer[c].token = None /\ answer[c].status = "ok"

\* The answer arrives, and its cookies enter the jar.
Arrive(c) ==
    /\ at[c] = "answered"
    /\ Proceed(c, "arrived")
    /\ LET a == answer[c] IN
       /\ jar' = [csrf |-> IF a.csrf = Keep THEN jar.csrf ELSE a.csrf,
                  session |-> IF a.session = Keep THEN jar.session ELSE a.session]
       /\ IF a.csrf = Keep THEN UNCHANGED raced ELSE Overtakes(Calls \ {c})
    /\ ended' = (Done(c, "logout") \/ (ended /\ ~Done(c, "login")))
    /\ after' = IF Done(c, "login") THEN {} ELSE after
    /\ UNCHANGED <<time, keys, issueVars, csrfToken, kind, retried, header, sent, answer,
                   begun, lost, runs, lastLogin>>

HoldsToken(c) == at[c] = "arrived" /\ answer[c].token # None

\* Back in getCSRFToken the token is kept and used.
KeepToken(c) ==
    /\ HoldsToken(c) /\ kind[c] # "look"
    /\ csrfToken' = [csrfToken EXCEPT ![TabOf[c]] = answer[c].token]
    /\ header' = [header EXCEPT ![c] = answer[c].token]
    /\ Proceed(c, "ready")
    /\ UNCHANGED <<time, keys, issueVars, jar, kind, retried, sent, answer, begun, lost,
                   recordVars>>

EndLook(c) ==
    /\ HoldsToken(c) /\ kind[c] = "look"
    /\ End(c)
    /\ UNCHANGED <<browserVars, lost>>

Refused(c) ==
    at[c] = "arrived" /\ answer[c].token = None /\ answer[c].status = "forbidden"

\* Mutant: the second attempt uses the token that was refused.
RetryWithSameToken(c) ==
    /\ Refused(c) /\ ~retried[c]
    /\ retried' = [retried EXCEPT ![c] = TRUE]
    /\ Proceed(c, "token")
    /\ UNCHANGED <<time, keys, issueVars, browserVars, kind, header, sent, answer, begun,
                   lost, recordVars>>

\* A first 403: the token is forgotten, a new one asked for, all in one go.
Retry(c) ==
    /\ Refused(c) /\ ~retried[c]
    /\ retried' = [retried EXCEPT ![c] = TRUE]
    /\ csrfToken' = [csrfToken EXCEPT ![TabOf[c]] = None]
    /\ Send(c, "asking")
    /\ UNCHANGED <<time, keys, issueVars, jar, kind, header, answer, begun, lost,
                   recordVars>>

\* Every other answer is the caller's; after a logout the token is forgotten.
Return(c) ==
    /\ at[c] = "arrived" /\ answer[c].token = None
    /\ Refused(c) => retried[c]
    /\ End(c)
    /\ csrfToken' = IF kind[c] = "logout" /\ answer[c].status = "ok"
                    THEN [csrfToken EXCEPT ![TabOf[c]] = None]
                    ELSE csrfToken
    /\ UNCHANGED <<jar, lost>>

\* The connection breaks under a request or its answer: fetch throws.
Lose(c) ==
    /\ at[c] \in {"asking", "posted", "answered"} /\ lost < MaxLost
    /\ lost' = lost + 1
    /\ End(c)
    /\ UNCHANGED browserVars

\* The page is loaded again, by redirectToLogin or by the user.
Reload(t) ==
    /\ \A c \in Calls : TabOf[c] = t => ~Active(c)
    /\ csrfToken[t] # None
    /\ csrfToken' = [csrfToken EXCEPT ![t] = None]
    /\ UNCHANGED <<time, keys, issueVars, jar, callVars, recordVars>>

TimePasses ==
    /\ time < MaxSessionTime
    /\ time' = time + 1
    /\ UNCHANGED <<keys, issueVars, browserVars, callVars, recordVars>>

\* The cookie of token n is older than the library's limit.
Outlive(n) ==
    /\ n \in readable
    /\ readable' = readable \ {n}
    /\ Overtakes(Calls)
    /\ UNCHANGED <<time, keys, tokens, browserVars, callVars, runs, lastLogin, ended, after>>

\* The process starts again with other cookie keys.
ChangeKeys ==
    /\ keys < MaxKeys
    /\ keys' = keys + 1
    /\ readable' = {}
    /\ Overtakes(Calls)
    /\ UNCHANGED <<time, tokens, browserVars, callVars, runs, lastLogin, ended, after>>

Serves(c) ==
    \/ ApiAuthSession(c) \/ AuthRefuses(c) \/ CsrfRefuses(c)
    \/ ApiSessions(c) \/ ApiLogin(c) \/ Logout(c)

GoesOn(c) ==
    \/ \E k \in Offered : Begin(c, k)
    \/ TakeToken(c) \/ AskForToken(c) \/ Fetch(c) \/ Arrive(c)
    \/ KeepToken(c) \/ EndLook(c) \/ Retry(c) \/ Return(c) \/ Lose(c)

AuthNext ==
    \/ \E c \in Calls : Serves(c) \/ GoesOn(c)
    \/ \E t \in Tabs : Reload(t)
    \/ TimePasses \/ ChangeKeys
    \/ \E n \in 1..MaxTokens : Outlive(n)

AuthSpec == AuthInit /\ [][AuthNext]_authVars

-----------------------------------------------------------------------------

\* A call ends as forbidden only if another call's cookie, a new key or the
\* cookie's age came between its second token and its second request: a token
\* that has gone stale at any time before costs one attempt, never the call.
RefusedOnlyWhenRaced ==
    \A c \in Calls : Refused(c) /\ retried[c] => c \in raced

Succeeded(c) ==
    at[c] = "arrived" /\ answer[c].token = None /\ answer[c].status = "ok"

\* Whatever is refused and sent again, the handler runs at most once for a call,
\* and it has run for one that succeeded.
RunsOnce ==
    \A c \in Calls :
        /\ runs[c] <= 1
        /\ Succeeded(c) => runs[c] = 1

\* A creation that begins when a logout's answer has arrived does not run, in any
\* tab, unless a login's answer arrives after the logout's.  A login that was
\* under way when the admin logged out may be that one: the browser is signed in
\* by whichever of the two answers comes last.
LogoutHolds ==
    [][\A c \in after : c \in after' => runs'[c] = runs[c]]_authVars
=============================================================================
