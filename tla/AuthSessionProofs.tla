-------------------------- MODULE AuthSessionProofs --------------------------
(***************************************************************************)
(* Theorems about AuthSession, for any tabs and calls, any duration of a   *)
(* session, and any bounds on time, keys, tokens, calls and losses.        *)
(***************************************************************************)
EXTENDS AuthSession, TLAPS

-----------------------------------------------------------------------------
(***************************************************************************)
(* The inductive invariant: what is known of a call at each of its steps.  *)
(***************************************************************************)
WaitsForAnswer(c) == at[c] \in {"answered", "arrived"}
OfHandler(c) == WaitsForAnswer(c) /\ answer[c].token = None

\* The handler has not run for a call that may still reach it.
RunsInv ==
    \A c \in Calls :
        /\ ~OfHandler(c) => runs[c] = 0
        /\ OfHandler(c) /\ answer[c].status = "ok" => runs[c] = 1
        /\ OfHandler(c) /\ answer[c].status = "forbidden" => runs[c] = 0
        /\ runs[c] \in {0, 1}

\* From its second question for a token on, a call that nothing overtook has
\* the browser's cookie, or will have made it, and the server can read it.
TokenIsGood(c) ==
    /\ at[c] = "asking" => sent[c].csrf = jar.csrf
    /\ at[c] = "answered" /\ answer[c].token # None =>
          /\ answer[c].token \in readable
          /\ answer[c].csrf # Keep => answer[c].csrf = answer[c].token
          /\ answer[c].csrf = Keep => jar.csrf = answer[c].token
    /\ HoldsToken(c) => answer[c].token \in readable /\ jar.csrf = answer[c].token
    /\ at[c] = "ready" => header[c] \in readable /\ jar.csrf = header[c]
    /\ at[c] = "posted" => header[c] \in readable /\ sent[c].csrf = header[c]
    /\ OfHandler(c) => answer[c].status # "forbidden"

RacedInv ==
    \A c \in Calls :
        /\ retried[c] /\ c \notin raced => TokenIsGood(c)
        /\ at[c] \in {"idle", "token"} => ~retried[c]

\* After a logout the browser has no session, and only a login's answer brings one.
EndedInv ==
    /\ ended => jar.session = None
    /\ \A c \in Calls : at[c] = "answered" =>
          /\ ~Done(c, "login") => answer[c].session \in {Keep, None}
          /\ Done(c, "logout") => answer[c].session = None
    /\ \A c \in after :
          /\ ended /\ Active(c) /\ kind[c] = "create"
          /\ at[c] \in {"asking", "posted"} => sent[c].session = None

AuthInv == AuthTypeOK /\ RunsInv /\ RacedInv /\ EndedInv

-----------------------------------------------------------------------------
(***************************************************************************)
(* The step of a call.                                                     *)
(***************************************************************************)
SameCall(c) ==
    /\ kind'[c] = kind[c] /\ at'[c] = at[c] /\ retried'[c] = retried[c]
    /\ header'[c] = header[c] /\ sent'[c] = sent[c] /\ answer'[c] = answer[c]
    /\ runs'[c] = runs[c]

\* A step of one call leaves the others as they are.
LEMMA OthersSame ==
    ASSUME AuthTypeOK, NEW c \in Calls, Serves(c) \/ GoesOn(c),
           NEW d \in Calls, d # c
    PROVE  SameCall(d)
<1> USE DEF SameCall, AuthTypeOK, Proceed, Reply, recordVars, callVars
<1>1. CASE ApiAuthSession(c)
  BY <1>1 DEF ApiAuthSession
<1>2. CASE AuthRefuses(c)
  BY <1>2 DEF AuthRefuses
<1>3. CASE CsrfRefuses(c)
  BY <1>3 DEF CsrfRefuses
<1>4. CASE ApiSessions(c) \/ ApiLogin(c) \/ Logout(c)
  BY <1>4 DEF ApiSessions, ApiLogin, Logout, Runs
<1>5. CASE \E k \in Offered : Begin(c, k)
  BY <1>5 DEF Begin
<1>6. CASE TakeToken(c) \/ AskForToken(c) \/ Fetch(c)
  BY <1>6 DEF TakeToken, AskForToken, Fetch, Send
<1>7. CASE Arrive(c)
  BY <1>7 DEF Arrive
<1>8. CASE KeepToken(c)
  BY <1>8 DEF KeepToken
<1>9. CASE EndLook(c) \/ Return(c) \/ Lose(c)
  BY <1>9 DEF EndLook, Return, Lose, End
<1>10. CASE Retry(c)
  BY <1>10 DEF Retry, Send
<1> QED
  BY <1>1, <1>2, <1>3, <1>4, <1>5, <1>6, <1>7, <1>8, <1>9, <1>10 DEF Serves, GoesOn

\* What moves no call.
NoCall ==
    \/ \E t \in Tabs : Reload(t)
    \/ TimePasses \/ ChangeKeys
    \/ \E n \in 1..MaxTokens : Outlive(n)
    \/ UNCHANGED authVars

LEMMA NoCallMoves ==
    ASSUME NoCall, NEW c \in Calls
    PROVE  SameCall(c)
  BY DEF NoCall, Reload, TimePasses, ChangeKeys, Outlive, SameCall, authVars, callVars,
         recordVars

LEMMA StepOfCall ==
    ASSUME [AuthNext]_authVars
    PROVE  NoCall \/ \E c \in Calls : Serves(c) \/ GoesOn(c)
  BY DEF AuthNext, NoCall

-----------------------------------------------------------------------------
(***************************************************************************)
(* Types.                                                                  *)
(***************************************************************************)
LEMMA BoundsAreNat ==
    /\ MaxSessionTime \in Nat /\ MaxKeys \in Nat \ {0} /\ MaxTokens \in Nat
    /\ MaxCalls \in Nat /\ MaxLost \in Nat
  BY AuthAssumption DEF AuthAssumption

\* A cookie that can be read is a token.
LEMMA ReadableType ==
    ASSUME AuthTypeOK, NEW n \in readable
    PROVE  n \in 1..MaxTokens /\ n # None
<1>1. n \in 1..tokens
  BY DEF AuthTypeOK
<1>2. tokens \in 0..MaxTokens
  BY DEF AuthTypeOK
<1>3. n \in 1..MaxTokens
  BY <1>1, <1>2, BoundsAreNat
<1> QED
  BY <1>3, MarksAssumption

LEMMA InitInv == AuthInit => AuthInv
<1> SUFFICES ASSUME AuthInit PROVE AuthInv
  OBVIOUS
<1> USE DEF AuthInit
<1>1. AuthTypeOK
  <2>1. None \in Tokens /\ "look" \in Kinds
    BY DEF Tokens, Kinds
  <2>2. NoCookies \in Cookies /\ NoAnswer \in Answers
    BY <2>1 DEF NoCookies, Cookies, NoAnswer, Answers
  <2>3. /\ time \in 0..MaxSessionTime /\ keys \in 1..MaxKeys
        /\ tokens \in 0..MaxTokens /\ begun \in 0..MaxCalls /\ lost \in 0..MaxLost
    BY BoundsAreNat
  <2>4. /\ jar \in Cookies
        /\ readable \in SUBSET (1..tokens) /\ raced \in SUBSET Calls
        /\ after \in SUBSET Calls
        /\ ended \in BOOLEAN /\ lastLogin \in Stamps \cup {None}
    BY <2>2
  <2>5. /\ csrfToken \in [Tabs -> Tokens] /\ header \in [Calls -> Tokens]
        /\ kind \in [Calls -> Kinds]
        /\ retried \in [Calls -> BOOLEAN]
        /\ runs \in [Calls -> 0..2]
    BY <2>1
  <2>6. /\ at \in [Calls -> {"idle", "token", "ready", "asking", "posted", "answered",
                              "arrived"}]
        /\ sent \in [Calls -> Cookies] /\ answer \in [Calls -> Answers]
    BY <2>2
  <2> QED
    BY <2>3, <2>4, <2>5, <2>6 DEF AuthTypeOK
<1>2. RunsInv /\ RacedInv /\ EndedInv
  BY DEF RunsInv, RacedInv, EndedInv, OfHandler, WaitsForAnswer, Active
<1> QED
  BY <1>1, <1>2 DEF AuthInv

\* The server's answers are answers.
LEMMA ReplyType ==
    ASSUME AuthTypeOK, NEW c \in Calls,
           NEW status \in {"ok", "unauthorized", "forbidden"}, NEW token \in Tokens,
           NEW csrf \in Tokens \cup {Keep}, NEW session \in Stamps \cup {None, Keep},
           Reply(c, status, token, csrf, session)
    PROVE  /\ answer' \in [Calls -> Answers]
           /\ at' \in [Calls -> {"idle", "token", "ready", "asking", "posted", "answered",
                                  "arrived"}]
           /\ at'[c] = "answered"
           /\ answer'[c] = [status |-> status, token |-> token, csrf |-> csrf,
                            session |-> session]
  BY DEF AuthTypeOK, Reply, Proceed, Answers

LEMMA StampType ==
    ASSUME AuthTypeOK
    PROVE  Stamp \in Stamps
  BY DEF AuthTypeOK, Stamp, Stamps

LEMMA ServesType ==
    ASSUME AuthTypeOK, RunsInv, NEW c \in Calls, Serves(c)
    PROVE  AuthTypeOK'
<1>n. None \in Tokens
  BY DEF Tokens
<1>1. CASE ApiAuthSession(c)
  <2>1. tokens' \in 0..MaxTokens /\ readable' \in SUBSET (1..tokens')
    <3>1. tokens \in 0..MaxTokens /\ readable \in SUBSET (1..tokens)
      BY DEF AuthTypeOK
    <3>2. \/ tokens' = tokens /\ readable' = readable
          \/ tokens < MaxTokens /\ tokens' = tokens + 1 /\ readable' = readable \cup {tokens + 1}
      BY <1>1 DEF ApiAuthSession
    <3>3. tokens' \in 0..MaxTokens
      BY <3>1, <3>2, BoundsAreNat
    <3>4. ASSUME NEW n \in readable' PROVE n \in 1..tokens'
      <4>1. tokens \in Int
        BY <3>1, BoundsAreNat
      <4>2. CASE n \in readable
        <5>1. n \in 1..tokens
          BY <3>1, <4>2
        <5>2. tokens' \in {tokens, tokens + 1}
          BY <3>2
        <5> QED
          BY <4>1, <5>1, <5>2
      <4>3. CASE n \notin readable
        <5>1. n = tokens + 1 /\ tokens' = tokens + 1
          BY <3>2, <3>4, <4>3
        <5> QED
          BY <3>1, <5>1, BoundsAreNat
      <4> QED
        BY <4>2, <4>3
    <3> QED
      BY <3>3, <3>4
  <2>2. /\ answer' \in [Calls -> Answers]
        /\ at' \in [Calls -> {"idle", "token", "ready", "asking", "posted", "answered",
                               "arrived"}]
    <3>1. CASE sent[c].csrf \in readable
      <4>1. sent[c].csrf \in Tokens
        BY DEF AuthTypeOK, Cookies
      <4> QED
        BY <1>1, <3>1, <4>1, ReplyType DEF ApiAuthSession
    <3>2. CASE sent[c].csrf \notin readable
      <4>1. tokens + 1 \in Tokens
        BY <1>1, <3>2, BoundsAreNat DEF ApiAuthSession, AuthTypeOK, Tokens
      <4> QED
        BY <1>1, <3>2, <4>1, ReplyType DEF ApiAuthSession
    <3> QED
      BY <3>1, <3>2
  <2> QED
    BY <1>1, <2>1, <2>2 DEF ApiAuthSession, AuthTypeOK, browserVars, recordVars
<1>2. CASE AuthRefuses(c)
  BY <1>2, <1>n, ReplyType DEF AuthRefuses, AuthTypeOK, issueVars, browserVars, recordVars
<1>3. CASE CsrfRefuses(c)
  BY <1>3, <1>n, ReplyType DEF CsrfRefuses, AuthTypeOK, issueVars, browserVars, recordVars
<1>4. ASSUME Runs(c) PROVE runs' \in [Calls -> 0..2]
  <2>1. runs[c] \in {0, 1}
    BY DEF RunsInv
  <2> QED
    BY <1>4, <2>1 DEF Runs, AuthTypeOK
<1>5. CASE ApiSessions(c)
  BY <1>4, <1>5, <1>n, ReplyType
  DEF ApiSessions, Runs, AuthTypeOK, issueVars, browserVars
<1>6. CASE ApiLogin(c)
  <2>1. /\ answer' \in [Calls -> Answers]
        /\ at' \in [Calls -> {"idle", "token", "ready", "asking", "posted", "answered",
                               "arrived"}]
    BY <1>6, <1>n, StampType, ReplyType DEF ApiLogin
  <2>2. lastLogin' \in Stamps \cup {None}
    BY <1>6, StampType DEF ApiLogin, AuthTypeOK
  <2> QED
    BY <1>4, <1>6, <2>1, <2>2 DEF ApiLogin, Runs, AuthTypeOK, issueVars, browserVars
<1>7. CASE Logout(c)
  BY <1>4, <1>7, <1>n, ReplyType
  DEF Logout, Runs, AuthTypeOK, issueVars, browserVars
<1> QED
  BY <1>1, <1>2, <1>3, <1>5, <1>6, <1>7 DEF Serves

\* A call that ends leaves nothing behind.
LEMMA EndType ==
    ASSUME AuthTypeOK, NEW c \in Calls, End(c)
    PROVE  /\ at' \in [Calls -> {"idle", "token", "ready", "asking", "posted", "answered",
                                  "arrived"}]
           /\ kind' \in [Calls -> Kinds] /\ retried' \in [Calls -> BOOLEAN]
           /\ header' \in [Calls -> Tokens] /\ sent' \in [Calls -> Cookies]
           /\ answer' \in [Calls -> Answers] /\ runs' \in [Calls -> 0..2]
           /\ raced' \in SUBSET Calls /\ after' \in SUBSET Calls
<1>1. None \in Tokens /\ "look" \in Kinds
  BY DEF Tokens, Kinds
<1>2. NoCookies \in Cookies /\ NoAnswer \in Answers
  BY <1>1 DEF NoCookies, Cookies, NoAnswer, Answers
<1> QED
  BY <1>1, <1>2 DEF AuthTypeOK, End, Proceed

\* The jar takes the cookies of an answer.
LEMMA JarType ==
    ASSUME AuthTypeOK, NEW c \in Calls, Arrive(c)
    PROVE  jar' \in Cookies
<1>1. /\ answer[c].csrf \in Tokens \cup {Keep}
      /\ answer[c].session \in Stamps \cup {None, Keep}
      /\ jar.csrf \in Tokens /\ jar.session \in Stamps \cup {None}
  BY DEF AuthTypeOK, Answers, Cookies
<1> DEFINE csrf == IF answer[c].csrf = Keep THEN jar.csrf ELSE answer[c].csrf
           session == IF answer[c].session = Keep THEN jar.session ELSE answer[c].session
<1>2. jar' = [csrf |-> csrf, session |-> session]
  BY DEF Arrive
<1>3. csrf \in Tokens /\ session \in Stamps \cup {None}
  BY <1>1
<1> QED
  BY <1>2, <1>3 DEF Cookies

LEMMA GoesOnType ==
    ASSUME AuthTypeOK, NEW c \in Calls, GoesOn(c)
    PROVE  AuthTypeOK'
<1> USE DEF AuthTypeOK, Proceed
<1>n. None \in Tokens
  BY DEF Tokens
<1>t. TabOf[c] \in Tabs
  BY AuthAssumption
<1>1. ASSUME NEW k \in Offered, Begin(c, k) PROVE AuthTypeOK'
  <2>1. k \in Kinds
    BY AuthAssumption
  <2>2. begun' \in 0..MaxCalls
    BY <1>1, BoundsAreNat DEF Begin
  <2>3. ended' \in BOOLEAN /\ after' \in SUBSET Calls
    BY <1>1 DEF Begin
  <2> QED
    BY <1>1, <2>1, <2>2, <2>3 DEF Begin, issueVars, browserVars
<1>2. CASE TakeToken(c)
  BY <1>2, <1>t DEF TakeToken, issueVars, browserVars, recordVars
<1>3. CASE AskForToken(c)
  BY <1>3 DEF AskForToken, Send, issueVars, browserVars, recordVars
<1>4. CASE Fetch(c)
  BY <1>4 DEF Fetch, Send, issueVars, browserVars, recordVars
<1>5. CASE Arrive(c)
  <2>1. raced' \in SUBSET Calls /\ ended' \in BOOLEAN /\ after' \in SUBSET Calls
    BY <1>5 DEF Arrive, Overtakes
  <2> QED
    BY <1>5, <2>1, JarType DEF Arrive, issueVars
<1>6. CASE KeepToken(c)
  <2>1. answer[c].token \in Tokens
    BY DEF Answers
  <2> QED
    BY <1>6, <1>t, <2>1 DEF KeepToken, issueVars, recordVars
<1>7. CASE EndLook(c)
  <2>1. End(c) /\ jar' = jar /\ csrfToken' = csrfToken /\ lost' = lost
    BY <1>7 DEF EndLook, browserVars
  <2> QED
    BY <2>1, EndType DEF End, issueVars
<1>8. CASE Retry(c)
  BY <1>8, <1>n, <1>t DEF Retry, Send, issueVars, recordVars
<1>9. CASE Return(c)
  <2>1. End(c) /\ csrfToken' \in [Tabs -> Tokens]
    BY <1>9, <1>n, <1>t DEF Return
  <2> QED
    BY <1>9, <2>1, EndType DEF Return, End, issueVars
<1>10. CASE Lose(c)
  <2>1. End(c) /\ jar' = jar /\ csrfToken' = csrfToken
    BY <1>10 DEF Lose, browserVars
  <2>2. lost' \in 0..MaxLost
    BY <1>10, BoundsAreNat DEF Lose
  <2> QED
    BY <2>1, <2>2, EndType DEF End, issueVars
<1> QED
  BY <1>1, <1>2, <1>3, <1>4, <1>5, <1>6, <1>7, <1>8, <1>9, <1>10 DEF GoesOn

LEMMA NoCallType ==
    ASSUME AuthTypeOK, NoCall
    PROVE  AuthTypeOK'
<1> USE DEF AuthTypeOK
<1>1. ASSUME NEW t \in Tabs, Reload(t) PROVE AuthTypeOK'
  BY <1>1 DEF Reload, Tokens, issueVars, callVars, recordVars
<1>2. CASE TimePasses
  <2>1. time' \in 0..MaxSessionTime
    BY <1>2, BoundsAreNat DEF TimePasses
  <2> QED
    BY <1>2, <2>1 DEF TimePasses, issueVars, browserVars, callVars, recordVars
<1>3. CASE ChangeKeys
  <2>1. keys' \in 1..MaxKeys
    BY <1>3, BoundsAreNat DEF ChangeKeys
  <2>2. raced' \in SUBSET Calls
    BY <1>3 DEF ChangeKeys, Overtakes
  <2> QED
    BY <1>3, <2>1, <2>2 DEF ChangeKeys, browserVars, callVars
<1>4. ASSUME NEW n \in 1..MaxTokens, Outlive(n) PROVE AuthTypeOK'
  <2>1. raced' \in SUBSET Calls /\ readable' \in SUBSET (1..tokens')
    BY <1>4 DEF Outlive, Overtakes
  <2> QED
    BY <1>4, <2>1 DEF Outlive, browserVars, callVars
<1>5. CASE UNCHANGED authVars
  BY <1>5 DEF authVars, issueVars, browserVars, callVars, recordVars
<1> QED
  BY <1>1, <1>2, <1>3, <1>4, <1>5 DEF NoCall

LEMMA TypeStep ==
    ASSUME AuthTypeOK, RunsInv, [AuthNext]_authVars
    PROVE  AuthTypeOK'
  BY StepOfCall, NoCallType, ServesType, GoesOnType

-----------------------------------------------------------------------------
(***************************************************************************)
(* The handler behind the middlewares.                                     *)
(***************************************************************************)
LEMMA HandlerRuns ==
    ASSUME AuthTypeOK, NEW c \in Calls, Runs(c)
    PROVE  /\ at[c] = "posted" /\ runs'[c] = runs[c] + 1
           /\ sent[c].csrf \in readable /\ header[c] = sent[c].csrf
  BY DEF AuthTypeOK, Runs, CheckCSRF

LEMMA CallEnds ==
    ASSUME AuthTypeOK, NEW c \in Calls, End(c)
    PROVE  at'[c] = "idle" /\ retried'[c] = FALSE /\ runs'[c] = 0 /\ c \notin after'
  BY DEF AuthTypeOK, End, Proceed

LEMMA RunsStep ==
    ASSUME AuthTypeOK, RunsInv, [AuthNext]_authVars
    PROVE  RunsInv'
<1> DEFINE Good(c) ==
        /\ ~OfHandler(c)' => runs'[c] = 0
        /\ OfHandler(c)' /\ answer'[c].status = "ok" => runs'[c] = 1
        /\ OfHandler(c)' /\ answer'[c].status = "forbidden" => runs'[c] = 0
        /\ runs'[c] \in {0, 1}
<1>1. ASSUME NEW c \in Calls, SameCall(c) PROVE Good(c)
  BY <1>1 DEF SameCall, RunsInv, OfHandler, WaitsForAnswer
<1>2. ASSUME NEW c \in Calls, Serves(c) PROVE Good(c)
  <2> USE DEF OfHandler, WaitsForAnswer, Tokens
  <2>n. ASSUME NEW t \in 1..MaxTokens PROVE t # None
    BY MarksAssumption
  <2>0. at[c] # "answered" /\ at[c] # "arrived" => runs[c] = 0
    BY DEF RunsInv
  <2>1. CASE ApiAuthSession(c)
    <3>1. /\ at[c] = "asking" /\ at'[c] = "answered" /\ answer'[c].token # None
          /\ runs' = runs
      <4>1. sent[c].csrf \in readable => sent[c].csrf \in 1..MaxTokens
        BY ReadableType
      <4>2. tokens < MaxTokens => tokens + 1 \in 1..MaxTokens
        BY BoundsAreNat DEF AuthTypeOK
      <4> QED
        BY <2>1, <2>n, <4>1, <4>2
        DEF ApiAuthSession, Reply, Proceed, AuthTypeOK, recordVars
    <3> QED
      BY <2>0, <3>1
  <2>2. CASE AuthRefuses(c) \/ CsrfRefuses(c)
    <3>1. /\ at[c] = "posted" /\ at'[c] = "answered" /\ runs' = runs
          /\ answer'[c].status \in {"unauthorized", "forbidden"}
      BY <2>2 DEF AuthRefuses, CsrfRefuses, Reply, Proceed, AuthTypeOK, recordVars
    <3> QED
      BY <2>0, <3>1
  <2>3. CASE ApiSessions(c) \/ ApiLogin(c) \/ Logout(c)
    <3>1. /\ at[c] = "posted" /\ runs'[c] = runs[c] + 1 /\ at'[c] = "answered"
          /\ answer'[c].token = None /\ answer'[c].status \in {"ok", "unauthorized"}
      BY <2>3, HandlerRuns
      DEF ApiSessions, ApiLogin, Logout, Reply, Proceed, AuthTypeOK
    <3> QED
      BY <2>0, <3>1
  <2> QED
    BY <1>2, <2>1, <2>2, <2>3 DEF Serves
<1>3. ASSUME NEW c \in Calls, GoesOn(c) PROVE Good(c)
  <2> USE DEF OfHandler, WaitsForAnswer
  <2>0. at[c] # "answered" /\ at[c] # "arrived" => runs[c] = 0
    BY DEF RunsInv
  <2>1. ASSUME NEW k \in Offered, Begin(c, k) PROVE Good(c)
    BY <2>0, <2>1 DEF Begin, Active, Proceed, AuthTypeOK
  <2>2. CASE TakeToken(c) \/ AskForToken(c) \/ Fetch(c)
    BY <2>0, <2>2 DEF TakeToken, AskForToken, Fetch, Send, Proceed, AuthTypeOK, recordVars
  <2>3. CASE Arrive(c)
    BY <2>3 DEF Arrive, Proceed, AuthTypeOK, RunsInv
  <2>4. CASE KeepToken(c)
    BY <2>4 DEF KeepToken, HoldsToken, Proceed, AuthTypeOK, RunsInv, recordVars
  <2>5. CASE EndLook(c) \/ Return(c) \/ Lose(c)
    BY <2>5, CallEnds DEF EndLook, Return, Lose
  <2>6. CASE Retry(c)
    BY <2>6 DEF Retry, Refused, Send, Proceed, AuthTypeOK, RunsInv, recordVars
  <2> QED
    BY <1>3, <2>1, <2>2, <2>3, <2>4, <2>5, <2>6 DEF GoesOn
<1>4. ASSUME NEW c \in Calls PROVE Good(c)
  BY <1>1, <1>2, <1>3, StepOfCall, NoCallMoves, OthersSame
<1> QED
  BY <1>4 DEF RunsInv

-----------------------------------------------------------------------------
(***************************************************************************)
(* What overtakes a call that is sent again.                               *)
(***************************************************************************)

\* A call that is being repeated stays good while others move, or is overtaken.
LEMMA GoodStays ==
    ASSUME AuthTypeOK, RacedInv, NEW c \in Calls, SameCall(c),
           retried'[c], c \notin raced',
           c \in raced => c \in raced',
           \/ jar'.csrf = jar.csrf /\ readable \subseteq readable'
           \/ Active(c) /\ retried[c] => c \in raced'
    PROVE  TokenIsGood(c)'
<1>1. retried[c] /\ c \notin raced /\ Active(c)
  BY DEF SameCall, RacedInv, Active
<1>2. TokenIsGood(c) /\ jar'.csrf = jar.csrf /\ readable \subseteq readable'
  BY <1>1 DEF RacedInv
<1> QED
  BY <1>2 DEF SameCall, TokenIsGood, HoldsToken, OfHandler, WaitsForAnswer

LEMMA NoCallRaced ==
    ASSUME AuthTypeOK, RacedInv, NoCall
    PROVE  RacedInv'
<1> SUFFICES ASSUME NEW c \in Calls
             PROVE  /\ retried'[c] /\ c \notin raced' => TokenIsGood(c)'
                    /\ at'[c] \in {"idle", "token"} => ~retried'[c]
  BY DEF RacedInv
<1>1. SameCall(c)
  BY NoCallMoves
<1>2. c \in raced => c \in raced'
  BY DEF NoCall, Reload, TimePasses, ChangeKeys, Outlive, Overtakes, authVars, recordVars
<1>3. \/ jar' = jar /\ readable' = readable
      \/ Active(c) /\ retried[c] => c \in raced'
  BY DEF NoCall, Reload, TimePasses, ChangeKeys, Outlive, Overtakes, authVars, issueVars,
         browserVars
<1>4. retried'[c] /\ c \notin raced' => TokenIsGood(c)'
  BY <1>1, <1>2, <1>3, GoodStays
<1> QED
  BY <1>1, <1>4 DEF SameCall, RacedInv

LEMMA ServesRaced ==
    ASSUME AuthTypeOK, RacedInv, NEW c \in Calls, Serves(c)
    PROVE  RacedInv'
<1>1. raced' = raced /\ jar' = jar /\ readable \subseteq readable'
  BY DEF Serves, ApiAuthSession, AuthRefuses, CsrfRefuses, ApiSessions, ApiLogin, Logout,
         Runs, recordVars, browserVars, issueVars
<1>2. at'[c] = "answered" /\ retried' = retried
  BY DEF Serves, ApiAuthSession, AuthRefuses, CsrfRefuses, ApiSessions, ApiLogin, Logout,
         Runs, Reply, Proceed, AuthTypeOK
<1>3. ASSUME retried[c], c \notin raced PROVE TokenIsGood(c)'
  <2> USE DEF TokenIsGood, HoldsToken, OfHandler, WaitsForAnswer
  <2>0. TokenIsGood(c)
    BY <1>3 DEF RacedInv
  <2>1. CASE ApiAuthSession(c)
    <3>1. sent[c].csrf = jar.csrf
      BY <2>0, <2>1 DEF ApiAuthSession
    <3>2. CASE sent[c].csrf \in readable
      <4>1. /\ answer'[c].token = sent[c].csrf /\ answer'[c].csrf = Keep
            /\ readable' = readable
        BY <2>1, <3>2 DEF ApiAuthSession, Reply, AuthTypeOK
      <4>2. sent[c].csrf # None
        BY <3>2, ReadableType
      <4> QED
        BY <1>1, <1>2, <3>1, <3>2, <4>1, <4>2
    <3>3. CASE sent[c].csrf \notin readable
      <4>1. /\ answer'[c].token = tokens + 1 /\ answer'[c].csrf = tokens + 1
            /\ tokens + 1 \in readable' /\ tokens < MaxTokens
        BY <2>1, <3>3 DEF ApiAuthSession, Reply, AuthTypeOK
      <4>t. tokens + 1 \in 1..MaxTokens
        BY <4>1, BoundsAreNat DEF AuthTypeOK
      <4>2. tokens + 1 # Keep /\ tokens + 1 # None
        BY <4>t, MarksAssumption
      <4> QED
        BY <1>2, <4>1, <4>2
    <3> QED
      BY <3>2, <3>3
  <2>2. CASE CsrfRefuses(c)
    BY <2>0, <2>2 DEF CsrfRefuses, CheckCSRF
  <2>3. CASE AuthRefuses(c) \/ ApiSessions(c) \/ ApiLogin(c) \/ Logout(c)
    <3>1. answer'[c].token = None /\ answer'[c].status # "forbidden"
      BY <2>3 DEF AuthRefuses, ApiSessions, ApiLogin, Logout, Reply, AuthTypeOK
    <3> QED
      BY <1>2, <3>1
  <2> QED
    BY <2>1, <2>2, <2>3 DEF Serves
<1>4. ASSUME NEW d \in Calls, d # c, retried'[d], d \notin raced' PROVE TokenIsGood(d)'
  BY <1>1, <1>4, OthersSame, GoodStays
<1>5. ASSUME NEW d \in Calls, d # c, at'[d] \in {"idle", "token"} PROVE ~retried'[d]
  BY <1>5, OthersSame DEF SameCall, RacedInv
<1> QED
  BY <1>1, <1>2, <1>3, <1>4, <1>5 DEF RacedInv

LEMMA GoesOnRaced ==
    ASSUME AuthTypeOK, RacedInv, NEW c \in Calls, GoesOn(c)
    PROVE  RacedInv'
<1> USE DEF AuthTypeOK, Proceed, Send
<1>1. readable' = readable
  BY DEF GoesOn, Begin, TakeToken, AskForToken, Fetch, Arrive, KeepToken, EndLook, Retry,
         Return, Lose, End, issueVars
<1>2. ASSUME NEW d \in Calls, d # c
      PROVE  /\ retried'[d] /\ d \notin raced' => TokenIsGood(d)'
             /\ at'[d] \in {"idle", "token"} => ~retried'[d]
  <2>1. SameCall(d)
    BY <1>2, OthersSame
  <2>2. d \in raced => d \in raced'
    BY <1>2 DEF GoesOn, Begin, TakeToken, AskForToken, Fetch, Arrive, KeepToken, EndLook,
                Retry, Return, Lose, End, Overtakes, recordVars
  <2>3. jar'.csrf = jar.csrf \/ (Active(d) /\ retried[d] => d \in raced')
    <3>1. CASE Arrive(c)
      BY <1>2, <3>1 DEF Arrive, Overtakes
    <3>2. CASE ~Arrive(c)
      <4>1. jar' = jar
        BY <3>2 DEF GoesOn, Begin, TakeToken, AskForToken, Fetch, KeepToken, EndLook,
                    Retry, Return, Lose, End, browserVars
      <4> QED
        BY <4>1
    <3> QED
      BY <3>1, <3>2
  <2> QED
    BY <1>1, <2>1, <2>2, <2>3, GoodStays DEF SameCall, RacedInv
<1> DEFINE Good == /\ retried'[c] /\ c \notin raced' => TokenIsGood(c)'
                   /\ at'[c] \in {"idle", "token"} => ~retried'[c]
<1>3. Good
  <2> SUFFICES Good
    OBVIOUS
  <2> USE DEF RacedInv, TokenIsGood, HoldsToken, OfHandler, WaitsForAnswer
  <2>1. ASSUME NEW k \in Offered, Begin(c, k) PROVE Good
    BY <2>1 DEF Begin, Active
  <2>2. CASE TakeToken(c)
    BY <2>2 DEF TakeToken
  <2>3. CASE AskForToken(c)
    BY <2>3 DEF AskForToken
  <2>4. CASE Fetch(c)
    <3>1. /\ at[c] = "ready" /\ at'[c] = "posted" /\ retried' = retried /\ raced' = raced
          /\ header' = header /\ sent'[c] = jar
      BY <2>4 DEF Fetch, recordVars
    <3> QED
      BY <1>1, <3>1
  <2>5. CASE Arrive(c)
    <3>1. /\ at[c] = "answered" /\ at'[c] = "arrived" /\ retried' = retried
          /\ answer' = answer /\ (c \in raced => c \in raced')
          /\ answer[c].csrf = Keep => jar'.csrf = jar.csrf
          /\ answer[c].csrf # Keep => jar'.csrf = answer[c].csrf
      BY <2>5 DEF Arrive, Overtakes
    <3> QED
      BY <1>1, <3>1
  <2>6. CASE KeepToken(c)
    <3>1. /\ HoldsToken(c) /\ at'[c] = "ready" /\ retried' = retried /\ raced' = raced
          /\ header'[c] = answer[c].token /\ jar' = jar
      BY <2>6 DEF KeepToken, recordVars
    <3> QED
      BY <1>1, <3>1
  <2>7. CASE EndLook(c) \/ Return(c) \/ Lose(c)
    BY <2>7, CallEnds DEF EndLook, Return, Lose
  <2>8. CASE Retry(c)
    BY <2>8 DEF Retry
  <2> HIDE DEF Good
  <2> QED
    BY <2>1, <2>2, <2>3, <2>4, <2>5, <2>6, <2>7, <2>8 DEF GoesOn
<1> QED
  BY <1>2, <1>3 DEF RacedInv

LEMMA RacedStep ==
    ASSUME AuthTypeOK, RacedInv, [AuthNext]_authVars
    PROVE  RacedInv'
  BY StepOfCall, NoCallRaced, ServesRaced, GoesOnRaced

-----------------------------------------------------------------------------
(***************************************************************************)
(* The end of a session.                                                   *)
(***************************************************************************)

\* What the end of a session needs of call c.
EndedFor(c) ==
    /\ at[c] = "answered" =>
          /\ ~Done(c, "login") => answer[c].session \in {Keep, None}
          /\ Done(c, "logout") => answer[c].session = None
    /\ c \in after =>
          /\ ended /\ Active(c) /\ kind[c] = "create"
          /\ at[c] \in {"asking", "posted"} => sent[c].session = None

LEMMA EndedByCall ==
    ASSUME after \in SUBSET Calls
    PROVE  EndedInv <=> (ended => jar.session = None) /\ \A c \in Calls : EndedFor(c)
  BY DEF EndedInv, EndedFor

LEMMA EndedForSame ==
    ASSUME EndedInv, NEW c \in Calls, SameCall(c), ended' = ended,
           c \in after' => c \in after
    PROVE  EndedFor(c)'
  BY DEF EndedInv, EndedFor, SameCall, Active, Done

LEMMA NoCallEnded ==
    ASSUME AuthTypeOK, EndedInv, NoCall
    PROVE  EndedInv'
<1>1. ended' = ended /\ after' = after /\ jar' = jar
  BY DEF NoCall, Reload, TimePasses, ChangeKeys, Outlive, authVars, recordVars,
         browserVars
<1>2. \A c \in Calls : EndedFor(c)'
  BY <1>1, NoCallMoves, EndedForSame
<1> QED
  BY <1>1, <1>2 DEF AuthTypeOK, EndedInv, EndedFor

LEMMA ServesEnded ==
    ASSUME AuthTypeOK, EndedInv, NEW c \in Calls, Serves(c)
    PROVE  EndedInv'
<1> USE DEF Reply, Proceed, AuthTypeOK
<1>1. ended' = ended /\ after' = after /\ jar' = jar /\ kind' = kind
  BY DEF Serves, ApiAuthSession, AuthRefuses, CsrfRefuses, ApiSessions, ApiLogin, Logout,
         Runs, recordVars, browserVars
<1>2. Active(c) /\ at'[c] = "answered"
  BY DEF Serves, ApiAuthSession, AuthRefuses, CsrfRefuses, ApiSessions, ApiLogin, Logout,
         Runs, Active
<1>3. /\ ~Done(c, "login")' => answer'[c].session \in {Keep, None}
      /\ Done(c, "logout")' => answer'[c].session = None
  <2> USE <1>1 DEF Done
  <2>1. CASE ApiAuthSession(c)
    <3>1. answer'[c].session = Keep
      BY <2>1 DEF ApiAuthSession
    <3>2. answer'[c].token # None
      <4>1. CASE sent[c].csrf \in readable
        <5>1. answer'[c].token = sent[c].csrf
          BY <2>1, <4>1 DEF ApiAuthSession
        <5>2. sent[c].csrf # None
          BY <4>1, ReadableType
        <5> QED
          BY <5>1, <5>2
      <4>2. CASE sent[c].csrf \notin readable
        <5>1. answer'[c].token = tokens + 1 /\ tokens < MaxTokens
          BY <2>1, <4>2 DEF ApiAuthSession
        <5>2. tokens + 1 \in 1..MaxTokens
          BY <5>1, BoundsAreNat
        <5> QED
          BY <5>1, <5>2, MarksAssumption
      <4> QED
        BY <4>1, <4>2
    <3> QED
      BY <3>1, <3>2
  <2>2. CASE AuthRefuses(c) \/ CsrfRefuses(c)
    <3>1. answer'[c].session = Keep /\ answer'[c].status \in {"unauthorized", "forbidden"}
      BY <2>2 DEF AuthRefuses, CsrfRefuses
    <3> QED
      BY <3>1
  <2>3. CASE ApiSessions(c)
    BY <2>3 DEF ApiSessions
  <2>4. CASE ApiLogin(c)
    BY <2>4 DEF ApiLogin
  <2>5. CASE Logout(c)
    BY <2>5 DEF Logout
  <2> QED
    BY <2>1, <2>2, <2>3, <2>4, <2>5 DEF Serves
<1>4. EndedFor(c)'
  BY <1>1, <1>2, <1>3 DEF EndedFor, EndedInv, Active
<1>5. ASSUME NEW d \in Calls, d # c PROVE EndedFor(d)'
  BY <1>1, <1>5, OthersSame, EndedForSame
<1> QED
  BY <1>1, <1>4, <1>5 DEF EndedInv, EndedFor

LEMMA GoesOnEnded ==
    ASSUME AuthTypeOK, EndedInv, NEW c \in Calls, GoesOn(c)
    PROVE  EndedInv'
<1> USE DEF AuthTypeOK, Proceed, Send
<1>1. ASSUME NEW k \in Offered, Begin(c, k) PROVE EndedInv'
  <2>1. /\ jar' = jar /\ kind'[c] = k /\ at'[c] = "token" /\ ended' = ended
        /\ after' = IF ended /\ k = "create" THEN after \cup {c} ELSE after
        /\ ~Active(c)
    BY <1>1 DEF Begin, browserVars
  <2>2. EndedFor(c)'
    BY <2>1 DEF EndedFor, EndedInv, Active
  <2>3. ASSUME NEW d \in Calls, d # c PROVE EndedFor(d)'
    <3>1. SameCall(d)
      BY <2>3, OthersSame
    <3> QED
      BY <2>1, <2>3, <3>1 DEF EndedFor, EndedInv, SameCall, Active, Done
  <2> QED
    BY <1>1, <2>1, <2>2, <2>3, EndedByCall DEF EndedInv, EndedFor, Begin
<1>2. CASE Arrive(c)
  <2>1. /\ at[c] = "answered" /\ at'[c] = "arrived" /\ kind' = kind
        /\ answer' = answer /\ sent' = sent
        /\ jar'.session = IF answer[c].session = Keep THEN jar.session
                          ELSE answer[c].session
        /\ ended' = (Done(c, "logout") \/ (ended /\ ~Done(c, "login")))
        /\ after' = IF Done(c, "login") THEN {} ELSE after
    BY <1>2 DEF Arrive
  <2>2. \A d \in Calls : Active(d)' = Active(d)
    BY <2>1, OthersSame DEF Active, SameCall
  <2>3. after' # {} => (ended => ended')
    BY <2>1
  <2>5. ended' => jar'.session = None
    <3>1. CASE Done(c, "logout")
      BY <2>1, <3>1, MarksAssumption DEF EndedInv
    <3>2. CASE ~Done(c, "logout")
      BY <2>1, <3>2 DEF EndedInv
    <3> QED
      BY <3>1, <3>2
  <2>6. ASSUME NEW d \in Calls PROVE EndedFor(d)'
    <3>1. d # c => SameCall(d)
      BY OthersSame
    <3>2. Active(d)' = Active(d)
      BY <2>2
    <3> QED
      BY <2>1, <2>3, <3>1, <3>2 DEF EndedInv, EndedFor, SameCall, Done
  <2> QED
    BY <2>1, <2>5, <2>6 DEF EndedInv, EndedFor
<1>3. CASE EndLook(c) \/ Return(c) \/ Lose(c)
  <2>1. End(c) /\ jar' = jar
    BY <1>3 DEF EndLook, Return, Lose, browserVars
  <2>2. ended' = ended /\ after' = after \ {c}
    BY <2>1 DEF End
  <2>3. EndedFor(c)'
    BY <2>1, <2>2, CallEnds DEF EndedFor, Active
  <2>4. ASSUME NEW d \in Calls, d # c PROVE EndedFor(d)'
    BY <2>2, <2>4, OthersSame, EndedForSame
  <2> QED
    BY <2>1, <2>2, <2>3, <2>4 DEF EndedInv, EndedFor
<1>4. CASE TakeToken(c) \/ AskForToken(c) \/ Fetch(c) \/ KeepToken(c) \/ Retry(c)
  <2>1. /\ jar' = jar /\ ended' = ended /\ after' = after /\ kind' = kind
        /\ Active(c) /\ at'[c] \in {"ready", "asking", "posted"}
        /\ at'[c] \in {"asking", "posted"} => sent'[c] = jar
    BY <1>4 DEF TakeToken, AskForToken, Fetch, KeepToken, HoldsToken, Retry, Refused,
                Active, browserVars, recordVars
  <2>2. EndedFor(c)'
    BY <2>1 DEF EndedFor, EndedInv, Active
  <2>3. ASSUME NEW d \in Calls, d # c PROVE EndedFor(d)'
    BY <2>1, <2>3, OthersSame, EndedForSame
  <2> QED
    BY <2>1, <2>2, <2>3 DEF EndedInv, EndedFor
<1> QED
  BY <1>1, <1>2, <1>3, <1>4 DEF GoesOn

LEMMA EndedStep ==
    ASSUME AuthTypeOK, EndedInv, [AuthNext]_authVars
    PROVE  EndedInv'
  BY StepOfCall, NoCallEnded, ServesEnded, GoesOnEnded

-----------------------------------------------------------------------------
(***************************************************************************)
(* The theorems.                                                           *)
(***************************************************************************)
LEMMA AlwaysAuthInv == AuthSpec => []AuthInv
<1>1. AuthInv /\ [AuthNext]_authVars => AuthInv'
  BY TypeStep, RunsStep, RacedStep, EndedStep DEF AuthInv
<1> QED
  BY InitInv, <1>1, PTL DEF AuthSpec

\* The cookies, the tokens and the calls keep their types.
THEOREM AuthTypeCorrect == AuthSpec => []AuthTypeOK
<1>1. AuthInv => AuthTypeOK
  BY DEF AuthInv
<1> QED
  BY AlwaysAuthInv, <1>1, PTL

\* A call that client.ts has sent again is refused only if another answer's
\* cookie, a new key or the cookie's age overtook it, for any number of tabs.
THEOREM AlwaysRefusedByRace == AuthSpec => []RefusedOnlyWhenRaced
<1>1. AuthInv => RefusedOnlyWhenRaced
  <2> SUFFICES ASSUME AuthInv, NEW c \in Calls, Refused(c), retried[c], c \notin raced
               PROVE  FALSE
    BY DEF RefusedOnlyWhenRaced
  <2>1. TokenIsGood(c)
    BY DEF AuthInv, RacedInv
  <2> QED
    BY <2>1 DEF TokenIsGood, Refused, OfHandler, WaitsForAnswer
<1> QED
  BY AlwaysAuthInv, <1>1, PTL

\* However often a call is refused, the handler runs at most once for it, and
\* exactly once if it succeeds.
THEOREM AlwaysRunsOnce == AuthSpec => []RunsOnce
<1>1. AuthInv => RunsOnce
  <2> SUFFICES ASSUME AuthInv, NEW c \in Calls
               PROVE  runs[c] <= 1 /\ (Succeeded(c) => runs[c] = 1)
    BY DEF RunsOnce
  <2> QED
    BY DEF AuthInv, RunsInv, Succeeded, OfHandler, WaitsForAnswer
<1> QED
  BY AlwaysAuthInv, <1>1, PTL

\* The handler of a creation that began after a logout's answer had arrived does
\* not run before a login's answer has arrived after it, whatever other answers
\* are still under way in whatever tab.
THEOREM LogoutAlwaysHolds == AuthSpec => LogoutHolds
<1>1. AuthInv /\ [AuthNext]_authVars =>
        [\A c \in after : c \in after' => runs'[c] = runs[c]]_authVars
  <2> SUFFICES ASSUME AuthInv, [AuthNext]_authVars, NEW c \in after, c \in after'
               PROVE  runs'[c] = runs[c]
    OBVIOUS
  <2>1. c \in Calls /\ kind[c] = "create"
    BY DEF AuthInv, AuthTypeOK, EndedInv
  <2>2. CASE NoCall
    BY <2>1, <2>2, NoCallMoves DEF SameCall
  <2>3. ASSUME NEW d \in Calls, Serves(d) \/ GoesOn(d), d # c PROVE runs'[c] = runs[c]
    BY <2>1, <2>3, OthersSame DEF AuthInv, SameCall
  <2>4. CASE Serves(c)
    <3>1. ~ApiSessions(c)
      <4> SUFFICES ASSUME ApiSessions(c) PROVE FALSE
        OBVIOUS
      <4>1. sent[c].session = None
        BY DEF ApiSessions, Runs, AuthInv, EndedInv
      <4> QED
        BY <4>1 DEF ApiSessions, Session
    <3> QED
      BY <2>1, <2>4, <3>1
      DEF Serves, ApiAuthSession, AuthRefuses, CsrfRefuses, ApiLogin, Logout, recordVars
  <2>5. CASE GoesOn(c)
    <3>1. ~End(c)
      BY <2>1, CallEnds DEF AuthInv
    <3> QED
      BY <2>5, <3>1
      DEF GoesOn, Begin, TakeToken, AskForToken, Fetch, Arrive, KeepToken, EndLook, Retry,
          Return, Lose, recordVars
  <2> QED
    BY <2>2, <2>3, <2>4, <2>5, StepOfCall
<1> QED
  BY AlwaysAuthInv, <1>1, PTL DEF AuthSpec, LogoutHolds
=============================================================================
