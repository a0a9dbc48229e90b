------------------------------ MODULE MCLogin ------------------------------
(***************************************************************************)
(* Logins for TLC: the limiter that lets them through (LoginLimiter), and  *)
(* the session and the CSRF token that follow (AuthSession): the retries   *)
(* of refused calls, in two tabs or in one, and the end of a session.  A   *)
(* behaviour is about one of these scenarios, and what it is not about     *)
(* does not move in it.                                                    *)
(***************************************************************************)
EXTENDS LoginLimiter, AuthSession, TLC

CONSTANTS t1, t2, c1, c2, c3

MCTabOf == c1 :> t1 @@ c2 :> t2 @@ c3 :> t1

VARIABLE scenario

allVars == <<scenario, vars, authVars>>

MCInit ==
    /\ Init /\ AuthInit
    /\ scenario \in {"limit", "retry", "retry in one tab", "end"}
    /\ scenario # "limit" => \A r, q \in Attempts : ip[r] = ip[q]

\* Each scenario about a session has two calls at a time.
Within(calls, kinds, lastTime, lastKey, lastToken, mostLost) ==
    /\ scenario' = scenario
    /\ \A c \in Calls : Active(c)' => c \in calls /\ kind'[c] \in kinds
    /\ time' <= lastTime /\ keys' <= lastKey /\ tokens' <= lastToken /\ lost' <= mostLost

MCNext ==
    \/ scenario = "limit" /\ Next /\ UNCHANGED <<scenario, authVars>>
    \/ /\ AuthNext /\ UNCHANGED vars
       /\ \/ scenario = "retry" /\ Within({c1, c2}, {"logout", "look"}, 0, 1, 2, 1)
          \/ scenario = "retry in one tab" /\ Within({c1, c3}, {"logout", "look"}, 0, 1, 2, 1)
          \/ scenario = "end" /\ Within({c1, c2}, Posts, 1, 2, 1, 0)

MCSpec == MCInit /\ [][MCNext]_allVars

MCSymmetry == Permutations(IPs) \cup Permutations(Attempts)
=============================================================================
