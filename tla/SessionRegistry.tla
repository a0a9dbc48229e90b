-------------------------- MODULE SessionRegistry --------------------------
(***************************************************************************)
(* What clients may rely on when they create and join sessions, without    *)
(* statements, transactions or read-backs: each request takes effect at    *)
(* one moment.  A slug goes to the first, whoever hears "conflict" has no  *)
(* session, a session whose creator heard nothing good stays and is never  *)
(* joined, and the server of a session keeps its machine token from its    *)
(* boot on.  SessionAccess implements it (property Registry).              *)
(***************************************************************************)
EXTENDS Integers

CONSTANTS Clients, Names

VARIABLES
    wish,       \* the name that each client asks for
    owners,     \* the clients that have their session
    heard,      \* what each client heard, or "none"
    invited,    \* the owners that were told how to join
    joined,     \* the owners whose session was joined
    booted,     \* the owners whose session has a server
    key         \* the machine token of each session, as a number

registryVars == <<wish, owners, heard, invited, joined, booted, key>>

Open ==
    /\ wish \in [Clients -> Names]
    /\ owners = {} /\ invited = {} /\ joined = {} /\ booted = {}
    /\ heard = [c \in Clients |-> "none"]
    /\ key = [c \in Clients |-> 0]

NameTaken(c) == \E o \in owners : wish[o] = wish[c]

Hears(c, what) ==
    /\ heard[c] = "none"
    /\ heard' = [heard EXCEPT ![c] = what]

Take(c) ==
    /\ heard[c] = "none" /\ ~NameTaken(c)
    /\ owners' = owners \cup {c}
    /\ UNCHANGED <<wish, heard, invited, joined, booted, key>>

Invite(c) ==
    /\ c \in owners
    /\ Hears(c, "created")
    /\ invited' = invited \cup {c}
    /\ UNCHANGED <<wish, owners, joined, booted, key>>

Refuse(c) ==
    /\ c \notin owners /\ NameTaken(c)
    /\ Hears(c, "conflict")
    /\ UNCHANGED <<wish, owners, invited, joined, booted, key>>

\* Whether or not it has its session: it will not be invited any more.
GiveUp(c) ==
    /\ \E what \in {"error", "lost"} : Hears(c, what)
    /\ UNCHANGED <<wish, owners, invited, joined, booted, key>>

Join(c) ==
    /\ c \in invited
    /\ joined' = joined \cup {c}
    /\ UNCHANGED <<wish, owners, heard, invited, booted, key>>

Boot(c) ==
    /\ c \in owners \ booted
    /\ booted' = booted \cup {c}
    /\ UNCHANGED <<wish, owners, heard, invited, joined, key>>

\* A new token, over the one before it if there is one.
Rekey(c) ==
    /\ c \in owners \ booted
    /\ key' = [key EXCEPT ![c] = key'[c]] /\ key'[c] > key[c]
    /\ UNCHANGED <<wish, owners, heard, invited, joined, booted>>

Turn(c) == \/ Take(c) \/ Invite(c) \/ Refuse(c) \/ GiveUp(c)
           \/ Join(c) \/ Boot(c) \/ Rekey(c)

RegistrySpec == Open /\ [][\E c \in Clients : Turn(c)]_registryVars
=============================================================================
