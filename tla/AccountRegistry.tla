---------------------------- MODULE AccountRegistry ----------------------------
(***************************************************************************)
(* What registration promises, without pipelines, change trackers or       *)
(* stamps: a registry gives each name to at most one client, for good, and *)
(* tells the truth about it.  Created means that the client owns the name  *)
(* it asked for; BadRequest that it owns nothing, and that either its wish *)
(* was ill-formed or somebody else owned the name at that moment; after    *)
(* ServerError, or with no answer at all, the client may own the name.     *)
(***************************************************************************)
CONSTANTS Clients, Names, None

VARIABLES
    wish,    \* what each client asked for
    owned,   \* the name each client was given
    answer   \* what each client was told

registryVars == <<wish, owned, answer>>

Wishes == [name : Names, wellFormed : BOOLEAN]
Failures == {"ServerError", "Lost"}
Answers == {"none", "Created", "BadRequest"} \cup Failures

RegistryInit ==
    /\ wish = [c \in Clients |-> None]
    /\ owned = [c \in Clients |-> None]
    /\ answer = [c \in Clients |-> "none"]

Waiting(c) == wish[c] # None /\ answer[c] = "none"
Owned(name) == \E c \in Clients : owned[c] = name

Tell(c, what) == answer' = [answer EXCEPT ![c] = what]

Ask(c) ==
    /\ wish[c] = None
    /\ \E w \in Wishes : wish' = [wish EXCEPT ![c] = w]
    /\ UNCHANGED <<owned, answer>>

Give(c) ==
    /\ Waiting(c)
    /\ wish[c].wellFormed
    /\ ~ Owned(wish[c].name)
    /\ owned' = [owned EXCEPT ![c] = wish[c].name]
    /\ UNCHANGED wish

GiveQuietly(c) == Give(c) /\ UNCHANGED answer

Accept(c) ==
    /\ Waiting(c)
    /\ owned[c] = wish[c].name
    /\ Tell(c, "Created")
    /\ UNCHANGED <<wish, owned>>

Refuse(c) ==
    /\ Waiting(c)
    /\ owned[c] = None
    /\ wish[c].wellFormed => Owned(wish[c].name)
    /\ Tell(c, "BadRequest")
    /\ UNCHANGED <<wish, owned>>

\* The client is told that something broke, before or after it owned the name,
\* or even in the step that gave it the name.
Break(c) ==
    /\ Waiting(c)
    /\ Tell(c, "ServerError")
    /\ Give(c) \/ UNCHANGED <<wish, owned>>

\* Nobody who is waiting gets an answer any more.
Lose ==
    /\ \E c \in Clients : Waiting(c)
    /\ answer' = [c \in Clients |-> IF Waiting(c) THEN "Lost" ELSE answer[c]]
    /\ UNCHANGED <<wish, owned>>

Decide(c) == Accept(c) \/ Refuse(c) \/ Break(c)

RegistryNext ==
    \/ \E c \in Clients : Ask(c) \/ GiveQuietly(c) \/ Decide(c)
    \/ Lose

RegistrySpec == RegistryInit /\ [][RegistryNext]_registryVars
FairRegistrySpec ==
    RegistrySpec /\ \A c \in Clients : WF_registryVars(Decide(c) \/ (Waiting(c) /\ Lose))
=============================================================================
