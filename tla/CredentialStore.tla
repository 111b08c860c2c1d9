---------------------------- MODULE CredentialStore ----------------------------
(***************************************************************************)
(* What logins and password changes promise, without rows, stamps, copies  *)
(* or counters: one secret and its generation.                             *)
(*                                                                         *)
(* A login that is accepted presented what was the secret at some moment   *)
(* after the client asked and before it was told.  A change presents a     *)
(* ticket for the current generation, and secret and generation change in  *)
(* one step.  A client that is refused changed nothing; after ServerError, *)
(* or with no answer at all, it may have.  Why a login is refused - too    *)
(* many failures, a second factor, a competing request - is left open.     *)
(***************************************************************************)
EXTENDS Naturals

CONSTANTS Clients, Secrets, InitialSecret, Tickets, None

VARIABLES
    secret,
    generation,
    wish,   \* what each client presents: a secret and, to change it, a ticket
    stage,  \* how far its request is
    told    \* its answer

storeVars == <<secret, generation, wish, stage, told>>

Wishes == [secret : Secrets, ticket : Tickets \cup {None}]

StoreInit ==
    /\ secret = InitialSecret
    /\ generation = 0
    /\ wish = [c \in Clients |-> None]
    /\ stage = [c \in Clients |-> "idle"]
    /\ told = [c \in Clients |-> "none"]

Move(c, from, to) ==
    /\ stage[c] = from
    /\ stage' = [stage EXCEPT ![c] = to]

Tell(c, what) == told' = [told EXCEPT ![c] = what]
InProgress(c) == stage[c] \notin {"idle", "over"}

Ask(c) ==
    /\ Move(c, "idle", "waiting")
    /\ \E w \in Wishes : wish' = [wish EXCEPT ![c] = w]
    /\ UNCHANGED <<secret, generation, told>>

Recognize(c) ==
    /\ Move(c, "waiting", "known")
    /\ wish[c].ticket = None
    /\ wish[c].secret = secret
    /\ UNCHANGED <<secret, generation, wish, told>>

\* The secret was wrong, or something else speaks against the login.
Reject(c) ==
    /\ wish[c] # None /\ wish[c].ticket = None
    /\ Move(c, "waiting", "rejected") \/ Move(c, "known", "rejected")
    /\ UNCHANGED <<secret, generation, wish, told>>

TakeTicket(c) ==
    /\ stage[c] = "waiting"
    /\ wish[c].ticket = generation
    /\ secret' = wish[c].secret
    /\ generation' = generation + 1

Change(c) ==
    /\ TakeTicket(c)
    /\ Move(c, "waiting", "changed")
    /\ UNCHANGED <<wish, told>>

Finish(c) == InProgress(c) /\ stage' = [stage EXCEPT ![c] = "over"] /\ UNCHANGED wish

Accept(c) ==
    /\ stage[c] \in {"known", "changed"}
    /\ Finish(c)
    /\ Tell(c, "OK")
    /\ UNCHANGED <<secret, generation>>

Refuse(c) ==
    /\ stage[c] # "changed"
    /\ Finish(c)
    /\ Tell(c, "Refused")
    /\ UNCHANGED <<secret, generation>>

\* Something breaks, before or after the change, or in the very step of it.
Break(c) ==
    /\ Finish(c)
    /\ Tell(c, "ServerError")
    /\ TakeTicket(c) \/ UNCHANGED <<secret, generation>>

\* Nobody who is waiting gets an answer any more.
Lose ==
    /\ \E c \in Clients : InProgress(c)
    /\ stage' = [c \in Clients |-> IF InProgress(c) THEN "over" ELSE stage[c]]
    /\ told' = [c \in Clients |-> IF InProgress(c) THEN "Lost" ELSE told[c]]
    /\ UNCHANGED <<secret, generation, wish>>

Decide(c) == Accept(c) \/ Refuse(c) \/ Break(c)

StoreNext ==
    \/ \E c \in Clients :
         Ask(c) \/ Recognize(c) \/ Reject(c) \/ Change(c) \/ Decide(c)
    \/ Lose

StoreSpec == StoreInit /\ [][StoreNext]_storeVars
=============================================================================
