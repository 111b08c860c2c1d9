----------------------------- MODULE AtomicCommand -----------------------------
(***************************************************************************)
(* What a command promises its caller, without a change tracker, pending   *)
(* lists or a dispatcher: it looks at rows, raises events, and takes       *)
(* effect in one step or not at all.                                       *)
(*                                                                         *)
(* That step touches only rows the command looked at or created.  What it  *)
(* created is there afterwards; what it looked at and somebody else        *)
(* deleted stays deleted.  By then each event raised before the first one  *)
(* was heard has been heard, once, and after the earlier ones of its       *)
(* aggregate.  A row may have changed since the command looked at it, and  *)
(* the change is lost: nothing here forbids that.                          *)
(***************************************************************************)
EXTENDS Naturals, Sequences

CONSTANTS Aggregates, Values, Absent, AnswerMayBeLost

VARIABLES
    table,    \* the rows
    known,    \* per aggregate: "no", "seen" or "created" by the command
    raised,   \* the command's events
    heard,    \* those whose handlers were called, in that order
    outcome   \* "open", then "ok" or "failed"

commandVars == <<table, known, raised, heard, outcome>>

Rows == [Aggregates -> Values \cup {Absent}]
Nothing == [a \in Aggregates |-> "no"]

CommandInit ==
    /\ table \in Rows
    /\ known = Nothing
    /\ raised = <<>>
    /\ heard = <<>>
    /\ outcome = "open"

Open == outcome = "open"

Know(a, how) ==
    /\ Open
    /\ known[a] = "no"
    /\ known' = [known EXCEPT ![a] = how]
    /\ UNCHANGED <<table, raised, heard, outcome>>

Look(a) == table[a] # Absent /\ Know(a, "seen")
Make(a) == table[a] = Absent /\ Know(a, "created")

\* What is raised before the first event is heard must be heard; what handlers of
\* events raise need not be.
Raise(a) ==
    /\ Open
    /\ known[a] # "no"
    /\ raised' = Append(raised, [source |-> a,
                                 stage |-> IF heard = <<>> THEN "handler" ELSE "publish"])
    /\ UNCHANGED <<table, known, heard, outcome>>

Heard(n) == \E k \in DOMAIN heard : heard[k] = n
Due(n) == raised[n].stage = "handler" /\ ~ Heard(n)

Hear(n) ==
    /\ Open
    /\ Due(n)
    /\ \A m \in DOMAIN raised : m < n /\ Due(m) => raised[m].source # raised[n].source
    /\ heard' = Append(heard, n)
    /\ UNCHANGED <<table, known, raised, outcome>>

End(how) ==
    /\ Open
    /\ known' = Nothing
    /\ outcome' = how
    /\ UNCHANGED <<raised, heard>>

TakeEffect ==
    /\ \A n \in DOMAIN raised : ~ Due(n)
    /\ table' \in Rows
    /\ \A a \in Aggregates :
         /\ known[a] = "no" => table'[a] = table[a]
         /\ known[a] = "created" => table'[a] # Absent
         /\ known[a] = "seen" /\ table[a] = Absent => table'[a] = Absent

Succeed == TakeEffect /\ End("ok")

\* The caller cannot tell the second case from the first.
Fail ==
    /\ End("failed")
    /\ \/ UNCHANGED table
       \/ AnswerMayBeLost /\ TakeEffect

\* Somebody else changes or deletes a row.
Others(a) ==
    /\ Open
    /\ table[a] # Absent
    /\ \E v \in Values \cup {Absent} : table' = [table EXCEPT ![a] = v]
    /\ UNCHANGED <<known, raised, heard, outcome>>

CommandNext ==
    \/ \E a \in Aggregates : Look(a) \/ Make(a) \/ Raise(a) \/ Others(a)
    \/ \E n \in DOMAIN raised : Hear(n)
    \/ Succeed \/ Fail

CommandSpec == CommandInit /\ [][CommandNext]_commandVars
=============================================================================
