---------------------------- MODULE PipelineProofs ----------------------------
(***************************************************************************)
(* Theorems about Pipeline, for any number of requests in a scope, any     *)
(* kinds of them and any nesting.                                          *)
(***************************************************************************)
EXTENDS Pipeline, SequenceTheorems, WellFoundedInduction, TLAPS

(***************************************************************************)
(* The chains.  Around is a recursive function; for the lengths there are  *)
(* it is unrolled.                                                         *)
(***************************************************************************)
LEMMA AroundOne ==
    ASSUME NEW bs, Len(bs) = 1, NEW kind, NEW inner
    PROVE  Around(bs, kind, inner) = Put(bs[1], kind, inner)
<1> DEFINE Step(f) == [i \in 0..1 |-> IF i = 0 THEN inner ELSE Put(bs[i], kind, f[i - 1])]
           around == CHOOSE f : f = Step(f)
           g == [i \in 0..1 |-> IF i = 0 THEN inner ELSE Put(bs[1], kind, inner)]
<1>1. Around(bs, kind, inner) = around[1]
  BY DEF Around
<1>2. g = Step(g)
  OBVIOUS
<1>3. around = Step(around)
  BY <1>2
<1> HIDE DEF around
<1>4. around[0] = inner
  BY <1>3
<1>5. around[1] = Put(bs[1], kind, inner)
  BY <1>3, <1>4
<1>6. QED BY <1>1, <1>5

LEMMA AroundFour ==
    ASSUME NEW bs, Len(bs) = 4, NEW kind, NEW inner
    PROVE  Around(bs, kind, inner) =
             Put(bs[4], kind, Put(bs[3], kind, Put(bs[2], kind, Put(bs[1], kind, inner))))
<1> DEFINE Step(f) == [i \in 0..4 |-> IF i = 0 THEN inner ELSE Put(bs[i], kind, f[i - 1])]
           around == CHOOSE f : f = Step(f)
           one == Put(bs[1], kind, inner)
           two == Put(bs[2], kind, one)
           three == Put(bs[3], kind, two)
           four == Put(bs[4], kind, three)
           g == [i \in 0..4 |-> IF i = 0 THEN inner ELSE IF i = 1 THEN one
                                ELSE IF i = 2 THEN two ELSE IF i = 3 THEN three ELSE four]
<1>1. Around(bs, kind, inner) = around[4]
  BY DEF Around
<1>2. g = Step(g)
  <2>1. \A i \in 0..4 : i = 0 \/ i = 1 \/ i = 2 \/ i = 3 \/ i = 4
    OBVIOUS
  <2>2. \A i \in 0..4 : g[i] = IF i = 0 THEN inner ELSE Put(bs[i], kind, g[i - 1])
    BY <2>1
  <2>3. QED BY <2>2
<1>3. around = Step(around)
  BY <1>2
<1> HIDE DEF around
<1>4. around[0] = inner
  BY <1>3
<1>5. around[1] = one
  BY <1>3, <1>4
<1>6. around[2] = two
  BY <1>3, <1>5
<1>7. around[3] = three
  BY <1>3, <1>6
<1>8. around[4] = four
  BY <1>3, <1>7
<1>9. QED BY <1>1, <1>8

LEMMA SendChains ==
    /\ SendChain("command") =
         <<"Logging", "UnitOfWork", "UserInjectionQuery", "Validation", "Handler">>
    /\ SendChain("void") = <<"UserInjectionQuery", "Validation", "Handler">>
    /\ SendChain("query") = <<"UserInjectionQuery", "Validation", "Handler">>
<1>1. /\ Len(Registered) = 4 /\ Registered[1] = "Validation" /\ Registered[2] = "UserInjectionQuery"
      /\ Registered[3] = "UnitOfWork" /\ Registered[4] = "Logging"
  BY DEF Registered
<1>2. ASSUME NEW kind
      PROVE  SendChain(kind) =
               Put("Logging", kind, Put("UnitOfWork", kind,
                 Put("UserInjectionQuery", kind, Put("Validation", kind, <<"Handler">>))))
  BY <1>1, AroundFour DEF SendChain
<1>3. ASSUME NEW kind \in {"void", "query"}
      PROVE  SendChain(kind) = <<"UserInjectionQuery", "Validation", "Handler">>
  BY <1>2 DEF Put, Applies
<1>4. SendChain("command") =
         <<"Logging", "UnitOfWork", "UserInjectionQuery", "Validation", "Handler">>
  BY <1>2 DEF Put, Applies
<1>5. QED BY <1>3, <1>4

Places ==
    {"Validation", "UserInjectionQuery", "UserInjectionCommand", "UnitOfWork", "Logging", "Handler"}

LEMMA PutInFront ==
    ASSUME NEW b \in Places, NEW kind, NEW inner \in Seq(Places), Applies(b, kind)
    PROVE  /\ Put(b, kind, inner) \in Seq(Places)
           /\ Put(b, kind, inner)[1] = b
           /\ Len(inner) \in 3..5 =>
                /\ Put(b, kind, inner)[2] = inner[1]
                /\ Put(b, kind, inner)[3] = inner[2]
                /\ Put(b, kind, inner)[4] = inner[3]
           /\ Len(inner) = 3 => Len(Put(b, kind, inner)) = 4
           /\ Len(inner) = 4 => /\ Len(Put(b, kind, inner)) = 5
                                /\ Put(b, kind, inner)[5] = inner[4]
           /\ Len(inner) = 5 => /\ Len(Put(b, kind, inner)) = 6
                                /\ Put(b, kind, inner)[5] = inner[4]
                                /\ Put(b, kind, inner)[6] = inner[5]
<1>1. <<b>> \in Seq(Places) /\ Len(<<b>>) = 1 /\ <<b>>[1] = b /\ Len(inner) \in Nat
  OBVIOUS
<1> DEFINE c == <<b>> \o inner
           n == Len(inner)
<1>2. Put(b, kind, inner) = c
  BY DEF Put
<1>3. /\ c \in Seq(Places)
      /\ Len(c) = 1 + n
      /\ \A i \in 1..1 + n : c[i] = IF i <= 1 THEN <<b>>[i] ELSE inner[i - 1]
  BY <1>1, ConcatProperties
<1> HIDE DEF c, n
<1>4. c[1] = b
  BY <1>1, <1>3 DEF n
<1>5. \A i \in 2..1 + n : c[i] = inner[i - 1]
  BY <1>1, <1>3 DEF n
<1>6. ASSUME n \in 3..5 PROVE c[2] = inner[1] /\ c[3] = inner[2] /\ c[4] = inner[3]
  BY <1>5, <1>6
<1>7. ASSUME n = 4 \/ n = 5 PROVE c[5] = inner[4]
  BY <1>5, <1>7
<1>8. ASSUME n = 5 PROVE c[6] = inner[5]
  BY <1>5, <1>8
<1>9. /\ n = 3 => Len(c) = 4
      /\ n = 4 => Len(c) = 5
      /\ n = 5 => Len(c) = 6
  BY <1>3
<1>10. QED BY <1>2, <1>3, <1>4, <1>6, <1>7, <1>8, <1>9 DEF n

LEMMA LeftOut ==
    ASSUME NEW b, NEW kind, NEW inner, ~ Applies(b, kind)
    PROVE  Put(b, kind, inner) = inner
  BY DEF Put

LEMMA ExecuteChains ==
    /\ LET chain == ExecuteChain("command") IN
       /\ Len(chain) = 6
       /\ chain[1] = "UserInjectionCommand" /\ chain[2] = "Logging" /\ chain[3] = "UnitOfWork"
       /\ chain[4] = "UserInjectionQuery" /\ chain[5] = "Validation" /\ chain[6] = "Handler"
    /\ ExecuteChain("void") = <<"UserInjectionQuery", "Validation", "Handler">>
    /\ LET chain == ExecuteChain("query") IN
       /\ Len(chain) = 5
       /\ chain[1] = "Validation" /\ chain[2] = "UserInjectionQuery" /\ chain[3] = "UserInjectionQuery"
       /\ chain[4] = "Validation" /\ chain[5] = "Handler"
<1>1. ExecuteChain("void") = <<"UserInjectionQuery", "Validation", "Handler">>
  BY SendChains DEF ExecuteChain
<1>2. LET chain == ExecuteChain("command") IN
        /\ Len(chain) = 6
        /\ chain[1] = "UserInjectionCommand" /\ chain[2] = "Logging" /\ chain[3] = "UnitOfWork"
        /\ chain[4] = "UserInjectionQuery" /\ chain[5] = "Validation" /\ chain[6] = "Handler"
  <2> DEFINE bs == Reverse(<<"UserInjectionCommand">>)
             send == SendChain("command")
  <2>1. Len(bs) = 1 /\ bs[1] = "UserInjectionCommand"
    BY DEF Reverse
  <2>2. ExecuteChain("command") = Around(bs, "command", send)
    BY DEF ExecuteChain
  <2> HIDE DEF bs
  <2>3. ExecuteChain("command") = Put("UserInjectionCommand", "command", send)
    BY <2>1, <2>2, AroundOne
  <2>4. send = <<"Logging", "UnitOfWork", "UserInjectionQuery", "Validation", "Handler">>
    BY SendChains
  <2> HIDE DEF send
  <2>5. /\ send \in Seq(Places) /\ Len(send) = 5 /\ send[1] = "Logging" /\ send[2] = "UnitOfWork"
        /\ send[3] = "UserInjectionQuery" /\ send[4] = "Validation" /\ send[5] = "Handler"
    BY <2>4 DEF Places
  <2>6. "UserInjectionCommand" \in Places /\ Applies("UserInjectionCommand", "command")
    BY DEF Places, Applies
  <2>7. QED BY <2>3, <2>5, <2>6, PutInFront
<1>3. LET chain == ExecuteChain("query") IN
        /\ Len(chain) = 5
        /\ chain[1] = "Validation" /\ chain[2] = "UserInjectionQuery" /\ chain[3] = "UserInjectionQuery"
        /\ chain[4] = "Validation" /\ chain[5] = "Handler"
  <2> DEFINE bs == Reverse(Registered)
             send == SendChain("query")
             inner == Put("UserInjectionQuery", "query", send)
  <2>1. /\ Len(bs) = 4 /\ bs[4] = "Validation" /\ bs[3] = "UserInjectionQuery"
        /\ bs[2] = "UnitOfWork" /\ bs[1] = "Logging"
    BY DEF Reverse, Registered
  <2>2. ExecuteChain("query") = Around(bs, "query", send)
    BY DEF ExecuteChain
  <2> HIDE DEF bs
  <2>3. ExecuteChain("query") =
          Put("Validation", "query", Put("UserInjectionQuery", "query",
            Put("UnitOfWork", "query", Put("Logging", "query", send))))
    BY <2>1, <2>2, AroundFour
  <2>4. ~ Applies("UnitOfWork", "query") /\ ~ Applies("Logging", "query")
    BY DEF Applies
  <2>5. ExecuteChain("query") = Put("Validation", "query", inner)
    BY <2>3, <2>4, LeftOut
  <2>6. send = <<"UserInjectionQuery", "Validation", "Handler">>
    BY SendChains
  <2> HIDE DEF send
  <2>7. /\ send \in Seq(Places) /\ Len(send) = 3 /\ send[1] = "UserInjectionQuery"
        /\ send[2] = "Validation" /\ send[3] = "Handler"
    BY <2>6 DEF Places
  <2>8. \A b \in {"UserInjectionQuery", "Validation"} : b \in Places /\ Applies(b, "query")
    BY DEF Places, Applies
  <2>9. /\ inner \in Seq(Places) /\ Len(inner) = 4 /\ inner[1] = "UserInjectionQuery"
        /\ inner[2] = send[1] /\ inner[3] = send[2] /\ inner[4] = send[3]
    BY <2>7, <2>8, PutInFront
  <2> HIDE DEF inner
  <2>10. QED BY <2>5, <2>7, <2>8, <2>9, PutInFront
<1>4. QED BY <1>1, <1>2, <1>3

\* What all chains have in common.
Shaped(chain, kind) ==
    /\ Len(chain) \in Nat \ {0}
    /\ \A i \in 1..Len(chain) : chain[i] = "Handler" <=> i = Len(chain)
    /\ \A i, j \in 1..Len(chain) : chain[i] = "Logging" /\ chain[j] = "Logging" => i = j
    /\ \E j \in 1..(Len(chain) - 1) : chain[j] = "Validation"
    /\ \E j \in 1..(Len(chain) - 1) : chain[j] \in Injections
    /\ kind = "command" => \E j \in 1..(Len(chain) - 1) : chain[j] = "Logging"

LEMMA Shapes ==
    ASSUME NEW kind \in Kinds
    PROVE  Shaped(SendChain(kind), kind) /\ Shaped(ExecuteChain(kind), kind)
<1>1. ASSUME NEW chain, NEW k \in {"void", "query"}, Len(chain) = 3,
             chain[1] = "UserInjectionQuery", chain[2] = "Validation", chain[3] = "Handler"
      PROVE  Shaped(chain, k)
  <2>1. \A i \in 1..3 : i = 1 \/ i = 2 \/ i = 3
    OBVIOUS
  <2>2. 1 \in 1..(3 - 1) /\ 2 \in 1..(3 - 1)
    OBVIOUS
  <2>3. QED BY <1>1, <2>1, <2>2 DEF Shaped, Injections
<1>2. ASSUME NEW chain, NEW k, Len(chain) = 5,
             chain[1] = "Logging", chain[2] = "UnitOfWork", chain[3] = "UserInjectionQuery",
             chain[4] = "Validation", chain[5] = "Handler"
      PROVE  Shaped(chain, k)
  <2>1. \A i \in 1..5 : i = 1 \/ i = 2 \/ i = 3 \/ i = 4 \/ i = 5
    OBVIOUS
  <2>2. 1 \in 1..(5 - 1) /\ 3 \in 1..(5 - 1) /\ 4 \in 1..(5 - 1)
    OBVIOUS
  <2>3. QED BY <1>2, <2>1, <2>2 DEF Shaped, Injections
<1>3. ASSUME NEW chain, Len(chain) = 5,
             chain[1] = "Validation", chain[2] = "UserInjectionQuery", chain[3] = "UserInjectionQuery",
             chain[4] = "Validation", chain[5] = "Handler"
      PROVE  Shaped(chain, "query")
  <2>1. \A i \in 1..5 : i = 1 \/ i = 2 \/ i = 3 \/ i = 4 \/ i = 5
    OBVIOUS
  <2>2. 1 \in 1..(5 - 1) /\ 2 \in 1..(5 - 1)
    OBVIOUS
  <2>3. QED BY <1>3, <2>1, <2>2 DEF Shaped, Injections
<1>4. ASSUME NEW chain, NEW k, Len(chain) = 6,
             chain[1] = "UserInjectionCommand", chain[2] = "Logging", chain[3] = "UnitOfWork",
             chain[4] = "UserInjectionQuery", chain[5] = "Validation", chain[6] = "Handler"
      PROVE  Shaped(chain, k)
  <2>1. \A i \in 1..6 : i = 1 \/ i = 2 \/ i = 3 \/ i = 4 \/ i = 5 \/ i = 6
    OBVIOUS
  <2>2. 1 \in 1..(6 - 1) /\ 2 \in 1..(6 - 1) /\ 5 \in 1..(6 - 1)
    OBVIOUS
  <2>3. QED BY <1>4, <2>1, <2>2 DEF Shaped, Injections
<1>5. CASE kind = "command"
  BY <1>2, <1>4, <1>5, SendChains, ExecuteChains
<1>6. CASE kind = "void"
  BY <1>1, <1>6, SendChains, ExecuteChains
<1>7. CASE kind = "query"
  BY <1>1, <1>3, <1>7, SendChains, ExecuteChains
<1>8. QED BY <1>5, <1>6, <1>7 DEF Kinds

-----------------------------------------------------------------------------
(***************************************************************************)
(* The invariant.                                                          *)
(***************************************************************************)
ChainOf(c, q) == IF c = 1 THEN ExecuteChain(q.kind) ELSE SendChain(q.kind)

\* A call's handler, or that of an event at its unit of work, waits for the call it made.
Code(c, q, k) == k > 0 /\ ChainOf(c, q)[k] \in {"Handler", "UnitOfWork"}
Waits(c) == Code(c, request[c], at[c])

\* Every call in progress was asked for, once, and stands in its chain; all but
\* the innermost wait.
StackInv ==
    /\ \A i \in 1..Len(stack) : request[stack[i]] # NoRequest
    /\ \A i, j \in 1..Len(stack) : stack[i] = stack[j] => i = j
    /\ \A i \in 1..Len(stack) : at[stack[i]] <= Len(ChainOf(stack[i], request[stack[i]]))
    /\ \A i \in 1..(Len(stack) - 1) : Waits(stack[i])
    /\ stack # <<>> /\ mode = "in" => at[Top] > 0
    /\ stack # <<>> => request[1] # NoRequest

\* What a behaviour saw to before it let a call pass inward.
Passed(c, j) ==
    /\ ChainOf(c, request[c])[j] = "Validation" => request[c].valid
    /\ ChainOf(c, request[c])[j] \in Injections => (request[c].userAware => c \in injected)
    /\ ChainOf(c, request[c])[j] = "Logging" => log[c] = "executing"

\* The behaviours that a call in progress is inside of have let it pass.
PassedInv ==
    \A i \in 1..Len(stack) : \A j \in 1..(at[stack[i]] - 1) : Passed(stack[i], j)

IInv == TypeOK /\ StackInv /\ PassedInv

LEMMA StackValues ==
    ASSUME IInv
    PROVE  /\ Len(stack) \in Nat
           /\ \A i \in 1..Len(stack) :
                /\ stack[i] \in Calls
                /\ at[stack[i]] \in Nat
                /\ request[stack[i]] \in Request
                /\ Shaped(ChainOf(stack[i], request[stack[i]]), request[stack[i]].kind)
           /\ stack # <<>> => Len(stack) \in 1..Len(stack) /\ Top = stack[Len(stack)] /\ Top \in Calls
<1>1. Len(stack) \in Nat /\ \A i \in 1..Len(stack) : stack[i] \in Calls
  BY DEF IInv, TypeOK
<1>2. ASSUME NEW i \in 1..Len(stack)
      PROVE  /\ at[stack[i]] \in Nat
             /\ request[stack[i]] \in Request
             /\ Shaped(ChainOf(stack[i], request[stack[i]]), request[stack[i]].kind)
  <2>1. request[stack[i]] \in Request /\ at[stack[i]] \in Nat
    BY <1>1, <1>2 DEF IInv, TypeOK, StackInv
  <2>2. request[stack[i]].kind \in Kinds
    BY <2>1 DEF Request
  <2>3. QED BY <2>1, <2>2, Shapes DEF ChainOf
<1>3. ASSUME stack # <<>>
      PROVE  Len(stack) \in 1..Len(stack) /\ Top = stack[Len(stack)]
  <2>1. Len(stack) # 0
    BY <1>3 DEF IInv, TypeOK
  <2>2. QED BY <1>1, <2>1 DEF Top, Last
<1>4. QED BY <1>1, <1>2, <1>3

(***************************************************************************)
(* The moves through a chain.                                              *)
(***************************************************************************)
LEMMA MoveIn ==
    ASSUME IInv, stack # <<>>, at[Top] > 0, ChainOf(Top, request[Top])[at[Top]] # "Handler", Inward,
           UNCHANGED <<request, stack>>, injected \subseteq injected',
           log' = log \/ log' = [log EXCEPT ![Top] = "executing"],
           NEW k, k = at[Top], NEW t, t = Top, Passed(t, k)'
    PROVE  at' \in [Calls -> Nat] /\ StackInv' /\ PassedInv'
<1> DEFINE n == Len(stack)
<1>1. /\ n \in 1..n /\ Top = stack[n] /\ Top \in Calls /\ at[Top] \in Nat
      /\ Shaped(ChainOf(Top, request[Top]), request[Top].kind) /\ at[Top] <= Len(ChainOf(Top, request[Top]))
  BY StackValues DEF IInv, StackInv
<1>2. at[Top] < Len(ChainOf(Top, request[Top]))
  BY <1>1 DEF Shaped
<1>3. at' = [at EXCEPT ![Top] = at[Top] + 1] /\ mode' = "in"
  BY DEF Inward
<1>4. /\ at' \in [Calls -> Nat] /\ at'[Top] = at[Top] + 1
      /\ \A c \in Calls : c # Top => at'[c] = at[c]
  BY <1>1, <1>3 DEF IInv, TypeOK
<1>6. Top' = Top
  BY DEF Top
<1>7. \A i \in 1..n : stack[i] \in Calls /\ (stack[i] = Top <=> i = n)
  BY <1>1, StackValues DEF IInv, StackInv
<1>8. StackInv'
  <2>1. ASSUME NEW i \in 1..n
        PROVE  at'[stack[i]] <= Len(ChainOf(stack[i], request[stack[i]]))
    <3>1. CASE i = n
      <4>1. Len(ChainOf(Top, request[Top])) \in Nat
        BY <1>1 DEF Shaped
      <4>2. at'[Top] <= Len(ChainOf(Top, request[Top]))
        BY <1>1, <1>2, <1>4, <4>1
      <4>3. QED BY <1>1, <3>1, <4>2
    <3>2. CASE i # n
      <4>1. at'[stack[i]] = at[stack[i]]
        BY <1>4, <1>7, <3>2
      <4>2. QED BY <4>1 DEF IInv, StackInv
    <3>3. QED BY <3>1, <3>2
  <2>2. ASSUME NEW i \in 1..(n - 1) PROVE Code(stack[i], request[stack[i]], at'[stack[i]])
    <3>1. i \in 1..n /\ i # n
      BY <1>1
    <3>2. at'[stack[i]] = at[stack[i]]
      BY <1>4, <1>7, <3>1
    <3>3. QED BY <3>2 DEF IInv, StackInv, Waits
  <2>3. at'[Top] > 0
    BY <1>1, <1>4
  <2>4. /\ \A i \in 1..n : request[stack[i]] # NoRequest
        /\ \A i, j \in 1..n : stack[i] = stack[j] => i = j
        /\ request[1] # NoRequest
    BY DEF IInv, StackInv
  <2>5. QED BY <1>6, <1>7, <2>1, <2>2, <2>3, <2>4 DEF StackInv, Waits
<1>9. \A c \in Calls : \A j : Passed(c, j) => Passed(c, j)'
  <2>1. \A c \in Calls : log[c] = "executing" => log'[c] = "executing"
    BY <1>1 DEF IInv, TypeOK
  <2>2. QED BY <2>1 DEF Passed
<1>10. PassedInv'
  <2> SUFFICES ASSUME NEW i \in 1..n, NEW j \in 1..(at'[stack[i]] - 1)
               PROVE  Passed(stack[i], j)'
    BY DEF PassedInv
  <2>1. CASE i # n
    BY <1>4, <1>7, <1>9, <2>1 DEF IInv, PassedInv
  <2>2. CASE i = n /\ j # at[Top]
    <3>1. j \in 1..(at[stack[i]] - 1)
      BY <1>1, <1>4, <2>2
    <3>2. QED BY <1>7, <1>9, <3>1 DEF IInv, PassedInv
  <2>3. CASE i = n /\ j = at[Top]
    <3>1. stack[i] = t /\ j = k
      BY <1>1, <2>3
    <3>2. QED BY <3>1
  <2>4. QED BY <2>1, <2>2, <2>3
<1>11. QED BY <1>4, <1>8, <1>10

LEMMA MoveOut ==
    ASSUME IInv, stack # <<>>, at[Top] > 0, NEW m \in {"result", "error"}, Outward(m),
           UNCHANGED <<request, stack, injected>>,
           \/ log' = log
           \/ ChainOf(Top, request[Top])[at[Top]] = "Logging" /\ \E l : log' = [log EXCEPT ![Top] = l]
    PROVE  at' \in [Calls -> Nat] /\ StackInv' /\ PassedInv'
<1> DEFINE n == Len(stack)
<1>1. /\ n \in 1..n /\ Top = stack[n] /\ Top \in Calls /\ at[Top] \in Nat
      /\ Shaped(ChainOf(Top, request[Top]), request[Top].kind) /\ at[Top] <= Len(ChainOf(Top, request[Top]))
  BY StackValues DEF IInv, StackInv
<1>2. at' = [at EXCEPT ![Top] = at[Top] - 1] /\ mode' = m
  BY DEF Outward
<1>3. /\ at' \in [Calls -> Nat] /\ at'[Top] = at[Top] - 1
      /\ \A c \in Calls : c # Top => at'[c] = at[c]
  BY <1>1, <1>2 DEF IInv, TypeOK
<1>5. \A i \in 1..n : stack[i] \in Calls /\ (stack[i] = Top <=> i = n)
  BY <1>1, StackValues DEF IInv, StackInv
<1>6. StackInv'
  <2>1. ASSUME NEW i \in 1..n
        PROVE  at'[stack[i]] <= Len(ChainOf(stack[i], request[stack[i]]))
    <3>1. CASE i = n
      <4>1. Len(ChainOf(Top, request[Top])) \in Nat
        BY <1>1 DEF Shaped
      <4>2. at'[Top] <= Len(ChainOf(Top, request[Top]))
        BY <1>1, <1>3, <4>1
      <4>3. QED BY <1>1, <3>1, <4>2
    <3>2. CASE i # n
      <4>1. at'[stack[i]] = at[stack[i]]
        BY <1>3, <1>5, <3>2
      <4>2. QED BY <4>1 DEF IInv, StackInv
    <3>3. QED BY <3>1, <3>2
  <2>2. ASSUME NEW i \in 1..(n - 1) PROVE Code(stack[i], request[stack[i]], at'[stack[i]])
    <3>1. i \in 1..n /\ i # n
      BY <1>1
    <3>2. at'[stack[i]] = at[stack[i]]
      BY <1>3, <1>5, <3>1
    <3>3. QED BY <3>2 DEF IInv, StackInv, Waits
  <2>3. /\ \A i \in 1..n : request[stack[i]] # NoRequest
        /\ \A i, j \in 1..n : stack[i] = stack[j] => i = j
        /\ request[1] # NoRequest
    BY DEF IInv, StackInv
  <2>4. QED BY <1>2, <1>5, <2>1, <2>2, <2>3 DEF StackInv, Waits
<1>7. PassedInv'
  <2> SUFFICES ASSUME NEW i \in 1..n, NEW j \in 1..(at'[stack[i]] - 1)
               PROVE  Passed(stack[i], j)'
    BY DEF PassedInv
  <2>1. Passed(stack[i], j) /\ (i = n => j \in 1..(at[Top] - 1))
    BY <1>1, <1>3, <1>5 DEF IInv, PassedInv
  <2>2. ChainOf(stack[i], request[stack[i]])[j] = "Logging" => log'[stack[i]] = log[stack[i]]
    <3>1. CASE i # n
      BY <1>1, <1>5, <3>1 DEF IInv, TypeOK
    <3>2. CASE i = n
      <4>1. at[Top] \in 1..Len(ChainOf(Top, request[Top])) /\ j \in 1..Len(ChainOf(Top, request[Top])) /\ j # at[Top]
        BY <1>1, <2>1, <3>2
      <4>2. QED BY <1>1, <3>2, <4>1 DEF Shaped
    <3>3. QED BY <3>1, <3>2
  <2>3. QED BY <1>5, <2>1, <2>2 DEF Passed
<1>8. QED BY <1>3, <1>6, <1>7

LEMMA AtCode ==
    ASSUME IInv, CodeRuns
    PROVE  stack # <<>> /\ Top \in Calls /\ Waits(Top)
<1>1. /\ stack # <<>> /\ at[Top] > 0
      /\ ChainOf(Top, request[Top])[at[Top]] \in {"Handler", "UnitOfWork"}
  BY DEF CodeRuns, Stands, Chain, ChainOf
<1>2. QED BY <1>1, StackValues DEF Waits, Code

LEMMA CallingStep ==
    ASSUME IInv, NEW c \in Calls, NEW q \in Request, request[c] = NoRequest, Calling(c, q),
           stack # <<>> => Waits(Top),
           stack = <<>> => c = 1
    PROVE  TypeOK' /\ StackInv' /\ PassedInv'
<1> DEFINE n == Len(stack)
<1>1. /\ n \in Nat /\ \A i \in 1..n : stack[i] \in Calls /\ stack[i] # c
      /\ stack \in Seq(Calls) /\ (stack # <<>> => Top \in Calls)
  BY StackValues DEF IInv, TypeOK, StackInv
<1>2. /\ request' = [request EXCEPT ![c] = q]
      /\ sender' = [sender EXCEPT ![c] = IF stack = <<>> THEN 0 ELSE Top]
      /\ stack' = Append(stack, c) /\ at' = [at EXCEPT ![c] = 1] /\ mode' = "in"
      /\ UNCHANGED <<claims, injected, scopeVars, log, outcome>>
  BY DEF Calling
<1>3. /\ stack' \in Seq(Calls) /\ Len(stack') = n + 1 /\ stack'[n + 1] = c
      /\ \A i \in 1..n : stack'[i] = stack[i]
  BY <1>1, <1>2, AppendProperties
<1>4. /\ request'[c] = q /\ q # NoRequest /\ at'[c] = 1
      /\ \A d \in Calls : d # c => request'[d] = request[d] /\ at'[d] = at[d]
      /\ request' \in [Calls -> Request \cup {NoRequest}] /\ at' \in [Calls -> Nat]
  BY <1>2, PipelineAssumption DEF IInv, TypeOK
<1>5. TypeOK'
  <2>1. (IF stack = <<>> THEN 0 ELSE Top) \in 0..MaxCalls
    BY <1>1, PipelineAssumption DEF Calls
  <2>2. QED BY <1>2, <1>3, <1>4, <2>1 DEF IInv, TypeOK, scopeVars
<1>7. Shaped(ChainOf(c, q), q.kind)
  <2>1. q.kind \in Kinds
    BY DEF Request
  <2>2. QED BY <2>1, Shapes DEF ChainOf
<1>8. StackInv'
  <2>1. \A i \in 1..(n + 1) : i = n + 1 \/ i \in 1..n
    BY <1>1
  <2>2. ASSUME NEW i \in 1..(n + 1) PROVE request'[stack'[i]] # NoRequest
    <3>1. CASE i \in 1..n
      <4>1. stack'[i] = stack[i] /\ request'[stack[i]] = request[stack[i]]
        BY <1>1, <1>3, <1>4, <3>1
      <4>2. QED BY <3>1, <4>1 DEF IInv, StackInv
    <3>2. CASE i = n + 1
      BY <1>3, <1>4, <3>2
    <3>3. QED BY <2>1, <3>1, <3>2
  <2>3. \A i, j \in 1..(n + 1) : stack'[i] = stack'[j] => i = j
    BY <1>1, <1>3, <2>1 DEF IInv, StackInv
  <2>4. \A i \in 1..n : Code(stack'[i], request'[stack'[i]], at'[stack'[i]])
    <3>1. \A i \in 1..n : i = n \/ i \in 1..(n - 1)
      BY <1>1
    <3>2. stack # <<>> => Top = stack[n]
      BY StackValues
    <3>3. n # 0 => stack # <<>>
      OBVIOUS
    <3>4. \A i \in 1..n : Waits(stack[i])
      BY <1>1, <3>1, <3>2, <3>3 DEF IInv, StackInv
    <3>5. \A i \in 1..n : /\ stack'[i] = stack[i] /\ at'[stack[i]] = at[stack[i]]
                          /\ request'[stack[i]] = request[stack[i]]
      BY <1>1, <1>3, <1>4
    <3>6. QED BY <3>4, <3>5 DEF Waits
  <2>5. at'[c] <= Len(ChainOf(c, request'[c]))
    BY <1>4, <1>7 DEF Shaped
  <2>6. ASSUME NEW i \in 1..(n + 1)
        PROVE  at'[stack'[i]] <= Len(ChainOf(stack'[i], request'[stack'[i]]))
    <3>1. CASE i \in 1..n
      <4>1. /\ stack'[i] = stack[i] /\ at'[stack[i]] = at[stack[i]]
            /\ request'[stack[i]] = request[stack[i]]
        BY <1>1, <1>3, <1>4, <3>1
      <4>2. QED BY <3>1, <4>1 DEF IInv, StackInv
    <3>2. CASE i = n + 1
      BY <1>3, <2>5, <3>2
    <3>3. QED BY <2>1, <3>1, <3>2
  <2>7. Top' = c
    BY <1>3 DEF Top, Last
  <2>8. Len(stack') - 1 = n
    BY <1>1, <1>3
  <2>9. \A i \in 1..(Len(stack') - 1) : Code(stack'[i], request'[stack'[i]], at'[stack'[i]])
    BY <2>4, <2>8
  <2>10. request'[1] # NoRequest
    <3>1. 1 \in Calls
      BY PipelineAssumption DEF Calls
    <3>2. c # 1 => request[1] # NoRequest
      BY DEF IInv, StackInv
    <3>3. QED BY <1>4, <3>1, <3>2
  <2>11. /\ \A i \in 1..Len(stack') : request'[stack'[i]] # NoRequest
         /\ \A i, j \in 1..Len(stack') : stack'[i] = stack'[j] => i = j
         /\ \A i \in 1..Len(stack') : at'[stack'[i]] <= Len(ChainOf(stack'[i], request'[stack'[i]]))
    BY <1>3, <2>2, <2>3, <2>6
  <2>12. at'[Top'] > 0
    BY <1>4, <2>7
  <2>13. QED BY <2>9, <2>10, <2>11, <2>12 DEF StackInv, Waits
<1>9. PassedInv'
  <2>1. ASSUME NEW i \in 1..Len(stack'), NEW j \in 1..(at'[stack'[i]] - 1)
        PROVE  Passed(stack[i], j)'
    <3>1. i \in 1..(n + 1) /\ i # n + 1
      BY <1>3, <1>4
    <3>2. i \in 1..n
      BY <1>1, <3>1
    <3>3. j \in 1..(at[stack[i]] - 1) /\ stack'[i] = stack[i]
      BY <1>1, <1>3, <1>4, <3>2
    <3>4. Passed(stack[i], j)
      BY <3>2, <3>3 DEF IInv, PassedInv
    <3>5. request'[stack[i]] = request[stack[i]] /\ injected' = injected /\ log' = log
      BY <1>1, <1>2, <1>4, <3>2
    <3>6. QED BY <3>3, <3>4, <3>5 DEF Passed
  <2>2. QED BY <2>1 DEF PassedInv
<1>10. QED BY <1>5, <1>8, <1>9

LEMMA Returning ==
    ASSUME IInv, Len(stack) > 1, stack' = Front(stack), UNCHANGED <<request, injected, log>>,
           at' = at \/ (mode' = "error" /\ at' = [at EXCEPT ![Caller] = @ - 1])
    PROVE  stack' \in Seq(Calls) /\ at' \in [Calls -> Nat] /\ StackInv' /\ PassedInv'
<1> DEFINE n == Len(stack)
           C(i) == ChainOf(stack[i], request[stack[i]])
<1>1. /\ n \in Nat /\ stack \in Seq(Calls) /\ stack # <<>> /\ at \in [Calls -> Nat]
      /\ \A i \in 1..n : stack[i] \in Calls /\ at[stack[i]] \in Nat /\ Len(C(i)) \in Nat \ {0}
  BY StackValues DEF IInv, TypeOK, Shaped
<1>2. /\ stack' \in Seq(Calls) /\ Len(stack') = n - 1
      /\ \A i \in 1..(n - 1) : i \in 1..n /\ stack'[i] = stack[i]
  BY <1>1 DEF Front
<1>3. Caller = stack[n - 1] /\ n - 1 \in 1..n /\ Caller \in Calls /\ Top' = Caller /\ Caller = stack'[n - 1]
  <2>1. Caller = stack[n - 1] /\ n - 1 \in 1..n /\ n - 1 \in 1..(n - 1)
    BY <1>1 DEF Caller
  <2>2. stack[n - 1] \in Calls /\ stack'[n - 1] = stack[n - 1]
    BY <1>1, <1>2, <2>1
  <2>3. Top' = stack'[n - 1]
    BY <1>2 DEF Top, Last
  <2>4. QED BY <2>1, <2>2, <2>3
<1>4. at[Caller] \in Nat \ {0}
  <2>1. n - 1 \in 1..(n - 1)
    BY <1>3
  <2>2. at[stack[n - 1]] > 0
    BY <2>1 DEF IInv, StackInv, Waits, Code
  <2>3. QED BY <1>1, <1>3, <2>2
<1>5. /\ at' \in [Calls -> Nat]
      /\ \A d \in Calls : d # Caller => at'[d] = at[d]
      /\ at'[Caller] = at[Caller] \/ at'[Caller] = at[Caller] - 1
      /\ mode' = "in" => at'[Caller] = at[Caller]
  <2>1. CASE at' = at
    BY <1>1, <1>3, <2>1
  <2>2. CASE mode' = "error" /\ at' = [at EXCEPT ![Caller] = at[Caller] - 1]
    <3>1. at[Caller] - 1 \in Nat
      BY <1>4
    <3>2. QED BY <1>1, <1>3, <2>2, <3>1
  <2>3. QED BY <2>1, <2>2
<1>6. ASSUME NEW d \in Calls PROVE at'[d] \in Nat /\ at'[d] <= at[d]
  <2>1. at'[d] \in Nat /\ at[d] \in Nat
    BY <1>1, <1>5
  <2>2. CASE d = Caller
    BY <1>4, <1>5, <2>1, <2>2
  <2>3. CASE d # Caller
    BY <1>5, <2>1, <2>3
  <2>4. QED BY <2>2, <2>3
<1>7. StackInv'
  <2>1. \A i \in 1..(n - 1) : request'[stack'[i]] # NoRequest
    BY <1>2 DEF IInv, StackInv
  <2>2. \A i, j \in 1..(n - 1) : stack'[i] = stack'[j] => i = j
    BY <1>2 DEF IInv, StackInv
  <2>3. ASSUME NEW i \in 1..(n - 1)
        PROVE  at'[stack'[i]] <= Len(ChainOf(stack'[i], request'[stack'[i]]))
    <3>1. at[stack[i]] <= Len(C(i))
      BY <1>2 DEF IInv, StackInv
    <3>2. at'[stack[i]] <= Len(C(i))
      <4>1. i \in 1..n /\ stack[i] \in Calls /\ at[stack[i]] \in Nat /\ Len(C(i)) \in Nat
        BY <1>1, <1>2
      <4>2. at'[stack[i]] \in Nat /\ at'[stack[i]] <= at[stack[i]]
        BY <1>6, <4>1
      <4>3. QED BY <3>1, <4>1, <4>2
    <3>3. QED BY <1>2, <3>2
  <2>4. ASSUME NEW i \in 1..(n - 1 - 1) PROVE Code(stack'[i], request'[stack'[i]], at'[stack'[i]])
    <3>1. i \in 1..(n - 1) /\ i # n - 1
      BY <1>1
    <3>2. stack[i] # Caller /\ stack[i] \in Calls /\ stack'[i] = stack[i]
      <4>1. i \in 1..n /\ n - 1 \in 1..n /\ Caller = stack[n - 1]
        BY <1>2, <1>3, <3>1
      <4>2. stack[i] # stack[n - 1]
        BY <3>1, <4>1 DEF IInv, StackInv
      <4>3. QED BY <1>1, <1>2, <3>1, <4>1, <4>2
    <3>3. at'[stack[i]] = at[stack[i]]
      BY <1>5, <3>2
    <3>4. Waits(stack[i])
      BY <3>1 DEF IInv, StackInv
    <3>5. QED BY <3>2, <3>3, <3>4 DEF Waits
  <2>5. mode' = "in" => at'[Top'] > 0
    BY <1>3, <1>4, <1>5
  <2>6. request'[1] # NoRequest
    BY <1>1 DEF IInv, StackInv
  <2>7. QED BY <1>2, <2>1, <2>2, <2>3, <2>4, <2>5, <2>6 DEF StackInv, Waits
<1>8. PassedInv'
  <2>1. ASSUME NEW i \in 1..Len(stack'), NEW j \in 1..(at'[stack'[i]] - 1)
        PROVE  Passed(stack[i], j)'
    <3>1. i \in 1..n /\ stack'[i] = stack[i] /\ stack[i] \in Calls
      BY <1>1, <1>2
    <3>2. j \in 1..(at[stack[i]] - 1)
      BY <1>1, <1>6, <3>1
    <3>3. Passed(stack[i], j)
      BY <3>1, <3>2 DEF IInv, PassedInv
    <3>4. request' = request /\ injected' = injected /\ log' = log
      OBVIOUS
    <3>5. QED BY <3>1, <3>3, <3>4 DEF Passed
  <2>2. QED BY <2>1 DEF PassedInv
<1>9. QED BY <1>2, <1>5, <1>7, <1>8
(***************************************************************************)
(* The actions, one lemma each way through a chain.                        *)
(***************************************************************************)
LEMMA Standing ==
    ASSUME IInv, NEW stages, NEW m, Stands(stages, m)
    PROVE  /\ stack # <<>> /\ at[Top] > 0 /\ mode = m /\ Top \in Calls
           /\ ChainOf(Top, request[Top])[at[Top]] \in stages
<1>1. stack # <<>> /\ at[Top] > 0 /\ mode = m /\ Chain(Top)[at[Top]] \in stages
  BY DEF Stands
<1>2. Top \in Calls
  BY <1>1, StackValues
<1>3. QED BY <1>1, <1>2 DEF Chain, ChainOf

LEMMA InwardActions ==
    ASSUME IInv,
           \/ Validate /\ request[Top].valid
           \/ InjectUser /\ Claim \in claims
           \/ NotUserAware \/ BeginUnitOfWork \/ LogExecuting
    PROVE  IInv'
<1>1. PICK k, t : k = at[Top] /\ t = Top
  OBVIOUS
<1>2. /\ stack # <<>> /\ at[Top] > 0 /\ Top \in Calls
      /\ ChainOf(t, request[t])[k] \in Injections \cup {"Validation", "UnitOfWork", "Logging"}
      /\ ChainOf(t, request[t])[k] # "Handler"
  <2>1. \E stages : Stands(stages, "in") /\ stages \subseteq Injections \cup {"Validation", "UnitOfWork", "Logging"}
    <3>1. /\ {"Validation"} \subseteq Injections \cup {"Validation", "UnitOfWork", "Logging"}
          /\ {"UnitOfWork"} \subseteq Injections \cup {"Validation", "UnitOfWork", "Logging"}
          /\ {"Logging"} \subseteq Injections \cup {"Validation", "UnitOfWork", "Logging"}
          /\ Injections \subseteq Injections \cup {"Validation", "UnitOfWork", "Logging"}
      OBVIOUS
    <3>2. \/ Stands({"Validation"}, "in") \/ Stands({"UnitOfWork"}, "in")
          \/ Stands({"Logging"}, "in") \/ Stands(Injections, "in")
      BY DEF Validate, InjectUser, NotUserAware, BeginUnitOfWork, LogExecuting
    <3>3. QED BY <3>1, <3>2
  <2>2. PICK stages : Stands(stages, "in") /\ stages \subseteq Injections \cup {"Validation", "UnitOfWork", "Logging"}
    BY <2>1
  <2>3. QED BY <1>1, <2>2, Standing DEF Injections
<1>3. Inward /\ UNCHANGED <<request, sender, stack, claims, scopeVars, outcome>>
  BY DEF Validate, InjectUser, NotUserAware, BeginUnitOfWork, LogExecuting
<1>4. /\ injected' = injected \/ injected' = injected \cup {Top}
      /\ log' = log \/ log' = [log EXCEPT ![Top] = "executing"]
  BY DEF Validate, InjectUser, NotUserAware, BeginUnitOfWork, LogExecuting
<1>5. Passed(t, k)'
  <2>1. CASE Validate /\ request[Top].valid
    <3>1. ChainOf(t, request[t])[k] = "Validation" /\ request[t].valid
      BY <1>1, <2>1, Standing DEF Validate
    <3>2. QED BY <1>3, <3>1 DEF Passed, Injections
  <2>2. CASE InjectUser /\ Claim \in claims
    <3>1. ChainOf(t, request[t])[k] \in Injections /\ t \in injected'
      BY <1>1, <2>2, Standing DEF InjectUser
    <3>2. QED BY <1>3, <3>1 DEF Passed, Injections
  <2>3. CASE NotUserAware
    <3>1. ChainOf(t, request[t])[k] \in Injections /\ ~ request[t].userAware
      BY <1>1, <2>3, Standing DEF NotUserAware
    <3>2. QED BY <1>3, <3>1 DEF Passed, Injections
  <2>4. CASE BeginUnitOfWork
    <3>1. ChainOf(t, request[t])[k] = "UnitOfWork"
      BY <1>1, <2>4, Standing DEF BeginUnitOfWork
    <3>2. QED BY <1>3, <3>1 DEF Passed, Injections
  <2>5. CASE LogExecuting
    <3>1. ChainOf(t, request[t])[k] = "Logging"
      BY <1>1, <2>5, Standing DEF LogExecuting
    <3>2. log'[t] = "executing"
      BY <1>1, <1>2, <2>5 DEF LogExecuting, IInv, TypeOK
    <3>3. QED BY <1>3, <3>1, <3>2 DEF Passed, Injections
  <2>6. QED BY <2>1, <2>2, <2>3, <2>4, <2>5
<1>6. at' \in [Calls -> Nat] /\ StackInv' /\ PassedInv'
  <2>1. UNCHANGED <<request, stack>> /\ injected \subseteq injected'
    BY <1>3, <1>4
  <2>2. ChainOf(Top, request[Top])[at[Top]] # "Handler"
    BY <1>1, <1>2
  <2>3. QED BY <1>1, <1>2, <1>3, <1>4, <1>5, <2>1, <2>2, MoveIn
<1>7. TypeOK'
  <2>1. injected' \subseteq Calls /\ log' \in [Calls -> {"none", "executing", "succeeded", "failed"}]
    BY <1>2, <1>4 DEF IInv, TypeOK
  <2>2. mode' = "in"
    BY <1>3 DEF Inward
  <2>3. QED BY <1>3, <1>6, <2>1, <2>2 DEF IInv, TypeOK, scopeVars
<1>8. QED BY <1>6, <1>7 DEF IInv

LEMMA OutwardActions ==
    ASSUME IInv,
           \/ Validate /\ ~ request[Top].valid
           \/ InjectUser /\ Claim \notin claims
           \/ HandlerReturns \/ HandlerThrows
           \/ PassThrough \/ Commit \/ CommitAnswerLost \/ Revert \/ LogOutcome
    PROVE  IInv'
<1>1. \E stages, m : Stands(stages, m)
  BY DEF Validate, InjectUser, HandlerReturns, HandlerThrows, PassThrough, Commit, CommitAnswerLost, Revert, LogOutcome
<1>2. stack # <<>> /\ at[Top] > 0 /\ Top \in Calls
  BY <1>1, Standing
<1>3. UNCHANGED <<request, sender, stack, claims, injected, outcome>>
  BY DEF Validate, InjectUser, HandlerReturns, HandlerThrows, PassThrough, Commit, CommitAnswerLost, Revert, LogOutcome,
         scopeVars
<1>4. \E m \in {"result", "error"} : Outward(m)
  <2>1. CASE LogOutcome
    <3>1. Stands({"Logging"}, "result") \/ Stands({"Logging"}, "error")
      BY <2>1 DEF LogOutcome
    <3>2. mode \in {"result", "error"}
      BY <3>1 DEF Stands
    <3>3. QED BY <2>1, <3>2 DEF LogOutcome
  <2>2. CASE ~ LogOutcome
    BY <2>2 DEF Validate, InjectUser, HandlerReturns, HandlerThrows, PassThrough, Commit, CommitAnswerLost, Revert
  <2>3. QED BY <2>1, <2>2
<1>5. PICK m \in {"result", "error"} : Outward(m)
  BY <1>4
<1>6. \/ log' = log
      \/ /\ ChainOf(Top, request[Top])[at[Top]] = "Logging"
         /\ \E l \in {"succeeded", "failed"} : log' = [log EXCEPT ![Top] = l]
  <2>1. CASE LogOutcome
    <3>1. Stands({"Logging"}, "result") \/ Stands({"Logging"}, "error")
      BY <2>1 DEF LogOutcome
    <3>2. ChainOf(Top, request[Top])[at[Top]] = "Logging"
      BY <3>1, Standing
    <3>3. QED BY <2>1, <3>2 DEF LogOutcome
  <2>2. CASE ~ LogOutcome
    BY <2>2 DEF Validate, InjectUser, HandlerReturns, HandlerThrows, PassThrough, Commit, CommitAnswerLost, Revert
  <2>3. QED BY <2>1, <2>2
<1>7. at' \in [Calls -> Nat] /\ StackInv' /\ PassedInv'
  <2>1. UNCHANGED <<request, stack, injected>>
    BY <1>3
  <2>2. QED BY <1>2, <1>5, <1>6, <2>1, MoveOut
<1>8. TypeOK'
  <2>1. log' \in [Calls -> {"none", "executing", "succeeded", "failed"}]
    BY <1>2, <1>6 DEF IInv, TypeOK
  <2>2. mode' = m
    BY <1>5 DEF Outward
  <2>3. /\ unsaved' \subseteq Calls /\ saved' \subseteq Calls /\ inDoubt' \subseteq Calls
        /\ selfSaved' \subseteq Calls /\ forgotten' \subseteq Calls
    BY DEF Validate, InjectUser, HandlerReturns, HandlerThrows, PassThrough, Commit, CommitAnswerLost, Revert, LogOutcome,
           scopeVars, IInv, TypeOK
  <2>4. QED BY <1>3, <1>5, <1>7, <2>1, <2>2, <2>3 DEF IInv, TypeOK
<1>9. QED BY <1>7, <1>8 DEF IInv

LEMMA CallActions ==
    ASSUME IInv, Execute \/ HandlerSends
    PROVE  IInv'
<1>1. 1 \in Calls /\ (stack # <<>> => request[1] # NoRequest)
  BY PipelineAssumption DEF Calls, IInv, StackInv
<1>2. CASE Execute
  <2>1. PICK q \in Request : Calling(1, q)
    BY <1>2 DEF Execute, RequestsOf
  <2>2. stack = <<>> /\ request[1] = NoRequest
    BY <1>1, <1>2 DEF Execute
  <2>3. QED BY <1>1, <2>1, <2>2, CallingStep DEF IInv
<1>3. CASE HandlerSends
  <2>1. PICK c \in Calls, q \in Request : request[c] = NoRequest /\ Calling(c, q)
    BY <1>3 DEF HandlerSends, RequestsOf
  <2>2. stack # <<>> /\ Waits(Top)
    BY <1>3, AtCode DEF HandlerSends
  <2>3. QED BY <2>1, <2>2, CallingStep DEF IInv
<1>4. QED BY <1>2, <1>3

LEMMA ReturnActions ==
    ASSUME IInv, ExecuteEnds \/ HandlerGoesOn \/ HandlerFailsToo
    PROVE  IInv'
<1>1. stack # <<>> /\ mode \in {"result", "error"} /\ Top \in Calls
  BY StackValues DEF ExecuteEnds, HandlerGoesOn, HandlerFailsToo, CallEnds, Ends, IInv, TypeOK
<1>2. /\ outcome' = [outcome EXCEPT ![Top] = mode]
      /\ UNCHANGED <<request, sender, claims, injected, saved, inDoubt, selfSaved, log>>
  BY DEF ExecuteEnds, HandlerGoesOn, HandlerFailsToo, CallEnds, scopeVars
<1>3. outcome' \in [Calls -> {"none", "result", "error"}]
  BY <1>1, <1>2 DEF IInv, TypeOK
<1>4. CASE ExecuteEnds
  <2>1. stack' = <<>> /\ unsaved' = {} /\ forgotten' = forgotten \cup unsaved /\ UNCHANGED <<at, mode>>
    BY <1>4 DEF ExecuteEnds
  <2>2. TypeOK'
    BY <1>2, <1>3, <2>1 DEF IInv, TypeOK
  <2>3. stack' = <<>> /\ Len(stack') = 0
    BY <2>1
  <2>4. StackInv' /\ PassedInv'
    BY <2>3 DEF StackInv, PassedInv
  <2>5. QED BY <2>2, <2>4 DEF IInv
<1>5. CASE HandlerGoesOn \/ HandlerFailsToo
  <2>1. Len(stack) > 1 /\ stack' = Front(stack) /\ UNCHANGED scopeVars
    BY <1>5 DEF HandlerGoesOn, HandlerFailsToo, CallEnds
  <2>2. /\ at' = at \/ (mode' = "error" /\ at' = [at EXCEPT ![Caller] = @ - 1])
        /\ mode' \in {"in", "result", "error"}
    BY <1>5 DEF HandlerGoesOn, HandlerFailsToo
  <2>3. stack' \in Seq(Calls) /\ at' \in [Calls -> Nat] /\ StackInv' /\ PassedInv'
    <3>1. UNCHANGED <<request, injected, log>>
      BY <1>2
    <3>2. QED BY <2>1, <2>2, <3>1, Returning
  <2>4. TypeOK'
    BY <1>2, <1>3, <2>1, <2>2, <2>3 DEF IInv, TypeOK, scopeVars
  <2>5. QED BY <2>3, <2>4 DEF IInv
<1>6. QED BY <1>4, <1>5

LEMMA OtherActions ==
    ASSUME IInv, HandlerChanges \/ HandlerSaves \/ AccountChanges \/ UNCHANGED vars
    PROVE  IInv'
<1>1. UNCHANGED <<request, sender, stack, at, mode, injected, saved, inDoubt, forgotten, log, outcome>>
  BY DEF HandlerChanges, HandlerSaves, AccountChanges, vars, scopeVars
<1>2. HandlerChanges \/ HandlerSaves => Top \in Calls
  BY AtCode DEF HandlerChanges, HandlerSaves
<1>3. TypeOK'
  BY <1>1, <1>2 DEF HandlerChanges, HandlerSaves, AccountChanges, vars, scopeVars, IInv, TypeOK
<1>4. StackInv'
  BY <1>1 DEF IInv, StackInv, Top, Waits
<1>5. PassedInv'
  <2>1. ASSUME NEW c, NEW j, Passed(c, j) PROVE Passed(c, j)'
    BY <1>1, <2>1 DEF Passed
  <2>2. QED BY <1>1, <2>1 DEF IInv, PassedInv
<1>6. QED BY <1>3, <1>4, <1>5 DEF IInv

LEMMA InitInv == Init => IInv
<1> SUFFICES ASSUME Init PROVE IInv
  OBVIOUS
<1>1. TypeOK
  BY PipelineAssumption DEF Init, TypeOK
<1>2. stack = <<>> /\ Len(stack) = 0
  BY DEF Init
<1>3. StackInv /\ PassedInv
  BY <1>2 DEF StackInv, PassedInv
<1>4. QED BY <1>1, <1>3 DEF IInv

LEMMA PipelineStep == IInv /\ [Next]_vars => IInv'
<1> SUFFICES ASSUME IInv, [Next]_vars PROVE IInv'
  OBVIOUS
<1>1. CASE Execute \/ HandlerSends
  BY <1>1, CallActions
<1>2. CASE Validate
  BY <1>2, InwardActions, OutwardActions
<1>3. CASE InjectUser
  BY <1>3, InwardActions, OutwardActions
<1>4. CASE NotUserAware \/ BeginUnitOfWork \/ LogExecuting
  BY <1>4, InwardActions
<1>5. CASE HandlerReturns \/ HandlerThrows \/ PassThrough \/ Commit \/ CommitAnswerLost \/ Revert \/ LogOutcome
  BY <1>5, OutwardActions
<1>6. CASE ExecuteEnds \/ HandlerGoesOn \/ HandlerFailsToo
  BY <1>6, ReturnActions
<1>7. CASE HandlerChanges \/ HandlerSaves \/ AccountChanges \/ UNCHANGED vars
  BY <1>7, OtherActions
<1>8. QED BY <1>1, <1>2, <1>3, <1>4, <1>5, <1>6, <1>7 DEF Next

\* The invariant holds at the start and every step of the scope keeps it.
THEOREM PipelineInductive == Spec => []IInv
<1>1. QED BY InitInv, PipelineStep, PTL DEF Spec

\* TypeOK: every call of the scope is one of Calls, and its place in its chain,
\* its outcome and its line in the log are of their kinds.
THEOREM PipelineTypeCorrect == Spec => []TypeOK
<1>1. IInv => TypeOK
  BY DEF IInv
<1>2. QED BY PipelineInductive, <1>1, PTL

LEMMA GuardedIfPassed == IInv => HandlersAreGuarded
<1> SUFFICES ASSUME IInv, NEW c \in Calls, HandlerRuns(c)
             PROVE  /\ request[c].valid
                    /\ request[c].userAware => c \in injected
                    /\ request[c].kind = "command" => log[c] = "executing"
  BY DEF HandlersAreGuarded
<1> DEFINE chain == ChainOf(c, request[c])
<1>1. PICK i \in 1..Len(stack) : stack[i] = c
  BY StackValues DEF HandlerRuns, ToSet
<1>2. /\ at[c] \in Nat /\ at[c] > 0 /\ at[c] <= Len(chain) /\ chain[at[c]] = "Handler"
      /\ Shaped(chain, request[c].kind)
  BY <1>1, StackValues DEF HandlerRuns, Chain, ChainOf, IInv, StackInv
<1> HIDE DEF chain
<1>3. at[c] = Len(chain)
  BY <1>2 DEF Shaped
<1>4. \A j \in 1..(Len(chain) - 1) : Passed(c, j)
  BY <1>1, <1>3 DEF IInv, PassedInv
<1>5. /\ \E j \in 1..(Len(chain) - 1) : chain[j] = "Validation"
      /\ \E j \in 1..(Len(chain) - 1) : chain[j] \in Injections
      /\ request[c].kind = "command" => \E j \in 1..(Len(chain) - 1) : chain[j] = "Logging"
  BY <1>2 DEF Shaped
<1>6. QED BY <1>4, <1>5 DEF Passed, chain

\* Whatever is sent, how deeply requests are nested, and whatever the handlers
\* and the database do, a handler runs only behind the validators, the injection
\* of users and the logging that its kind of request asks for.
THEOREM HandlersGuarded == Spec => []HandlersAreGuarded
<1>1. QED BY PipelineInductive, GuardedIfPassed, PTL

-----------------------------------------------------------------------------
(***************************************************************************)
(* What becomes of the changes of commands, and what the log says.  First  *)
(* the calls within a call, which Within collects along their senders.     *)
(***************************************************************************)
LEMMA LeastNatural ==
    ASSUME NEW T \in SUBSET Nat, T # {}
    PROVE  \E x \in T : \A y \in T : x <= y
<1> DEFINE R == {ss \in Nat \X Nat : ss[1] < ss[2]}
<1>1. IsWellFoundedOn(R, Nat)
  BY NatLessThanWellFounded DEF OpToRel
<1>2. PICK x \in T : \A y \in T : ~ (<<y, x>> \in R)
  BY <1>1, WFMin
<1>3. ASSUME NEW y \in T PROVE x <= y
  <2>1. <<y, x>> \notin R /\ <<y, x>> \in Nat \X Nat
    BY <1>2
  <2>2. ~ (y < x)
    BY <2>1
  <2>3. QED BY <2>2
<1>4. QED BY <1>3

\* Within's recursion, for any sender function; senders are smaller.
WithinFun(w, c, s, n) == w = [d \in 0..n |-> d # 0 /\ (s[d] = c \/ w[s[d]])]

Senders(s) == s \in [Calls -> 0..MaxCalls] /\ \A d \in Calls : s[d] < d

WithinOf(c, s, q) ==
    LET within[d \in 0..MaxCalls] == d # 0 /\ (s[d] = c \/ within[s[d]])
    IN {d \in Calls : q[d] # NoRequest /\ within[d]}

LEMMA WithinExists ==
    ASSUME NEW s, Senders(s), NEW c, NEW n \in 0..MaxCalls
    PROVE  \E w : WithinFun(w, c, s, n)
<1> DEFINE T == {m \in Nat : m \in 0..MaxCalls /\ ~ \E w : WithinFun(w, c, s, m)}
<1> SUFFICES ASSUME T # {} PROVE FALSE
  BY PipelineAssumption
<1>1. PICK m \in T : \A k \in T : m <= k
  BY LeastNatural
<1>2. m \in Nat /\ m \in 0..MaxCalls /\ ~ \E w : WithinFun(w, c, s, m)
  OBVIOUS
<1>3. CASE m = 0
  <2> DEFINE w == [d \in 0..0 |-> FALSE]
  <2>1. \A d \in 0..0 : d = 0
    OBVIOUS
  <2>2. w = [d \in 0..0 |-> d # 0 /\ (s[d] = c \/ w[s[d]])]
    BY <2>1
  <2>3. WithinFun(w, c, s, m)
    BY <1>3, <2>2 DEF WithinFun
  <2>4. QED BY <1>2, <2>3
<1>4. CASE m # 0
  <2>1. m - 1 \in Nat /\ m - 1 \in 0..MaxCalls /\ ~ (m <= m - 1)
    BY <1>2, <1>4, PipelineAssumption
  <2>2. m - 1 \notin T
    BY <1>1, <2>1
  <2>3. PICK v : WithinFun(v, c, s, m - 1)
    BY <2>1, <2>2
  <2>4. \A d \in 0..(m - 1) : v[d] = (d # 0 /\ (s[d] = c \/ v[s[d]]))
    BY <2>3 DEF WithinFun
  <2> DEFINE w == [d \in 0..m |-> IF d < m THEN v[d] ELSE s[d] = c \/ v[s[d]]]
  <2>5. ASSUME NEW d \in 0..m, d # 0 PROVE s[d] \in 0..(m - 1) /\ s[d] < d
    <3>1. d \in Calls
      BY <1>2, <2>5, PipelineAssumption DEF Calls
    <3>2. s[d] \in 0..MaxCalls /\ s[d] < d
      BY <3>1 DEF Senders
    <3>3. QED BY <1>2, <2>5, <3>2, PipelineAssumption
  <2>6. \A k \in 0..(m - 1) : w[k] = v[k]
    BY <1>2
  <2>7. ASSUME NEW d \in 0..m PROVE w[d] = (d # 0 /\ (s[d] = c \/ w[s[d]]))
    <3>1. CASE d < m
      <4>1. d \in 0..(m - 1) /\ w[d] = v[d]
        BY <1>2, <3>1
      <4>2. d # 0 => w[s[d]] = v[s[d]]
        BY <2>5, <2>6
      <4>3. v[d] = (d # 0 /\ (s[d] = c \/ v[s[d]]))
        BY <2>4, <4>1
      <4> HIDE DEF w
      <4>4. QED BY <4>1, <4>2, <4>3
    <3>2. CASE ~ (d < m)
      <4>1. w[d] = (s[d] = c \/ v[s[d]]) /\ d # 0
        BY <1>2, <1>4, <3>2
      <4>2. w[s[d]] = v[s[d]]
        BY <2>5, <2>6, <4>1
      <4> HIDE DEF w
      <4>3. QED BY <4>1, <4>2
    <3>3. QED BY <3>1, <3>2
  <2>8. w = [d \in 0..m |-> d # 0 /\ (s[d] = c \/ w[s[d]])]
    BY <2>7
  <2>9. WithinFun(w, c, s, m)
    BY <2>8 DEF WithinFun
  <2>10. QED BY <1>2, <2>9
<1>5. QED BY <1>3, <1>4

\* A call is within c if its sender is c, or within c.
LEMMA WithinUnfolds ==
    ASSUME NEW s, Senders(s), NEW c, NEW q,
           \A d \in Calls : q[d] # NoRequest /\ s[d] # 0 => q[s[d]] # NoRequest
    PROVE  /\ WithinOf(c, s, q) \subseteq Calls
           /\ \A d \in Calls : q[d] # NoRequest =>
                (d \in WithinOf(c, s, q) <=> s[d] = c \/ s[d] \in WithinOf(c, s, q))
           /\ \A d \in WithinOf(c, s, q) : q[d] # NoRequest
<1> DEFINE within == CHOOSE w : w = [d \in 0..MaxCalls |-> d # 0 /\ (s[d] = c \/ w[s[d]])]
<1>1. within = [d \in 0..MaxCalls |-> d # 0 /\ (s[d] = c \/ within[s[d]])]
  <2>1. MaxCalls \in 0..MaxCalls
    BY PipelineAssumption
  <2>2. PICK w : WithinFun(w, c, s, MaxCalls)
    BY <2>1, WithinExists
  <2>3. w = [d \in 0..MaxCalls |-> d # 0 /\ (s[d] = c \/ w[s[d]])]
    BY <2>2 DEF WithinFun
  <2> HIDE DEF within
  <2>4. within = CHOOSE v : v = [d \in 0..MaxCalls |-> d # 0 /\ (s[d] = c \/ v[s[d]])]
    BY DEF within
  <2>5. QED BY <2>3, <2>4
<1>2. WithinOf(c, s, q) = {d \in Calls : q[d] # NoRequest /\ within[d]}
  BY DEF WithinOf
<1> HIDE DEF within
<1>3. \A d \in 0..MaxCalls : within[d] = (d # 0 /\ (s[d] = c \/ within[s[d]]))
  BY <1>1
<1>4. \A d \in Calls : d \in 0..MaxCalls /\ d # 0 /\ s[d] \in 0..MaxCalls
  BY PipelineAssumption DEF Calls, Senders
<1>5. 0 \in 0..MaxCalls /\ \A d \in 0..MaxCalls : d = 0 \/ d \in Calls
  BY PipelineAssumption DEF Calls
<1>6. ~ within[0]
  BY <1>3, <1>5
<1>7. ASSUME NEW d \in Calls, q[d] # NoRequest
      PROVE  within[d] <=> s[d] = c \/ s[d] \in WithinOf(c, s, q)
  <2>1. within[d] <=> s[d] = c \/ within[s[d]]
    BY <1>3, <1>4
  <2>2. CASE s[d] = 0
    <3>1. s[d] \notin WithinOf(c, s, q)
      BY <1>2, <1>4, <2>2
    <3>2. QED BY <1>6, <2>1, <2>2, <3>1
  <2>3. CASE s[d] # 0
    <3>1. s[d] \in Calls /\ q[s[d]] # NoRequest
      BY <1>4, <1>5, <1>7, <2>3
    <3>2. QED BY <1>2, <2>1, <3>1
  <2>4. QED BY <2>2, <2>3
<1>8. QED BY <1>2, <1>7

\* What every sender hands on, everything within c has.
HandsOn(X, Y, s, c) ==
    /\ X \subseteq Nat
    /\ \A d \in X : s[d] \in Nat /\ s[d] < d /\ (s[d] = c \/ s[d] \in X)
    /\ \A d \in X : s[d] = c \/ s[d] \in Y => d \in Y

LEMMA Descend ==
    ASSUME NEW X, NEW Y, NEW s, NEW c, HandsOn(X, Y, s, c)
    PROVE  X \subseteq Y
<1> DEFINE T == {d \in Nat : d \in X /\ d \notin Y}
<1> SUFFICES ASSUME T # {} PROVE FALSE
  BY DEF HandsOn
<1>1. PICK m \in T : \A k \in T : m <= k
  BY LeastNatural
<1>2. m \in X /\ m \notin Y /\ s[m] \in Nat /\ s[m] < m
  BY DEF HandsOn
<1>3. s[m] # c /\ s[m] \in X /\ s[m] \notin Y
  BY <1>2 DEF HandsOn
<1>4. m <= s[m]
  BY <1>1, <1>2, <1>3
<1>5. QED BY <1>2, <1>4

-----------------------------------------------------------------------------
(***************************************************************************)
(* The invariant of the changes, the outcomes and the log.                 *)
(***************************************************************************)
Made(c) == request[c] # NoRequest
IsCommand(c) == Made(c) /\ request[c].kind = "command"
OnStack(c) == \E i \in 1..Len(stack) : stack[i] = c
OnTop(c) == stack # <<>> /\ c = Top

\* Where the unit of work stands in the chain of a command with a result.
UnitAt(c) == IF c = 1 THEN 3 ELSE 2

\* A command is past its unit of work, on its way out, or out.
EndsAs(c, how) == outcome[c] = how \/ (OnTop(c) /\ at[c] < UnitAt(c) /\ mode = how)
SentEndsAs(c, how) == \E d \in Within(c) : request[d].kind = "command" /\ EndsAs(d, how)

\* Requests are numbered as they are made, each by the one below it on the stack.
SenderInv ==
    /\ \A d \in Calls : sender[d] < d
    /\ \A d, e \in Calls : Made(d) /\ e < d => Made(e)
    /\ stack # <<>> => sender[stack[1]] = 0
    /\ \A i \in 1..(Len(stack) - 1) : sender[stack[i + 1]] = stack[i]

\* Only calls that were made have an outcome, once they are done, and changes.
OutcomeInv ==
    /\ \A c \in Calls : outcome[c] # "none" => Made(c) /\ ~ OnStack(c)
    /\ \A c \in unsaved \cup saved \cup inDoubt \cup forgotten : Made(c)

\* A command whose changes are neither saved nor forgotten is inside its unit of work.
OpenInv == \A c \in unsaved : IsCommand(c) => OnStack(c) /\ at[c] >= UnitAt(c)

\* Changes are saved by the command's own unit of work or by that of a command within.
SavedInv == \A c \in saved : IsCommand(c) => EndsAs(c, "result") \/ SentEndsAs(c, "result")

\* ... and likewise they are forgotten or in doubt.
DroppedInv ==
    \A c \in forgotten \cup inDoubt : IsCommand(c) => EndsAs(c, "error") \/ SentEndsAs(c, "error")

\* The log follows the command through its logging behaviour.
LogInv ==
    /\ \A c \in Calls : log[c] # "none" => IsCommand(c)
    /\ \A c \in Calls : log[c] = "executing" => OnStack(c) /\ at[c] >= UnitAt(c) - 1
    /\ \A c \in Calls : log[c] = "succeeded" => EndsAs(c, "result")
    /\ \A c \in Calls : log[c] = "failed" => EndsAs(c, "error")
    /\ \A c \in Calls : IsCommand(c) /\ log[c] = "none" =>
         EndsAs(c, "error") \/ (OnTop(c) /\ mode = "in" /\ at[c] <= UnitAt(c) - 1)

EndsInv == SenderInv /\ OutcomeInv /\ OpenInv /\ SavedInv /\ DroppedInv /\ LogInv

LEMMA CommandPlaces ==
    ASSUME NEW c, NEW q, q.kind = "command"
    PROVE  LET chain == ChainOf(c, q) IN
           /\ Len(chain) = UnitAt(c) + 3
           /\ c = 1 => chain[UnitAt(c) - 2] = "UserInjectionCommand"
           /\ chain[UnitAt(c) - 1] = "Logging" /\ chain[UnitAt(c)] = "UnitOfWork"
           /\ chain[UnitAt(c) + 1] = "UserInjectionQuery" /\ chain[UnitAt(c) + 2] = "Validation"
           /\ chain[UnitAt(c) + 3] = "Handler"
<1>1. CASE c = 1
  BY <1>1, ExecuteChains DEF ChainOf, UnitAt
<1>2. CASE c # 1
  BY <1>2, SendChains DEF ChainOf, UnitAt
<1>3. QED BY <1>1, <1>2

LEMMA OtherPlaces ==
    ASSUME NEW c, NEW q, q.kind \in {"void", "query"},
           NEW j \in 1..Len(ChainOf(c, q))
    PROVE  ChainOf(c, q)[j] \notin {"UnitOfWork", "Logging"}
<1>1. ASSUME NEW chain, Len(chain) = 3, chain[1] = "UserInjectionQuery", chain[2] = "Validation",
             chain[3] = "Handler", NEW i \in 1..Len(chain)
      PROVE  chain[i] \notin {"UnitOfWork", "Logging"}
  <2>1. i = 1 \/ i = 2 \/ i = 3
    BY <1>1
  <2>2. QED BY <1>1, <2>1
<1>2. ASSUME NEW chain, Len(chain) = 5, chain[1] = "Validation", chain[2] = "UserInjectionQuery",
             chain[3] = "UserInjectionQuery", chain[4] = "Validation", chain[5] = "Handler",
             NEW i \in 1..Len(chain)
      PROVE  chain[i] \notin {"UnitOfWork", "Logging"}
  <2>1. i = 1 \/ i = 2 \/ i = 3 \/ i = 4 \/ i = 5
    BY <1>2
  <2>2. QED BY <1>2, <2>1
<1>3. CASE c = 1 /\ q.kind = "query"
  BY <1>2, <1>3, ExecuteChains DEF ChainOf
<1>4. CASE ~ (c = 1 /\ q.kind = "query")
  BY <1>1, <1>4, SendChains, ExecuteChains DEF ChainOf
<1>5. QED BY <1>3, <1>4

\* Where the innermost call stands.
LEMMA TopPlace ==
    ASSUME IInv, NEW stages, NEW m, Stands(stages, m)
    PROVE  LET b == ChainOf(Top, request[Top])[at[Top]] IN
           /\ OnStack(Top) /\ OnTop(Top) /\ Made(Top)
           /\ Top \in Calls /\ at[Top] \in Nat \ {0} /\ mode = m /\ b \in stages
           /\ IsCommand(Top) =>
                /\ b = "Handler" => at[Top] = UnitAt(Top) + 3
                /\ b = "Validation" => at[Top] = UnitAt(Top) + 2
                /\ b \in Injections => at[Top] = UnitAt(Top) + 1 \/ at[Top] = UnitAt(Top) - 2
                /\ b = "UnitOfWork" => at[Top] = UnitAt(Top)
                /\ b = "Logging" => at[Top] = UnitAt(Top) - 1
           /\ b \in {"UnitOfWork", "Logging"} => IsCommand(Top)
<1> DEFINE chain == ChainOf(Top, request[Top])
           b == chain[at[Top]]
<1>1. /\ stack # <<>> /\ at[Top] > 0 /\ mode = m /\ b \in stages
  BY Standing
<1>2. /\ Len(stack) \in 1..Len(stack) /\ Top = stack[Len(stack)] /\ Top \in Calls /\ at[Top] \in Nat \ {0}
      /\ request[Top] \in Request /\ Made(Top) /\ at[Top] <= Len(chain)
      /\ Len(chain) \in Nat
  <2>1. /\ Len(stack) \in 1..Len(stack) /\ Top = stack[Len(stack)] /\ Top \in Calls /\ at[Top] \in Nat
        /\ request[Top] \in Request /\ Shaped(chain, request[Top].kind)
    BY <1>1, StackValues
  <2>2. request[Top] # NoRequest /\ at[Top] <= Len(chain)
    BY <2>1 DEF IInv, StackInv
  <2> HIDE DEF chain
  <2>3. QED BY <1>1, <2>1, <2>2 DEF Made, Shaped
<1>3. OnStack(Top) /\ OnTop(Top)
  BY <1>1, <1>2 DEF OnStack, OnTop
<1>4. request[Top].kind \in Kinds
  BY <1>2 DEF Request
<1>5. b \in {"UnitOfWork", "Logging"} => IsCommand(Top)
  <2>1. at[Top] \in 1..Len(chain)
    BY <1>2
  <2>2. QED BY <1>2, <1>4, <2>1, OtherPlaces DEF IsCommand, Kinds
<1>6. ASSUME IsCommand(Top)
      PROVE  /\ b = "Handler" => at[Top] = UnitAt(Top) + 3
             /\ b = "Validation" => at[Top] = UnitAt(Top) + 2
             /\ b \in Injections => at[Top] = UnitAt(Top) + 1 \/ at[Top] = UnitAt(Top) - 2
             /\ b = "UnitOfWork" => at[Top] = UnitAt(Top)
             /\ b = "Logging" => at[Top] = UnitAt(Top) - 1
  <2>1. /\ Len(chain) = UnitAt(Top) + 3
        /\ Top = 1 => chain[UnitAt(Top) - 2] = "UserInjectionCommand"
        /\ chain[UnitAt(Top) - 1] = "Logging" /\ chain[UnitAt(Top)] = "UnitOfWork"
        /\ chain[UnitAt(Top) + 1] = "UserInjectionQuery" /\ chain[UnitAt(Top) + 2] = "Validation"
        /\ chain[UnitAt(Top) + 3] = "Handler"
    BY <1>6, CommandPlaces DEF IsCommand
  <2> HIDE DEF chain
  <2>2. \/ Top = 1 /\ at[Top] = UnitAt(Top) - 2
        \/ at[Top] = UnitAt(Top) - 1 \/ at[Top] = UnitAt(Top) \/ at[Top] = UnitAt(Top) + 1
        \/ at[Top] = UnitAt(Top) + 2 \/ at[Top] = UnitAt(Top) + 3
    BY <1>2, <2>1 DEF UnitAt
  <2>3. QED BY <2>1, <2>2 DEF Injections
<1>7. QED BY <1>1, <1>2, <1>3, <1>5, <1>6

\* Where the code of a command with a result may run, or wait.
LEMMA WaitingPlaces ==
    ASSUME IInv, NEW c \in Calls, OnStack(c), Waits(c), IsCommand(c)
    PROVE  \/ at[c] = UnitAt(c) + 3 /\ ChainOf(c, request[c])[at[c]] = "Handler"
           \/ at[c] = UnitAt(c) /\ ChainOf(c, request[c])[at[c]] = "UnitOfWork"
<1> DEFINE chain == ChainOf(c, request[c])
<1>1. at[c] \in Nat /\ at[c] > 0 /\ at[c] <= Len(chain) /\ chain[at[c]] \in {"Handler", "UnitOfWork"}
  BY DEF Waits, Code, OnStack, IInv, StackInv, TypeOK
<1>2. /\ Len(chain) = UnitAt(c) + 3
      /\ c = 1 => chain[UnitAt(c) - 2] = "UserInjectionCommand"
      /\ chain[UnitAt(c) - 1] = "Logging" /\ chain[UnitAt(c)] = "UnitOfWork"
      /\ chain[UnitAt(c) + 1] = "UserInjectionQuery" /\ chain[UnitAt(c) + 2] = "Validation"
      /\ chain[UnitAt(c) + 3] = "Handler"
  BY CommandPlaces DEF IsCommand
<1> HIDE DEF chain
<1>3. \/ c = 1 /\ at[c] = UnitAt(c) - 2
      \/ at[c] = UnitAt(c) - 1 \/ at[c] = UnitAt(c) \/ at[c] = UnitAt(c) + 1
      \/ at[c] = UnitAt(c) + 2 \/ at[c] = UnitAt(c) + 3
  BY <1>1, <1>2 DEF UnitAt
<1>4. QED BY <1>1, <1>2, <1>3 DEF chain

LEMMA Waiting ==
    ASSUME IInv, NEW c \in Calls, OnStack(c)
    PROVE  /\ Made(c) /\ at[c] \in Nat
           /\ ~ OnTop(c) => Waits(c)
<1>1. PICK i \in 1..Len(stack) : stack[i] = c
  BY DEF OnStack
<1>2. stack # <<>> /\ Len(stack) \in Nat
  BY <1>1, StackValues DEF IInv, TypeOK
<1>3. Made(c) /\ at[c] \in Nat
  BY <1>1 DEF IInv, TypeOK, StackInv, Made
<1>4. ASSUME ~ OnTop(c) PROVE Waits(c)
  <2>1. i # Len(stack)
    BY <1>1, <1>2, <1>4, StackValues DEF OnTop
  <2>2. i \in 1..(Len(stack) - 1)
    BY <1>2, <2>1
  <2>3. QED BY <1>1, <2>2 DEF IInv, StackInv
<1>5. QED BY <1>3, <1>4

(***************************************************************************)
(* The calls within a call, and the stack.                                 *)
(***************************************************************************)
LEMMA WithinFacts ==
    ASSUME TypeOK, SenderInv, NEW c
    PROVE  /\ Within(c) \subseteq Calls
           /\ \A d \in Calls : Made(d) => (d \in Within(c) <=> sender[d] = c \/ sender[d] \in Within(c))
           /\ \A d \in Within(c) : Made(d)
<1>1. Senders(sender)
  BY DEF Senders, TypeOK, SenderInv
<1>2. Within(c) = WithinOf(c, sender, request)
  BY DEF Within, WithinOf
<1>3. ASSUME NEW d \in Calls, request[d] # NoRequest, sender[d] # 0
      PROVE  request[sender[d]] # NoRequest
  <2>1. sender[d] < d /\ sender[d] \in Calls
    BY <1>3, PipelineAssumption DEF TypeOK, SenderInv, Calls
  <2>2. QED BY <1>3, <2>1 DEF SenderInv, Made
<1>4. QED BY <1>1, <1>2, <1>3, WithinUnfolds DEF Made

\* The innermost call is within all the others in progress.
LEMMA Nested ==
    ASSUME IInv, SenderInv, NEW c \in Calls, OnStack(c), ~ OnTop(c)
    PROVE  Top \in Within(c)
<1> DEFINE n == Len(stack)
<1>1. PICK i \in 1..n : stack[i] = c
  BY DEF OnStack
<1>2. n \in Nat /\ i \in Nat /\ stack # <<>> /\ Top = stack[n] /\ n \in 1..n
  BY <1>1, StackValues DEF IInv, TypeOK
<1>3. i # n
  BY <1>1, <1>2 DEF OnTop
<1> DEFINE T == {k \in Nat : k \in (i + 1)..n /\ stack[k] \notin Within(c)}
<1>4. CASE T = {}
  <2>1. n \in (i + 1)..n
    BY <1>1, <1>2, <1>3
  <2>2. QED BY <1>2, <1>4, <2>1
<1>5. CASE T # {}
  <2>1. PICK m \in T : \A k \in T : m <= k
    BY <1>5, LeastNatural
  <2>2. m \in Nat /\ m \in (i + 1)..n /\ stack[m] \notin Within(c)
    OBVIOUS
  <2>3. /\ m \in 1..n /\ m - 1 \in 1..(n - 1) /\ (m - 1) + 1 = m
        /\ (m - 1 = i \/ m - 1 \in (i + 1)..n) /\ ~ (m <= m - 1) /\ m - 1 \in Nat
    BY <1>1, <1>2, <2>2
  <2>4. sender[stack[m]] = stack[m - 1]
    BY <2>3 DEF SenderInv
  <2>5. Made(stack[m]) /\ stack[m] \in Calls
    BY <2>3, StackValues DEF IInv, StackInv, Made
  <2>6. sender[stack[m]] = c \/ sender[stack[m]] \in Within(c)
    <3>1. CASE m - 1 = i
      BY <1>1, <2>4, <3>1
    <3>2. CASE m - 1 # i
      <4>1. m - 1 \notin T
        BY <2>1, <2>3
      <4>2. QED BY <2>3, <2>4, <3>2, <4>1
    <3>3. QED BY <3>1, <3>2
  <2>7. QED BY <2>2, <2>5, <2>6, WithinFacts DEF IInv
<1>6. QED BY <1>4, <1>5

\* A call within c was made later, and while it is in progress, so is c.
LEMMA WithinIsAbove ==
    ASSUME IInv, SenderInv, NEW c \in Calls, NEW d \in Within(c)
    PROVE  d \in Calls /\ Made(d) /\ d # c /\ (OnStack(d) => OnStack(c))
<1>1. /\ Within(c) \subseteq Calls
      /\ \A e \in Calls : Made(e) => (e \in Within(c) <=> sender[e] = c \/ sender[e] \in Within(c))
      /\ \A e \in Within(c) : Made(e)
  BY WithinFacts DEF IInv
<1>2. Calls \subseteq Nat /\ 0 \notin Calls
  BY PipelineAssumption DEF Calls
<1>3. \A e \in Calls : sender[e] \in Nat /\ sender[e] < e
  BY PipelineAssumption DEF IInv, TypeOK, SenderInv
<1>4. \A e \in Within(c) : e \in Calls /\ Made(e) /\ (sender[e] = c \/ sender[e] \in Within(c))
  BY <1>1
<1>5. d # c
  <2> DEFINE Y == {e \in Nat : e > c}
  <2>1. ASSUME NEW e \in Within(c), sender[e] = c \/ sender[e] \in Y
        PROVE  e \in Y
    <3>1. e \in Nat /\ c \in Nat /\ sender[e] \in Nat /\ sender[e] < e
      BY <1>2, <1>3, <1>4
    <3>2. sender[e] = c \/ sender[e] > c
      BY <2>1
    <3>3. QED BY <3>1, <3>2
  <2>2. Within(c) \in SUBSET Nat
    BY <1>1, <1>2
  <2>3. \A e \in Within(c) : sender[e] \in Nat /\ sender[e] < e /\ (sender[e] = c \/ sender[e] \in Within(c))
    BY <1>3, <1>4
  <2>4. Within(c) \subseteq Y
    <3> HIDE DEF Y
    <3>1. HandsOn(Within(c), Y, sender, c)
      BY <2>1, <2>2, <2>3 DEF HandsOn
    <3>2. QED BY <3>1, Descend
  <2>5. QED BY <1>2, <2>4
<1>6. ASSUME OnStack(d), ~ OnStack(c) PROVE FALSE
  <2> DEFINE X == {e \in Within(c) : OnStack(e)}
             Y == {}
  <2>1. ASSUME NEW e \in X
        PROVE  sender[e] # c /\ sender[e] \in X
    <3>1. PICK i \in 1..Len(stack) : stack[i] = e
      BY DEF OnStack
    <3>2. Len(stack) \in Nat /\ stack # <<>>
      BY <3>1 DEF IInv, TypeOK
    <3>3. i # 1
      <4>1. CASE i = 1
        <5>1. sender[e] = 0
          BY <3>1, <3>2, <4>1 DEF SenderInv
        <5>2. QED BY <1>1, <1>2, <1>4, <5>1
      <4>2. QED BY <4>1
    <3>4. i - 1 \in 1..(Len(stack) - 1) /\ (i - 1) + 1 = i /\ i - 1 \in 1..Len(stack)
      BY <3>1, <3>2, <3>3
    <3>5. sender[e] = stack[i - 1]
      BY <3>1, <3>4 DEF SenderInv
    <3>6. OnStack(sender[e])
      BY <3>4, <3>5 DEF OnStack
    <3>7. sender[e] # c
      BY <1>6, <3>6
    <3>8. QED BY <1>4, <3>6, <3>7
  <2>2. X \in SUBSET Nat
    BY <1>1, <1>2
  <2>3. \A e \in X : sender[e] \in Nat /\ sender[e] < e /\ (sender[e] = c \/ sender[e] \in X)
    BY <1>3, <1>4, <2>1
  <2>4. \A e \in X : sender[e] = c \/ sender[e] \in Y => e \in Y
    BY <2>1
  <2>5. X \subseteq Y
    <3> HIDE DEF X, Y
    <3>1. HandsOn(X, Y, sender, c)
      BY <2>2, <2>3, <2>4 DEF HandsOn
    <3>2. QED BY <3>1, Descend
  <2>6. QED BY <1>6, <2>5
<1>7. QED BY <1>4, <1>5, <1>6

-----------------------------------------------------------------------------
(***************************************************************************)
(* The moves of the innermost call through its chain: past the unit of     *)
(* work of a command, before it, and at the behaviours that matter.        *)
(***************************************************************************)
Move ==
    \/ Validate \/ InjectUser \/ NotUserAware \/ BeginUnitOfWork \/ LogExecuting
    \/ HandlerReturns \/ HandlerThrows \/ PassThrough \/ Commit \/ CommitAnswerLost \/ Revert \/ LogOutcome

Inside == at[Top] >= UnitAt(Top) /\ at'[Top] >= UnitAt(Top)

Outside ==
    /\ at[Top] < UnitAt(Top) - 1 /\ at'[Top] < UnitAt(Top)
    /\ mode' = mode \/ (mode = "in" /\ mode' = "error")

Quiet ==
    /\ UNCHANGED <<scopeVars, log>>
    /\ IsCommand(Top) => Inside \/ Outside

Commits ==
    /\ IsCommand(Top) /\ at[Top] = UnitAt(Top) /\ at'[Top] = UnitAt(Top) - 1
    /\ mode' = "result" /\ saved' = saved \cup unsaved /\ unsaved' = {}
    /\ UNCHANGED <<inDoubt, forgotten, log>>

Reverts ==
    /\ IsCommand(Top) /\ at[Top] = UnitAt(Top) /\ at'[Top] = UnitAt(Top) - 1
    /\ mode' = "error" /\ unsaved' = {} /\ UNCHANGED <<saved, log>>
    /\ inDoubt' \cup forgotten' = inDoubt \cup forgotten \cup unsaved

LogsIn ==
    /\ IsCommand(Top) /\ at[Top] = UnitAt(Top) - 1 /\ at'[Top] = UnitAt(Top)
    /\ mode = "in" /\ UNCHANGED scopeVars
    /\ log' = [log EXCEPT ![Top] = "executing"]

LogsOut ==
    /\ IsCommand(Top) /\ at[Top] = UnitAt(Top) - 1 /\ at'[Top] = UnitAt(Top) - 2
    /\ mode' = mode /\ UNCHANGED scopeVars
    /\ \/ mode = "result" /\ log' = [log EXCEPT ![Top] = "succeeded"]
       \/ mode = "error" /\ log' = [log EXCEPT ![Top] = "failed"]

LEMMA MoveShapes ==
    ASSUME IInv, Move
    PROVE  /\ OnStack(Top) /\ OnTop(Top) /\ Made(Top) /\ Top \in Calls
           /\ at[Top] \in Nat /\ at'[Top] \in Nat
           /\ \A c \in Calls : c # Top => at'[c] = at[c]
           /\ UNCHANGED <<request, sender, stack, outcome>>
           /\ Quiet \/ Commits \/ Reverts \/ LogsIn \/ LogsOut
<1> DEFINE b == ChainOf(Top, request[Top])[at[Top]]
<1>1. \E stages, m : Stands(stages, m)
  BY DEF Move, Validate, InjectUser, NotUserAware, BeginUnitOfWork, LogExecuting, HandlerReturns,
         HandlerThrows, PassThrough, Commit, CommitAnswerLost, Revert, LogOutcome
<1>2. OnStack(Top) /\ OnTop(Top) /\ Made(Top) /\ Top \in Calls /\ at[Top] \in Nat \ {0}
  BY <1>1, TopPlace
<1>3. UNCHANGED <<request, sender, stack, outcome>>
  BY DEF Move, Validate, InjectUser, NotUserAware, BeginUnitOfWork, LogExecuting, HandlerReturns,
         HandlerThrows, PassThrough, Commit, CommitAnswerLost, Revert, LogOutcome, scopeVars
<1>4. Inward \/ \E m : Outward(m)
  BY DEF Move, Validate, InjectUser, NotUserAware, BeginUnitOfWork, LogExecuting, HandlerReturns,
         HandlerThrows, PassThrough, Commit, CommitAnswerLost, Revert, LogOutcome
<1>5. /\ \A c \in Calls : c # Top => at'[c] = at[c]
      /\ at'[Top] \in Nat
      /\ Inward => at'[Top] = at[Top] + 1 /\ mode' = "in"
      /\ \A m : Outward(m) => at'[Top] = at[Top] - 1 /\ mode' = m
  BY <1>2, <1>4 DEF Inward, Outward, IInv, TypeOK
<1>6. UnitAt(Top) \in {2, 3}
  BY DEF UnitAt
<1>7. CASE Validate
  <2>1. b = "Validation" /\ (IsCommand(Top) => at[Top] = UnitAt(Top) + 2)
    BY <1>7, TopPlace DEF Validate
  <2>2. IsCommand(Top) => Inside
    BY <1>2, <1>5, <1>6, <1>7, <2>1 DEF Validate, Inside
  <2>3. QED BY <1>2, <1>3, <1>5, <1>7, <2>2 DEF Validate, Quiet
<1>8. CASE InjectUser \/ NotUserAware
  <2>1. /\ b \in Injections /\ mode = "in"
        /\ IsCommand(Top) => at[Top] = UnitAt(Top) + 1 \/ at[Top] = UnitAt(Top) - 2
    BY <1>8, TopPlace DEF InjectUser, NotUserAware
  <2>2. \/ at'[Top] = at[Top] + 1 /\ mode' = "in"
        \/ at'[Top] = at[Top] - 1 /\ mode' = "error"
    <3>1. Inward \/ Outward("error")
      BY <1>8 DEF InjectUser, NotUserAware
    <3>2. QED BY <1>5, <3>1
  <2>3. IsCommand(Top) => Inside \/ Outside
    BY <1>2, <1>6, <2>1, <2>2 DEF Inside, Outside
  <2>4. QED BY <1>2, <1>3, <1>5, <1>8, <2>3 DEF InjectUser, NotUserAware, Quiet
<1>9. CASE BeginUnitOfWork
  <2>1. IsCommand(Top) => at[Top] = UnitAt(Top)
    BY <1>9, TopPlace DEF BeginUnitOfWork
  <2>2. IsCommand(Top) => Inside
    BY <1>2, <1>5, <1>6, <1>9, <2>1 DEF BeginUnitOfWork, Inside
  <2>3. QED BY <1>2, <1>3, <1>5, <1>9, <2>2 DEF BeginUnitOfWork, Quiet
<1>10. CASE LogExecuting
  <2>1. IsCommand(Top) /\ at[Top] = UnitAt(Top) - 1 /\ mode = "in"
    BY <1>10, TopPlace DEF LogExecuting
  <2>2. at'[Top] = UnitAt(Top)
    BY <1>2, <1>5, <1>6, <1>10, <2>1 DEF LogExecuting
  <2>3. LogsIn
    BY <1>10, <2>1, <2>2 DEF LogExecuting, LogsIn
  <2>4. QED BY <1>2, <1>3, <1>5, <2>3
<1>11. CASE HandlerReturns \/ HandlerThrows
  <2>1. IsCommand(Top) => at[Top] = UnitAt(Top) + 3
    BY <1>11, TopPlace DEF HandlerReturns, HandlerThrows
  <2>2. at'[Top] = at[Top] - 1
    BY <1>5, <1>11 DEF HandlerReturns, HandlerThrows
  <2>3. IsCommand(Top) => Inside
    BY <1>2, <1>6, <2>1, <2>2 DEF Inside
  <2>4. QED BY <1>2, <1>3, <1>5, <1>11, <2>3 DEF HandlerReturns, HandlerThrows, Quiet
<1>12. CASE PassThrough
  <2>1. PICK m \in {"result", "error"} : Stands(Injections \cup {"Validation"}, m) /\ Outward(m)
    BY <1>12 DEF PassThrough
  <2>2. b \in Injections \cup {"Validation"} /\ mode = m
    BY <2>1, TopPlace
  <2>3. IsCommand(Top) =>
          at[Top] = UnitAt(Top) + 2 \/ at[Top] = UnitAt(Top) + 1 \/ at[Top] = UnitAt(Top) - 2
    BY <2>1, <2>2, TopPlace
  <2>4. at'[Top] = at[Top] - 1 /\ mode' = mode
    BY <1>5, <2>1, <2>2
  <2>5. IsCommand(Top) => Inside \/ Outside
    BY <1>2, <1>6, <2>3, <2>4 DEF Inside, Outside
  <2>6. QED BY <1>2, <1>3, <1>5, <1>12, <2>5 DEF PassThrough, Quiet
<1>13. CASE Commit \/ CommitAnswerLost \/ Revert
  <2>1. Stands({"UnitOfWork"}, "result") \/ Stands({"UnitOfWork"}, "error")
    BY <1>13 DEF Commit, CommitAnswerLost, Revert
  <2>2. b = "UnitOfWork"
    BY <2>1, TopPlace
  <2>3. IsCommand(Top) /\ at[Top] = UnitAt(Top)
    BY <2>1, <2>2, TopPlace
  <2>4. /\ at'[Top] = at[Top] - 1
        /\ Commit => mode' = "result"
        /\ CommitAnswerLost \/ Revert => mode' = "error"
    BY <1>5, <1>13 DEF Commit, CommitAnswerLost, Revert
  <2>5. Commits \/ Reverts
    BY <1>13, <2>3, <2>4 DEF Commit, CommitAnswerLost, Revert, Commits, Reverts
  <2>6. QED BY <1>2, <1>3, <1>5, <2>5
<1>14. CASE LogOutcome
  <2>1. Stands({"Logging"}, "result") \/ Stands({"Logging"}, "error")
    BY <1>14 DEF LogOutcome
  <2>2. b = "Logging"
    BY <2>1, TopPlace
  <2>3. IsCommand(Top) /\ at[Top] = UnitAt(Top) - 1
    BY <2>1, <2>2, TopPlace
  <2>4. at'[Top] = UnitAt(Top) - 2 /\ mode' = mode
    BY <1>2, <1>5, <1>6, <1>14, <2>3 DEF LogOutcome
  <2>5. \/ mode = "result" /\ log' = [log EXCEPT ![Top] = "succeeded"]
        \/ mode = "error" /\ log' = [log EXCEPT ![Top] = "failed"]
    BY <1>14 DEF LogOutcome, Stands
  <2>6. LogsOut
    BY <1>14, <2>3, <2>4, <2>5 DEF LogOutcome, LogsOut
  <2>7. QED BY <1>2, <1>3, <1>5, <2>6
<1>15. QED BY <1>7, <1>8, <1>9, <1>10, <1>11, <1>12, <1>13, <1>14 DEF Move

(***************************************************************************)
(* How commands end.                                                       *)
(***************************************************************************)
LEMMA EndsFacts ==
    ASSUME IInv, OutcomeInv, NEW c \in Calls
    PROVE  /\ OnTop(c) => OnStack(c)
           /\ OnStack(c) => outcome[c] = "none"
           /\ ~ (EndsAs(c, "result") /\ EndsAs(c, "error"))
           /\ \A how \in {"result", "error"} :
                /\ OnStack(c) /\ EndsAs(c, how) => OnTop(c) /\ at[c] < UnitAt(c) /\ mode = how
                /\ ~ OnStack(c) /\ EndsAs(c, how) => outcome[c] = how
<1>1. OnTop(c) => OnStack(c)
  BY StackValues DEF OnTop, OnStack
<1>2. OnStack(c) => outcome[c] = "none"
  BY DEF OutcomeInv
<1>3. QED BY <1>1, <1>2 DEF EndsAs

\* No step takes back how a command ends.
KeepsEnds ==
    /\ \A d \in Calls, how \in {"result", "error"} :
         IsCommand(d) /\ EndsAs(d, how) => EndsAs(d, how)'
    /\ \A d \in Calls : Made(d) => request'[d] = request[d]
    /\ \A c \in Calls : Within(c) \subseteq Within(c)'

LEMMA SentKept ==
    ASSUME IInv, SenderInv, KeepsEnds, NEW c \in Calls, NEW how \in {"result", "error"},
           SentEndsAs(c, how)
    PROVE  SentEndsAs(c, how)'
<1>1. PICK d \in Within(c) : request[d].kind = "command" /\ EndsAs(d, how)
  BY DEF SentEndsAs
<1>2. d \in Calls /\ Made(d)
  BY WithinIsAbove
<1>3. d \in Within(c)' /\ request'[d] = request[d] /\ EndsAs(d, how)'
  BY <1>1, <1>2 DEF KeepsEnds, IsCommand
<1>4. QED BY <1>1, <1>3 DEF SentEndsAs

\* ... hence none takes back what became of the changes of a command that the
\* step does not itself save or forget.
LEMMA SavedKept ==
    ASSUME IInv, SenderInv, SavedInv, KeepsEnds, NEW c \in saved, c \in Calls, IsCommand(c)
    PROVE  EndsAs(c, "result")' \/ SentEndsAs(c, "result")'
BY SentKept DEF SavedInv, KeepsEnds

LEMMA DroppedKept ==
    ASSUME IInv, SenderInv, DroppedInv, KeepsEnds, NEW c \in forgotten \cup inDoubt, c \in Calls,
           IsCommand(c)
    PROVE  EndsAs(c, "error")' \/ SentEndsAs(c, "error")'
BY SentKept DEF DroppedInv, KeepsEnds

LEMMA MovesKeepEnds ==
    ASSUME IInv, OutcomeInv, Move
    PROVE  KeepsEnds /\ Top' = Top /\ \A c : OnTop(c)' <=> OnTop(c)
<1>1. /\ OnStack(Top) /\ OnTop(Top) /\ Made(Top) /\ Top \in Calls
      /\ at[Top] \in Nat /\ at'[Top] \in Nat
      /\ \A c \in Calls : c # Top => at'[c] = at[c]
      /\ UNCHANGED <<request, sender, stack, outcome>>
      /\ Quiet \/ Commits \/ Reverts \/ LogsIn \/ LogsOut
  BY MoveShapes
<1>2. Top' = Top /\ \A c : OnTop(c)' <=> OnTop(c)
  BY <1>1 DEF Top, OnTop
<1>3. ASSUME NEW d \in Calls, NEW how \in {"result", "error"}, IsCommand(d), EndsAs(d, how)
      PROVE  EndsAs(d, how)'
  <2>1. CASE outcome[d] = how
    BY <1>1, <2>1 DEF EndsAs
  <2>2. CASE OnTop(d) /\ at[d] < UnitAt(d) /\ mode = how
    <3>1. d = Top
      BY <2>2 DEF OnTop
    <3>2. at'[Top] < UnitAt(Top) /\ mode' = how
      <4>1. UnitAt(Top) \in {2, 3}
        BY DEF UnitAt
      <4>2. CASE Quiet
        BY <1>1, <1>3, <2>2, <3>1, <4>1, <4>2 DEF Quiet, Inside, Outside
      <4>3. CASE LogsOut
        BY <1>1, <2>2, <4>1, <4>3 DEF LogsOut
      <4>4. CASE Commits \/ Reverts \/ LogsIn
        BY <1>1, <2>2, <3>1, <4>1, <4>4 DEF Commits, Reverts, LogsIn
      <4>5. QED BY <1>1, <4>2, <4>3, <4>4
    <3>3. QED BY <1>2, <2>2, <3>1, <3>2 DEF EndsAs, UnitAt
  <2>3. QED BY <1>3, <2>1, <2>2 DEF EndsAs
<1>4. \A c \in Calls : Within(c)' = Within(c)
  BY <1>1 DEF Within
<1>5. QED BY <1>1, <1>2, <1>3, <1>4 DEF KeepsEnds

(***************************************************************************)
(* The steps, first the moves.                                             *)
(***************************************************************************)
LEMMA MoveActions ==
    ASSUME IInv, EndsInv, Move
    PROVE  EndsInv'
<1>1. /\ OnStack(Top) /\ OnTop(Top) /\ Made(Top) /\ Top \in Calls
      /\ at[Top] \in Nat /\ at'[Top] \in Nat
      /\ \A c \in Calls : c # Top => at'[c] = at[c]
      /\ UNCHANGED <<request, sender, stack, outcome>>
      /\ Quiet \/ Commits \/ Reverts \/ LogsIn \/ LogsOut
  BY MoveShapes
<1>2. /\ SenderInv /\ OutcomeInv /\ OpenInv /\ SavedInv /\ DroppedInv /\ LogInv
      /\ unsaved \cup saved \cup inDoubt \cup forgotten \subseteq Calls
      /\ log \in [Calls -> {"none", "executing", "succeeded", "failed"}]
  BY DEF EndsInv, IInv, TypeOK
<1>3. KeepsEnds /\ Top' = Top /\ \A c : OnTop(c)' <=> OnTop(c)
  BY <1>2, MovesKeepEnds
<1>4. UnitAt(Top) \in {2, 3} /\ \A c : UnitAt(c)' = UnitAt(c)
  BY DEF UnitAt
<1>5. \A c : (OnStack(c)' <=> OnStack(c)) /\ (Made(c)' <=> Made(c)) /\ (IsCommand(c)' <=> IsCommand(c))
  BY <1>1 DEF OnStack, Made, IsCommand
<1>6. SenderInv'
  BY <1>1, <1>2, <1>5 DEF SenderInv, Made
<1>7. /\ unsaved' \subseteq unsaved
      /\ saved' \subseteq saved \cup unsaved
      /\ inDoubt' \cup forgotten' \subseteq inDoubt \cup forgotten \cup unsaved
  BY <1>1 DEF Quiet, Commits, Reverts, LogsIn, LogsOut, scopeVars
<1>8. OutcomeInv'
  BY <1>1, <1>2, <1>5, <1>7 DEF OutcomeInv
<1>9. OpenInv'
  <2> SUFFICES ASSUME NEW c \in unsaved', IsCommand(c)
               PROVE  OnStack(c) /\ at'[c] >= UnitAt(c)
    BY <1>4, <1>5 DEF OpenInv
  <2>1. OnStack(c) /\ at[c] >= UnitAt(c) /\ c \in Calls
    BY <1>2, <1>7 DEF OpenInv
  <2>2. CASE c # Top
    BY <1>1, <2>1, <2>2
  <2>3. CASE c = Top
    <3>1. Quiet \/ LogsIn \/ LogsOut
      BY <1>1 DEF Commits, Reverts
    <3>2. CASE Quiet
      BY <1>1, <1>4, <2>1, <2>3, <3>2 DEF Quiet, Inside, Outside
    <3>3. CASE LogsIn \/ LogsOut
      BY <1>1, <1>4, <2>1, <2>3, <3>3 DEF LogsIn, LogsOut
    <3>4. QED BY <3>1, <3>2, <3>3
  <2>4. QED BY <2>2, <2>3
<1>10. ASSUME Commits
       PROVE  EndsAs(Top, "result")' /\ IsCommand(Top)
  BY <1>1, <1>3, <1>4, <1>10 DEF Commits, EndsAs
<1>11. ASSUME Reverts
       PROVE  EndsAs(Top, "error")' /\ IsCommand(Top)
  BY <1>1, <1>3, <1>4, <1>11 DEF Reverts, EndsAs
<1>12. ASSUME NEW c \in unsaved, IsCommand(c), NEW how \in {"result", "error"},
              EndsAs(Top, how)', IsCommand(Top)
       PROVE  EndsAs(c, how)' \/ SentEndsAs(c, how)'
  <2>1. c \in Calls /\ OnStack(c)
    BY <1>2, <1>12 DEF OpenInv
  <2>2. CASE c = Top
    BY <1>3, <1>12, <2>2 DEF EndsAs
  <2>3. CASE c # Top
    <3>1. Top \in Within(c)
      BY <1>2, <2>1, <2>3, Nested DEF OnTop
    <3>2. Top \in Within(c)' /\ request'[Top].kind = "command"
      BY <1>1, <1>12, <2>1, <3>1, <1>3 DEF KeepsEnds, IsCommand
    <3>3. Top' = Top
      BY <1>3
    <3>4. QED BY <1>12, <3>2, <3>3 DEF SentEndsAs
  <2>4. QED BY <2>2, <2>3
<1>13. SavedInv'
  <2> SUFFICES ASSUME NEW c \in saved', IsCommand(c)
               PROVE  EndsAs(c, "result")' \/ SentEndsAs(c, "result")'
    BY <1>5 DEF SavedInv
  <2>1. CASE c \in saved
    BY <1>2, <1>3, <2>1, SavedKept
  <2>2. CASE c \notin saved
    <3>1. Commits /\ c \in unsaved
      BY <1>1, <2>2 DEF Quiet, Commits, Reverts, LogsIn, LogsOut, scopeVars
    <3>2. QED BY <1>10, <1>12, <3>1
  <2>3. QED BY <2>1, <2>2
<1>14. DroppedInv'
  <2> SUFFICES ASSUME NEW c \in (forgotten \cup inDoubt)', IsCommand(c)
               PROVE  EndsAs(c, "error")' \/ SentEndsAs(c, "error")'
    BY <1>5 DEF DroppedInv
  <2>1. CASE c \in forgotten \cup inDoubt
    BY <1>2, <1>3, <2>1, DroppedKept
  <2>2. CASE c \notin forgotten \cup inDoubt
    <3>1. Reverts /\ c \in unsaved
      BY <1>1, <2>2 DEF Quiet, Commits, Reverts, LogsIn, LogsOut, scopeVars
    <3>2. QED BY <1>11, <1>12, <3>1
  <2>3. QED BY <2>1, <2>2
<1>15. LogInv'
  <2>1. \A c \in Calls : c # Top => log'[c] = log[c]
    BY <1>1, <1>2 DEF Quiet, Commits, Reverts, LogsIn, LogsOut
  <2>2. ASSUME NEW c \in Calls, log'[c] # "none" PROVE IsCommand(c)
    <3>1. CASE log[c] # "none"
      BY <1>2, <3>1 DEF LogInv
    <3>2. CASE log[c] = "none"
      BY <1>1, <2>1, <2>2, <3>2 DEF Quiet, Commits, Reverts, LogsIn, LogsOut
    <3>3. QED BY <3>1, <3>2
  <2>3. ASSUME NEW c \in Calls, log'[c] = "executing"
        PROVE  OnStack(c) /\ at'[c] >= UnitAt(c) - 1
    <3>1. CASE c # Top
      BY <1>1, <1>2, <2>1, <2>3, <3>1 DEF LogInv
    <3>2. CASE c = Top
      <4>1. CASE Quiet \/ Commits \/ Reverts
        <5>1. log[c] = "executing" /\ at[c] >= UnitAt(c) - 1 /\ IsCommand(c)
          BY <1>2, <2>3, <4>1 DEF LogInv, Quiet, Commits, Reverts
        <5>2. at'[c] >= UnitAt(c) - 1
          BY <1>1, <1>4, <3>2, <4>1, <5>1 DEF Quiet, Commits, Reverts, Inside, Outside
        <5>3. QED BY <1>1, <3>2, <5>2
      <4>2. CASE LogsIn
        BY <1>1, <1>4, <3>2, <4>2 DEF LogsIn
      <4>3. CASE LogsOut
        BY <1>1, <1>2, <2>3, <3>2, <4>3 DEF LogsOut
      <4>4. QED BY <1>1, <4>1, <4>2, <4>3
    <3>3. QED BY <3>1, <3>2
  <2>4. ASSUME NEW c \in Calls, NEW how \in {"result", "error"}, NEW l \in {"succeeded", "failed"},
               how = "result" <=> l = "succeeded", log'[c] = l
        PROVE  EndsAs(c, how)'
    <3>1. CASE log[c] = l
      <4>1. IsCommand(c) /\ EndsAs(c, how)
        BY <1>2, <2>4, <3>1 DEF LogInv
      <4>2. QED BY <1>3, <4>1 DEF KeepsEnds
    <3>2. CASE log[c] # l
      <4>1. LogsOut /\ c = Top /\ mode = how
        BY <1>1, <1>2, <2>1, <2>4, <3>2 DEF Quiet, Commits, Reverts, LogsIn, LogsOut
      <4>2. at'[c] < UnitAt(c) /\ mode' = how
        BY <1>1, <1>4, <4>1 DEF LogsOut
      <4>3. QED BY <1>1, <1>3, <1>4, <4>1, <4>2 DEF EndsAs
    <3>3. QED BY <3>1, <3>2
  <2>5. ASSUME NEW c \in Calls, IsCommand(c), log'[c] = "none"
        PROVE  EndsAs(c, "error")' \/ (OnTop(c) /\ mode' = "in" /\ at'[c] <= UnitAt(c) - 1)
    <3>1. log[c] = "none"
      BY <1>1, <1>2, <2>1, <2>5 DEF Quiet, Commits, Reverts, LogsIn, LogsOut
    <3>2. EndsAs(c, "error") \/ (OnTop(c) /\ mode = "in" /\ at[c] <= UnitAt(c) - 1)
      BY <1>2, <2>5, <3>1 DEF LogInv
    <3>3. CASE EndsAs(c, "error")
      BY <1>3, <2>5, <3>3 DEF KeepsEnds
    <3>4. CASE OnTop(c) /\ mode = "in" /\ at[c] <= UnitAt(c) - 1
      <4>1. c = Top
        BY <3>4 DEF OnTop
      <4>2. Quiet
        BY <1>1, <1>2, <1>4, <2>5, <3>4, <4>1 DEF Commits, Reverts, LogsIn, LogsOut
      <4>3. at'[c] < UnitAt(c) /\ (mode' = "in" \/ mode' = "error")
        BY <1>1, <1>4, <2>5, <3>4, <4>1, <4>2 DEF Quiet, Inside, Outside
      <4>4. CASE mode' = "in"
        <5>1. at'[c] <= UnitAt(c) - 1
          BY <1>1, <1>4, <4>1, <4>3
        <5>2. QED BY <3>4, <4>4, <5>1
      <4>5. CASE mode' = "error"
        BY <1>1, <1>3, <1>4, <3>4, <4>3, <4>5 DEF EndsAs
      <4>6. QED BY <4>3, <4>4, <4>5
    <3>5. QED BY <3>2, <3>3, <3>4
  <2>6. QED BY <1>3, <1>4, <1>5, <2>2, <2>3, <2>4, <2>5 DEF LogInv
<1>16. QED BY <1>6, <1>8, <1>9, <1>13, <1>14, <1>15 DEF EndsInv

LEMMA WithinGrows ==
    ASSUME TypeOK, SenderInv, TypeOK', SenderInv', NEW c \in Calls,
           \A d \in Calls : Made(d) => sender'[d] = sender[d] /\ request'[d] = request[d]
    PROVE  Within(c) \subseteq Within(c)'
<1>1. /\ Within(c) \subseteq Calls
      /\ \A d \in Calls : Made(d) => (d \in Within(c) <=> sender[d] = c \/ sender[d] \in Within(c))
      /\ \A d \in Within(c) : Made(d)
  BY WithinFacts
<1>2. \A d \in Calls : Made(d)' =>
        (d \in Within(c)' <=> sender'[d] = c \/ sender'[d] \in Within(c)')
  <2>1. Senders(sender')
    BY DEF Senders, TypeOK, SenderInv
  <2>2. Within(c)' = WithinOf(c, sender', request')
    BY DEF Within, WithinOf
  <2>3. ASSUME NEW d \in Calls, request'[d] # NoRequest, sender'[d] # 0
        PROVE  request'[sender'[d]] # NoRequest
    <3>1. sender'[d] < d /\ sender'[d] \in Calls
      BY <2>3, PipelineAssumption DEF TypeOK, SenderInv, Calls
    <3>2. QED BY <2>3, <3>1 DEF SenderInv, Made
  <2>4. QED BY <2>1, <2>2, <2>3, WithinUnfolds DEF Made
<1>3. HandsOn(Within(c), Within(c)', sender, c)
  <2>1. Calls \subseteq Nat
    BY DEF Calls
  <2>2. \A d \in Calls : sender[d] \in Nat /\ sender[d] < d
    BY PipelineAssumption DEF TypeOK, SenderInv
  <2>3. \A d \in Within(c) : sender[d] = c \/ sender[d] \in Within(c)' => d \in Within(c)'
    BY <1>1, <1>2 DEF Made
  <2>4. QED BY <1>1, <2>1, <2>2, <2>3 DEF HandsOn
<1>4. QED BY <1>3, Descend

LEMMA MakesCall ==
    ASSUME IInv, EndsInv, TypeOK', NEW c \in Calls, NEW q \in Request, ~ Made(c), Calling(c, q),
           \A d \in 1..(c - 1) : Made(d),
           stack # <<>> => Waits(Top)
    PROVE  EndsInv'
<1> DEFINE n == Len(stack)
<1>1. /\ SenderInv /\ OutcomeInv /\ OpenInv /\ SavedInv /\ DroppedInv /\ LogInv
      /\ unsaved \cup saved \cup inDoubt \cup forgotten \subseteq Calls
      /\ n \in Nat /\ stack \in Seq(Calls) /\ \A i \in 1..n : stack[i] \in Calls
      /\ stack # <<>> => OnTop(Top) /\ OnStack(Top) /\ Top = stack[n] /\ Top \in Calls /\ n \in 1..n
  BY StackValues DEF EndsInv, IInv, TypeOK, OnTop, OnStack
<1>2. /\ UNCHANGED <<scopeVars, log, outcome>>
      /\ request'[c] = q /\ at'[c] = 1 /\ mode' = "in"
      /\ sender'[c] = IF stack = <<>> THEN 0 ELSE Top
      /\ \A d \in Calls : d # c => /\ request'[d] = request[d]
                                   /\ sender'[d] = sender[d]
                                   /\ at'[d] = at[d]
  BY DEF Calling, scopeVars, IInv, TypeOK
<1>3. /\ Len(stack') = n + 1 /\ stack'[n + 1] = c /\ stack' # <<>>
      /\ \A i \in 1..n : stack'[i] = stack[i]
      /\ \A i \in 1..(n + 1) : i = n + 1 \/ i \in 1..n
  <2>1. stack' = Append(stack, c)
    BY DEF Calling
  <2>2. QED BY <1>1, <2>1, AppendProperties
<1>4. Top' = c /\ (\A d : OnTop(d)' <=> d = c) /\ \A d : UnitAt(d)' = UnitAt(d)
  BY <1>3 DEF Top, Last, OnTop, UnitAt
<1>5. \A d : OnStack(d)' <=> OnStack(d) \/ d = c
  <2>1. \A d : OnStack(d)' <=> \E i \in 1..(n + 1) : stack'[i] = d
    BY <1>3 DEF OnStack
  <2>2. n + 1 \in 1..(n + 1) /\ \A i \in 1..n : i \in 1..(n + 1)
    BY <1>1
  <2>3. QED BY <1>3, <2>1, <2>2 DEF OnStack
<1>6. /\ \A d \in Calls : Made(d) => d # c /\ Made(d)' /\ (IsCommand(d)' <=> IsCommand(d))
      /\ \A d \in Calls : d # c => (Made(d)' <=> Made(d)) /\ (IsCommand(d)' <=> IsCommand(d))
      /\ Made(c)'
  BY <1>2, PipelineAssumption DEF Made, IsCommand
<1>7. \A d \in Calls : OnStack(d) => Made(d)
  BY Waiting
<1>8. SenderInv'
  <2>1. sender'[c] < c
    <3>1. CASE stack = <<>>
      BY <1>2, <3>1 DEF Calls
    <3>2. CASE stack # <<>>
      <4>1. Made(Top) /\ Top # c /\ Top \in Nat /\ c \in Nat
        BY <1>1, <1>6, <1>7, <3>2 DEF Calls
      <4>2. ~ (c < Top)
        BY <1>1, <3>2, <4>1 DEF SenderInv
      <4>3. QED BY <1>2, <3>2, <4>1, <4>2
    <3>3. QED BY <3>1, <3>2
  <2>2. \A d \in Calls : sender'[d] < d
    BY <1>1, <1>2, <2>1 DEF SenderInv
  <2>3. ASSUME NEW d \in Calls, NEW e \in Calls, Made(d)', e < d
        PROVE  Made(e)'
    <3>1. CASE d = c
      <4>1. e \in 1..(c - 1)
        BY <2>3, <3>1 DEF Calls
      <4>2. QED BY <1>6, <4>1
    <3>2. CASE d # c
      BY <1>1, <1>6, <2>3, <3>2 DEF SenderInv
    <3>3. QED BY <3>1, <3>2
  <2>4. sender'[stack'[1]] = 0
    <3>1. CASE stack = <<>>
      BY <1>2, <1>3, <3>1
    <3>2. CASE stack # <<>>
      <4>1. 1 \in 1..n /\ stack'[1] = stack[1] /\ sender[stack[1]] = 0
        BY <1>1, <1>3, <3>2 DEF SenderInv
      <4>2. OnStack(stack[1]) /\ stack[1] \in Calls
        BY <1>1, <4>1 DEF OnStack
      <4>3. QED BY <1>2, <1>6, <1>7, <4>1, <4>2
    <3>3. QED BY <3>1, <3>2
  <2>5. ASSUME NEW i \in 1..(Len(stack') - 1) PROVE sender'[stack'[i + 1]] = stack'[i]
    <3>1. i \in 1..n /\ stack'[i] = stack[i] /\ stack # <<>>
      BY <1>1, <1>3
    <3>2. CASE i = n
      BY <1>1, <1>2, <1>3, <3>1, <3>2
    <3>3. CASE i # n
      <4>1. i \in 1..(n - 1) /\ i + 1 \in 1..n
        BY <1>1, <3>1, <3>3
      <4>2. stack'[i + 1] = stack[i + 1] /\ sender[stack[i + 1]] = stack[i]
        BY <1>1, <1>3, <4>1 DEF SenderInv
      <4>3. OnStack(stack[i + 1]) /\ stack[i + 1] \in Calls
        BY <1>1, <4>1 DEF OnStack
      <4>4. QED BY <1>2, <1>6, <1>7, <3>1, <4>2, <4>3
    <3>4. QED BY <3>2, <3>3
  <2>6. QED BY <2>2, <2>3, <2>4, <2>5 DEF SenderInv
<1>9. KeepsEnds
  <2>1. ASSUME NEW d \in Calls, NEW how \in {"result", "error"}, IsCommand(d), EndsAs(d, how)
        PROVE  EndsAs(d, how)'
    <3>1. OnTop(d) => at[d] = UnitAt(d) + 3 \/ at[d] = UnitAt(d)
      BY <1>1, <2>1, WaitingPlaces DEF OnTop
    <3>2. ~ (OnTop(d) /\ at[d] < UnitAt(d))
      BY <3>1 DEF UnitAt
    <3>3. outcome[d] = how
      BY <2>1, <3>2 DEF EndsAs
    <3>4. QED BY <1>2, <3>3 DEF EndsAs
  <2>2. \A d \in Calls : Made(d) => sender'[d] = sender[d] /\ request'[d] = request[d]
    BY <1>2
  <2>3. \A d \in Calls : Within(d) \subseteq Within(d)'
    BY <1>1, <1>8, <2>2, WithinGrows DEF IInv
  <2>4. QED BY <2>1, <2>2, <2>3 DEF KeepsEnds
<1>10. OutcomeInv'
  BY <1>1, <1>2, <1>5, <1>6 DEF OutcomeInv, scopeVars
<1>11. OpenInv'
  <2> SUFFICES ASSUME NEW d \in unsaved, IsCommand(d)'
               PROVE  OnStack(d)' /\ at'[d] >= UnitAt(d)
    BY <1>2, <1>4 DEF OpenInv, scopeVars
  <2>1. d \in Calls /\ Made(d)
    BY <1>1 DEF OutcomeInv
  <2>2. QED BY <1>1, <1>2, <1>5, <1>6, <2>1 DEF OpenInv
<1>12. SavedInv'
  <2> SUFFICES ASSUME NEW d \in saved, IsCommand(d)'
               PROVE  EndsAs(d, "result")' \/ SentEndsAs(d, "result")'
    BY <1>2 DEF SavedInv, scopeVars
  <2>1. d \in Calls /\ Made(d) /\ IsCommand(d)
    BY <1>1, <1>6 DEF OutcomeInv
  <2>2. QED BY <1>1, <1>9, <2>1, SavedKept
<1>13. DroppedInv'
  <2> SUFFICES ASSUME NEW d \in forgotten \cup inDoubt, IsCommand(d)'
               PROVE  EndsAs(d, "error")' \/ SentEndsAs(d, "error")'
    BY <1>2 DEF DroppedInv, scopeVars
  <2>1. d \in Calls /\ Made(d) /\ IsCommand(d)
    BY <1>1, <1>6 DEF OutcomeInv
  <2>2. QED BY <1>1, <1>9, <2>1, DroppedKept
<1>14. LogInv'
  <2>1. log[c] = "none"
    BY <1>1 DEF LogInv, IsCommand
  <2>2. \A d \in Calls : log[d] # "none" => IsCommand(d)'
    BY <1>1, <1>6 DEF LogInv, IsCommand
  <2>3. ASSUME NEW d \in Calls, log[d] = "executing" PROVE OnStack(d)' /\ at'[d] >= UnitAt(d) - 1
    BY <1>1, <1>2, <1>5, <2>1, <2>3 DEF LogInv
  <2>4. ASSUME NEW d \in Calls
        PROVE  /\ log[d] = "succeeded" => EndsAs(d, "result")'
               /\ log[d] = "failed" => EndsAs(d, "error")'
    BY <1>1, <1>9 DEF LogInv, KeepsEnds
  <2>5. ASSUME NEW d \in Calls, IsCommand(d)', log[d] = "none"
        PROVE  EndsAs(d, "error")' \/ (OnTop(d)' /\ mode' = "in" /\ at'[d] <= UnitAt(d) - 1)
    <3>1. CASE d = c
      BY <1>2, <1>4, <3>1 DEF UnitAt
    <3>2. CASE d # c
      <4>1. IsCommand(d)
        BY <1>6, <2>5, <3>2
      <4>2. ~ (OnTop(d) /\ at[d] <= UnitAt(d) - 1)
        <5>1. OnTop(d) => at[d] = UnitAt(d) + 3 \/ at[d] = UnitAt(d)
          BY <1>1, <4>1, WaitingPlaces DEF OnTop
        <5>2. QED BY <5>1 DEF UnitAt
      <4>3. EndsAs(d, "error")
        BY <1>1, <2>5, <4>1, <4>2 DEF LogInv
      <4>4. QED BY <1>9, <4>1, <4>3 DEF KeepsEnds
    <3>3. QED BY <3>1, <3>2
  <2>6. QED BY <1>2, <1>4, <2>2, <2>3, <2>4, <2>5 DEF LogInv
<1>15. QED BY <1>8, <1>10, <1>11, <1>12, <1>13, <1>14 DEF EndsInv

LEMMA CallsKeep ==
    ASSUME IInv, EndsInv, IInv', Execute \/ HandlerSends
    PROVE  EndsInv'
<1>1. CASE Execute
  <2>1. PICK q \in Request : Calling(1, q)
    BY <1>1 DEF Execute, RequestsOf
  <2>2. /\ stack = <<>> /\ ~ Made(1) /\ 1 \in Calls /\ \A d \in 1..(1 - 1) : Made(d)
    BY <1>1, PipelineAssumption DEF Execute, IInv, StackInv, Made, Calls
  <2>3. QED BY <2>1, <2>2, MakesCall DEF IInv
<1>2. CASE HandlerSends
  <2>1. PICK c \in Calls, q \in Request :
          request[c] = NoRequest /\ (\A d \in 1..(c - 1) : request[d] # NoRequest) /\ Calling(c, q)
    BY <1>2 DEF HandlerSends, RequestsOf
  <2>2. Waits(Top)
    BY <1>2, AtCode DEF HandlerSends
  <2>3. QED BY <2>1, <2>2, MakesCall DEF IInv, Made
<1>3. QED BY <1>1, <1>2

LEMMA ReturnsKeep ==
    ASSUME IInv, EndsInv, ExecuteEnds \/ HandlerGoesOn \/ HandlerFailsToo
    PROVE  EndsInv'
<1> DEFINE n == Len(stack)
<1>1. /\ SenderInv /\ OutcomeInv /\ OpenInv /\ SavedInv /\ DroppedInv /\ LogInv
      /\ unsaved \cup saved \cup inDoubt \cup forgotten \subseteq Calls
  BY DEF EndsInv, IInv, TypeOK
<1>2. /\ stack # <<>> /\ at[Top] = 0 /\ mode # "in"
      /\ n \in 1..n /\ Top = stack[n] /\ Top \in Calls /\ n \in Nat /\ stack \in Seq(Calls)
      /\ OnTop(Top) /\ OnStack(Top) /\ Made(Top)
  <2>1. stack # <<>> /\ at[Top] = 0 /\ mode # "in"
    BY DEF ExecuteEnds, HandlerGoesOn, HandlerFailsToo, CallEnds, Ends
  <2>2. n \in 1..n /\ Top = stack[n] /\ Top \in Calls /\ n \in Nat /\ stack \in Seq(Calls)
    BY <2>1, StackValues DEF IInv, TypeOK
  <2>3. OnTop(Top) /\ OnStack(Top)
    BY <2>1, <2>2 DEF OnTop, OnStack
  <2>4. QED BY <2>1, <2>2, <2>3, Waiting
<1>3. /\ UNCHANGED <<request, sender, saved, inDoubt, log>>
      /\ forgotten' \subseteq forgotten \cup unsaved
      /\ outcome'[Top] = mode
      /\ \A d \in Calls : d # Top => outcome'[d] = outcome[d]
  BY <1>2 DEF ExecuteEnds, HandlerGoesOn, HandlerFailsToo, CallEnds, scopeVars, IInv, TypeOK
<1>4. /\ Len(stack') = n - 1 /\ \A i \in 1..(n - 1) : stack'[i] = stack[i]
      /\ \A i \in 1..(n - 1) : i \in 1..n /\ i # n
      /\ \A i \in 1..n : i = n \/ i \in 1..(n - 1)
  <2>1. CASE ExecuteEnds
    BY <1>2, <2>1 DEF ExecuteEnds
  <2>2. CASE HandlerGoesOn \/ HandlerFailsToo
    <3>1. stack' = Front(stack) /\ n > 1
      BY <2>2 DEF HandlerGoesOn, HandlerFailsToo, CallEnds
    <3>2. QED BY <1>2, <3>1 DEF Front
  <2>3. QED BY <2>1, <2>2
<1>5. \A d : OnStack(d)' <=> OnStack(d) /\ d # Top
  <2>1. \A i, j \in 1..n : stack[i] = stack[j] => i = j
    BY DEF IInv, StackInv
  <2>2. QED BY <1>2, <1>4, <2>1 DEF OnStack
<1>6. \A d \in Calls : OnStack(d) /\ d # Top /\ IsCommand(d) => at'[d] >= UnitAt(d)
  <2> SUFFICES ASSUME NEW d \in Calls, OnStack(d), d # Top, IsCommand(d)
               PROVE  at'[d] >= UnitAt(d)
    OBVIOUS
  <2>1. \/ at[d] = UnitAt(d) + 3
        \/ at[d] = UnitAt(d) /\ ChainOf(d, request[d])[at[d]] = "UnitOfWork"
    BY Waiting, WaitingPlaces DEF OnTop
  <2>2. \/ at'[d] = at[d]
        \/ at'[d] = at[d] - 1 /\ d = Caller /\ SentByHandler
    <3>1. at' = at \/ (at' = [at EXCEPT ![Caller] = @ - 1] /\ SentByHandler)
      BY DEF ExecuteEnds, HandlerGoesOn, HandlerFailsToo
    <3>2. QED BY <3>1 DEF IInv, TypeOK
  <2>3. ASSUME d = Caller, SentByHandler PROVE at[d] = UnitAt(d) + 3
    BY <2>1, <2>3 DEF SentByHandler, Chain, ChainOf
  <2>4. QED BY <2>1, <2>2, <2>3 DEF UnitAt
<1>7. \A d : (Made(d)' <=> Made(d)) /\ (IsCommand(d)' <=> IsCommand(d)) /\ UnitAt(d)' = UnitAt(d)
  BY <1>3 DEF Made, IsCommand, UnitAt
<1>8. KeepsEnds
  <2>1. ASSUME NEW d \in Calls, NEW how \in {"result", "error"}, EndsAs(d, how)
        PROVE  EndsAs(d, how)'
    <3>1. outcome'[d] = how
      <4>1. CASE d = Top
        BY <1>1, <1>2, <1>3, <2>1, <4>1, EndsFacts
      <4>2. CASE d # Top
        BY <1>3, <2>1, <4>2 DEF EndsAs, OnTop
      <4>3. QED BY <4>1, <4>2
    <3>2. QED BY <3>1 DEF EndsAs
  <2>2. \A d \in Calls : Within(d)' = Within(d)
    BY <1>3 DEF Within
  <2>3. QED BY <1>3, <2>1, <2>2 DEF KeepsEnds
<1>9. SenderInv'
  <2>1. stack' # <<>> => 1 \in 1..(n - 1)
    <3>1. stack' \in Seq(Calls)
      <4>1. CASE ExecuteEnds
        BY <4>1 DEF ExecuteEnds
      <4>2. CASE HandlerGoesOn \/ HandlerFailsToo
        <5>1. stack' = Front(stack) /\ n > 1
          BY <4>2 DEF HandlerGoesOn, HandlerFailsToo, CallEnds
        <5>2. QED BY <1>2, <5>1 DEF Front
      <4>3. QED BY <4>1, <4>2
    <3>2. QED BY <1>2, <1>4, <3>1
  <2>2. ASSUME NEW i \in 1..(Len(stack') - 1) PROVE sender'[stack'[i + 1]] = stack'[i]
    <3>1. i \in 1..(n - 1) /\ i + 1 \in 1..(n - 1)
      BY <1>2, <1>4
    <3>2. QED BY <1>1, <1>3, <1>4, <3>1 DEF SenderInv
  <2>3. QED BY <1>1, <1>2, <1>3, <1>4, <1>7, <2>1, <2>2 DEF SenderInv
<1>10. unsaved' \subseteq unsaved /\ \A c \in unsaved : IsCommand(c) => c \in unsaved'
  <2>1. CASE ExecuteEnds
    <3>1. ASSUME NEW c \in unsaved, IsCommand(c) PROVE FALSE
      <4>1. OnStack(c) /\ at[c] >= UnitAt(c)
        BY <1>1, <3>1 DEF OpenInv
      <4>2. n = 1
        BY <2>1 DEF ExecuteEnds
      <4>3. c = Top
        BY <1>2, <4>1, <4>2 DEF OnStack
      <4>4. QED BY <1>2, <4>1, <4>3 DEF UnitAt
    <3>2. QED BY <2>1, <3>1 DEF ExecuteEnds
  <2>2. CASE HandlerGoesOn \/ HandlerFailsToo
    BY <2>2 DEF HandlerGoesOn, HandlerFailsToo, CallEnds, scopeVars
  <2>3. QED BY <2>1, <2>2
<1>11. OutcomeInv'
  <2>1. ASSUME NEW c \in Calls, outcome'[c] # "none" PROVE Made(c) /\ ~ OnStack(c)'
    <3>1. CASE c = Top
      BY <1>2, <1>5, <3>1
    <3>2. CASE c # Top
      BY <1>1, <1>3, <1>5, <2>1, <3>2 DEF OutcomeInv
    <3>3. QED BY <3>1, <3>2
  <2>2. QED BY <1>1, <1>3, <1>7, <1>10, <2>1 DEF OutcomeInv
<1>12. OpenInv'
  <2> SUFFICES ASSUME NEW c \in unsaved', IsCommand(c)
               PROVE  OnStack(c)' /\ at'[c] >= UnitAt(c)
    BY <1>7 DEF OpenInv
  <2>1. c \in Calls /\ OnStack(c) /\ at[c] >= UnitAt(c)
    BY <1>1, <1>10 DEF OpenInv
  <2>2. c # Top
    BY <1>2, <2>1 DEF UnitAt
  <2>3. QED BY <1>5, <1>6, <2>1, <2>2
<1>13. SavedInv'
  BY <1>1, <1>3, <1>7, <1>8, SavedKept DEF SavedInv
<1>14. DroppedInv'
  <2> SUFFICES ASSUME NEW c \in (forgotten \cup inDoubt)', IsCommand(c)
               PROVE  EndsAs(c, "error")' \/ SentEndsAs(c, "error")'
    BY <1>7 DEF DroppedInv
  <2>1. c \in forgotten \cup inDoubt /\ c \in Calls
    <3>1. c \in unsaved => c \in unsaved'
      BY <1>10
    <3>2. c \in forgotten' /\ c \notin forgotten => unsaved' = {}
      BY DEF ExecuteEnds, HandlerGoesOn, HandlerFailsToo, CallEnds, scopeVars
    <3>3. QED BY <1>1, <1>3, <3>1, <3>2
  <2>2. QED BY <1>1, <1>8, <2>1, DroppedKept
<1>15. LogInv'
  <2>1. ASSUME NEW c \in Calls, log[c] = "executing" PROVE OnStack(c)' /\ at'[c] >= UnitAt(c) - 1
    <3>1. OnStack(c) /\ at[c] >= UnitAt(c) - 1 /\ IsCommand(c)
      BY <1>1, <2>1 DEF LogInv
    <3>2. c # Top
      BY <1>2, <3>1 DEF UnitAt
    <3>3. OnStack(c)' /\ at'[c] >= UnitAt(c)
      BY <1>5, <1>6, <3>1, <3>2
    <3>4. at'[c] >= UnitAt(c) - 1
      <4>1. at'[c] = at[c] \/ at'[c] = at[c] - 1
        <5>1. at' = at \/ at' = [at EXCEPT ![Caller] = @ - 1]
          BY DEF ExecuteEnds, HandlerGoesOn, HandlerFailsToo
        <5>2. QED BY <5>1 DEF IInv, TypeOK
      <4>2. at[c] \in Nat
        BY DEF IInv, TypeOK
      <4>3. QED BY <3>3, <4>1, <4>2 DEF UnitAt
    <3>5. QED BY <3>3, <3>4
  <2>2. ASSUME NEW c \in Calls
        PROVE  /\ log[c] # "none" => IsCommand(c)
               /\ log[c] = "succeeded" => EndsAs(c, "result")'
               /\ log[c] = "failed" => EndsAs(c, "error")'
    BY <1>1, <1>8 DEF LogInv, KeepsEnds
  <2>3. ASSUME NEW c \in Calls, IsCommand(c), log[c] = "none" PROVE EndsAs(c, "error")'
    BY <1>1, <1>2, <1>8, <2>3 DEF LogInv, KeepsEnds
  <2>4. QED BY <1>3, <1>7, <2>1, <2>2, <2>3 DEF LogInv
<1>16. QED BY <1>9, <1>11, <1>12, <1>13, <1>14, <1>15 DEF EndsInv

LEMMA OthersKeep ==
    ASSUME IInv, EndsInv, HandlerChanges \/ HandlerSaves \/ AccountChanges \/ UNCHANGED vars
    PROVE  EndsInv'
<1>1. /\ SenderInv /\ OutcomeInv /\ OpenInv /\ SavedInv /\ DroppedInv /\ LogInv
      /\ unsaved \cup saved \cup inDoubt \cup forgotten \subseteq Calls
  BY DEF EndsInv, IInv, TypeOK
<1>2. UNCHANGED <<request, sender, stack, at, mode, saved, inDoubt, forgotten, log, outcome>>
  BY DEF HandlerChanges, HandlerSaves, AccountChanges, vars, scopeVars
<1>3. \/ unsaved' \subseteq unsaved
      \/ /\ unsaved' = unsaved \cup {Top}
         /\ OnStack(Top) /\ Made(Top) /\ Top \in Calls
         /\ IsCommand(Top) => at[Top] = UnitAt(Top) + 3 \/ at[Top] = UnitAt(Top)
  <2>1. CASE HandlerChanges \/ HandlerSaves
    <3>1. Stands({"Handler"}, "in") \/ Stands({"UnitOfWork"}, "result")
      BY <2>1 DEF HandlerChanges, HandlerSaves, CodeRuns
    <3>2. OnStack(Top) /\ Made(Top) /\ Top \in Calls /\ Waits(Top)
      BY <2>1, <3>1, TopPlace, AtCode DEF HandlerChanges, HandlerSaves
    <3>3. unsaved' = {} \/ unsaved' = unsaved \cup {Top}
      BY <2>1 DEF HandlerChanges, HandlerSaves
    <3>4. QED BY <3>2, <3>3, WaitingPlaces
  <2>2. CASE AccountChanges \/ UNCHANGED vars
    BY <2>2 DEF AccountChanges, vars, scopeVars
  <2>3. QED BY <2>1, <2>2
<1>4. \A d : /\ Made(d)' <=> Made(d)
             /\ IsCommand(d)' <=> IsCommand(d)
             /\ OnStack(d)' <=> OnStack(d)
             /\ OnTop(d)' <=> OnTop(d)
             /\ UnitAt(d)' = UnitAt(d)
             /\ Within(d)' = Within(d)
             /\ \A how : EndsAs(d, how)' <=> EndsAs(d, how)
  BY <1>2 DEF Made, IsCommand, OnStack, OnTop, Top, UnitAt, Within, EndsAs
<1>5. KeepsEnds
  BY <1>2, <1>4 DEF KeepsEnds
<1>6. SenderInv'
  BY <1>1, <1>2, <1>4 DEF SenderInv, Made
<1>7. OutcomeInv'
  BY <1>1, <1>2, <1>3, <1>4 DEF OutcomeInv
<1>8. OpenInv'
  <2> SUFFICES ASSUME NEW c \in unsaved', IsCommand(c) PROVE OnStack(c) /\ at[c] >= UnitAt(c)
    BY <1>2, <1>4 DEF OpenInv
  <2>1. CASE c \in unsaved
    BY <1>1, <2>1 DEF OpenInv
  <2>2. CASE c \notin unsaved
    BY <1>3, <2>2 DEF UnitAt
  <2>3. QED BY <2>1, <2>2
<1>9. SavedInv'
  BY <1>1, <1>2, <1>4, <1>5, SavedKept DEF SavedInv
<1>10. DroppedInv'
  BY <1>1, <1>2, <1>4, <1>5, DroppedKept DEF DroppedInv
<1>11. LogInv'
  BY <1>1, <1>2, <1>4 DEF LogInv
<1>12. QED BY <1>6, <1>7, <1>8, <1>9, <1>10, <1>11 DEF EndsInv

LEMMA InitEnds == Init => EndsInv
<1> SUFFICES ASSUME Init PROVE EndsInv
  OBVIOUS
<1>1. \A c \in Calls : ~ Made(c) /\ sender[c] = 0 /\ c > 0 /\ log[c] = "none" /\ outcome[c] = "none"
  BY DEF Init, Made, Calls
<1>2. stack = <<>> /\ Len(stack) = 0 /\ unsaved = {} /\ saved = {} /\ inDoubt = {} /\ forgotten = {}
  BY DEF Init
<1>3. SenderInv
  BY <1>1, <1>2 DEF SenderInv
<1>4. OutcomeInv /\ OpenInv /\ SavedInv /\ DroppedInv
  BY <1>1, <1>2 DEF OutcomeInv, OpenInv, SavedInv, DroppedInv
<1>5. LogInv
  BY <1>1 DEF LogInv, IsCommand
<1>6. QED BY <1>3, <1>4, <1>5 DEF EndsInv

\* Both invariants hold at the start and every step of the scope keeps them.
THEOREM EndsInductive == Spec => [](IInv /\ EndsInv)
<1>1. IInv /\ EndsInv /\ [Next]_vars => (IInv /\ EndsInv)'
  <2> SUFFICES ASSUME IInv, EndsInv, [Next]_vars PROVE IInv' /\ EndsInv'
    OBVIOUS
  <2>1. IInv'
    BY PipelineStep
  <2>2. CASE Execute \/ HandlerSends
    BY <2>1, <2>2, CallsKeep
  <2>3. CASE Move
    BY <2>1, <2>3, MoveActions
  <2>4. CASE ExecuteEnds \/ HandlerGoesOn \/ HandlerFailsToo
    BY <2>1, <2>4, ReturnsKeep
  <2>5. CASE HandlerChanges \/ HandlerSaves \/ AccountChanges \/ UNCHANGED vars
    BY <2>1, <2>5, OthersKeep
  <2>6. QED BY <2>2, <2>3, <2>4, <2>5 DEF Next, Move
<1>2. Init => IInv /\ EndsInv
  BY InitInv, InitEnds
<1>3. QED BY <1>1, <1>2, PTL DEF Spec

\* Once a command is out of its unit of work, so are those its handler sent.
LEMMA SentOnesEnded ==
    ASSUME IInv, EndsInv, NEW c \in Calls, NEW how \in {"result", "error"}, SentEndsAs(c, how),
           ~ OnStack(c) \/ OnTop(c)
    PROVE  SentCommandEnded(c, how)
<1>1. PICK d \in Within(c) : request[d].kind = "command" /\ EndsAs(d, how)
  BY DEF SentEndsAs
<1>2. SenderInv /\ OutcomeInv
  BY DEF EndsInv
<1>3. d \in Calls /\ d # c /\ (OnStack(d) => OnStack(c))
  BY <1>2, WithinIsAbove
<1>4. ~ OnStack(d)
  <2>1. ASSUME OnStack(d) PROVE FALSE
    <3>1. OnTop(d) /\ OnTop(c)
      BY <1>1, <1>2, <1>3, <2>1, EndsFacts
    <3>2. QED BY <1>3, <3>1 DEF OnTop
  <2>2. QED BY <2>1
<1>5. outcome[d] = how
  BY <1>1, <1>2, <1>3, <1>4, EndsFacts
<1>6. QED BY <1>1, <1>5 DEF SentCommandEnded

LEMMA Ended ==
    ASSUME IInv, EndsInv, NEW c \in Calls, IsCommand(c)
    PROVE  /\ EndsAs(c, "error") /\ c \in saved => SentCommandEnded(c, "result")
           /\ EndsAs(c, "result") /\ c \in forgotten \cup inDoubt => SentCommandEnded(c, "error")
<1>1. OutcomeInv /\ SavedInv /\ DroppedInv
  BY DEF EndsInv
<1>2. ASSUME NEW how \in {"result", "error"}, EndsAs(c, how)
      PROVE  (~ OnStack(c) \/ OnTop(c)) /\ ~ (EndsAs(c, "result") /\ EndsAs(c, "error"))
  BY <1>1, <1>2, EndsFacts
<1>3. ASSUME EndsAs(c, "error"), c \in saved PROVE SentCommandEnded(c, "result")
  <2>1. SentEndsAs(c, "result")
    BY <1>1, <1>2, <1>3 DEF SavedInv
  <2>2. QED BY <1>2, <1>3, <2>1, SentOnesEnded
<1>4. ASSUME EndsAs(c, "result"), c \in forgotten \cup inDoubt PROVE SentCommandEnded(c, "error")
  <2>1. SentEndsAs(c, "error")
    BY <1>1, <1>2, <1>4 DEF DroppedInv
  <2>2. QED BY <1>2, <1>4, <2>1, SentOnesEnded
<1>5. QED BY <1>3, <1>4

\* CommandsAreAtomic: for any number of requests, sent however deeply, and whatever
\* handlers save by themselves or commits lose their answers, nothing of a command
\* stays in the tracker, no answered commit saved anything of a failed one, and
\* nothing of a successful one was dropped or is in doubt - unless a command sent
\* within it committed or reverted the scope.
THEOREM CommandsAtomic == Spec => []CommandsAreAtomic
<1>1. IInv /\ EndsInv => CommandsAreAtomic
  <2> SUFFICES ASSUME IInv, EndsInv, NEW c \in Calls, request[c] # NoRequest, request[c].kind = "command"
               PROVE  /\ outcome[c] # "none" => c \notin unsaved
                      /\ outcome[c] = "error" /\ c \in saved => SentCommandEnded(c, "result")
                      /\ outcome[c] = "result" /\ c \in forgotten \cup inDoubt =>
                           SentCommandEnded(c, "error")
    BY DEF CommandsAreAtomic
  <2>1. IsCommand(c)
    BY DEF IsCommand, Made
  <2>2. \A how : outcome[c] = how => EndsAs(c, how)
    BY DEF EndsAs
  <2>3. outcome[c] # "none" => c \notin unsaved
    BY <2>1 DEF EndsInv, OutcomeInv, OpenInv
  <2>4. QED BY <2>1, <2>2, <2>3, Ended
<1>2. QED BY EndsInductive, <1>1, PTL

\* LogTellsTheOutcome: the last line of the log about a command is how it ended,
\* the commit included.
THEOREM LogTrue == Spec => []LogTellsTheOutcome
<1>1. IInv /\ EndsInv => LogTellsTheOutcome
  <2> SUFFICES ASSUME IInv, EndsInv, NEW c \in Calls
               PROVE  /\ log[c] = "succeeded" => outcome[c] # "error"
                      /\ log[c] = "succeeded" /\ c \in forgotten \cup inDoubt =>
                           SentCommandEnded(c, "error")
                      /\ log[c] = "failed" => outcome[c] # "result"
                      /\ log[c] = "failed" /\ c \in saved => SentCommandEnded(c, "result")
                      /\ log[c] = "executing" => outcome[c] = "none"
                      /\ log[c] = "none" /\ outcome[c] = "result" => request[c].kind # "command"
    BY DEF LogTellsTheOutcome
  <2>1. OutcomeInv /\ LogInv
    BY DEF EndsInv
  <2>2. /\ log[c] = "succeeded" => IsCommand(c) /\ EndsAs(c, "result")
        /\ log[c] = "failed" => IsCommand(c) /\ EndsAs(c, "error")
        /\ log[c] = "executing" => OnStack(c)
    BY <2>1 DEF LogInv
  <2>3. ~ (EndsAs(c, "result") /\ EndsAs(c, "error"))
    BY <2>1, EndsFacts
  <2>4. \A how : outcome[c] = how => EndsAs(c, how)
    BY DEF EndsAs
  <2>5. log[c] = "executing" => outcome[c] = "none"
    BY <2>1, <2>2, EndsFacts
  <2>6. ASSUME log[c] = "none", outcome[c] = "result" PROVE request[c].kind # "command"
    <3>1. Made(c) /\ ~ OnStack(c) /\ ~ OnTop(c)
      BY <2>1, <2>6, EndsFacts DEF OutcomeInv
    <3>2. ~ EndsAs(c, "error")
      BY <2>3, <2>4, <2>6
    <3>3. QED BY <2>1, <2>6, <3>1, <3>2 DEF LogInv, IsCommand
  <2>7. QED BY <2>2, <2>3, <2>4, <2>5, <2>6, Ended
<1>2. QED BY EndsInductive, <1>1, PTL
=============================================================================
