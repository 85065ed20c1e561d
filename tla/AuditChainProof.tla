-------------------------- MODULE AuditChainProof --------------------------
(***************************************************************************)
(* Proofs about AuditChain: the invariants its runs check hold for every   *)
(* number of processes, requests, agents and events.                       *)
(***************************************************************************)
EXTENDS AuditChain, TLAPS

\* What a request holds, and what a process keeps, is the hash of a row that is
\* in the log already.
HashesKnown ==
  /\ \A p \in Procs : previous[p] <= Len(log)
  /\ \A h \in Handlers :
       /\ op[h].at = "insert" => op[h].event.previous <= Len(log)
       /\ op[h].at = "advance" => op[h].hash <= Len(log)

\* While the log is quiet at most one request is in record(), and what it holds
\* is the hash of the last row; when there is none, some process keeps that hash.
QuietHandOver ==
  quiet =>
    /\ \A i \in 1..Len(log) : log[i].previous = i - 1
    /\ \A h \in Handlers : op[h] # Idle =>
         /\ \A k \in Handlers \ {h} : op[k] = Idle
         /\ op[h].at = "insert" =>
              /\ op[h].event.previous = Len(log)
              /\ log = <<>> \/ \E p \in Procs : previous[p] = Len(log)
         /\ op[h].at = "advance" => op[h].hash = Len(log)
    /\ (\A h \in Handlers : op[h] = Idle) =>
         log = <<>> \/ \E p \in Procs : previous[p] = Len(log)

Inv == TypeOK /\ HashesKnown /\ ChainsGrounded

\* Where a request that records an event can be, and what it holds there.
LEMMA OpForms ==
  ASSUME TypeOK, NEW h \in Handlers
  PROVE  /\ op[h] = Idle \/ op[h].at = "insert" \/ op[h].at = "advance"
         /\ op[h].at = "insert" => op[h] # Idle /\ op[h].event \in Event
         /\ op[h].at = "advance" => op[h] # Idle /\ op[h].hash \in 1..MaxEvents
         /\ op[h] # Idle => op[h].at \in {"insert", "advance"}
BY DEF TypeOK, Recording, Idle

\* The log is empty and every process at genesis.
LEMMA InvInit == Init => Inv
BY AuditAssumption DEF Init, Inv, TypeOK, HashesKnown, ChainsGrounded, Genesis, Recording, Idle

\* A hash held anywhere is that of a row, and stays it.
LEMMA InvStep == Inv /\ [Next]_vars => Inv'
<1> SUFFICES ASSUME Inv, [Next]_vars PROVE Inv'
    OBVIOUS
<1> USE AuditAssumption DEF Inv
<1>1. ASSUME NEW h \in Handlers, NEW a \in Agents, Begin(h, a) PROVE Inv'
  <2>1. previous[Home[h]] \in 0..MaxEvents /\ previous[Home[h]] <= Len(log)
        BY DEF TypeOK, HashesKnown
  <2> DEFINE new == [at |-> "insert", event |-> [agent |-> a, previous |-> previous[Home[h]]]]
  <2>2. new \in Recording /\ new.at = "insert" /\ new.event.previous = previous[Home[h]]
        BY <2>1 DEF Recording, Event
  <2>3. op' = [op EXCEPT ![h] = new] /\ UNCHANGED <<log, previous>>
        BY <1>1 DEF Begin
  <2>q. quiet' \in BOOLEAN
        BY <1>1 DEF Begin
  <2> HIDE DEF new
  <2>4. TypeOK'
        BY <2>2, <2>3, <2>q DEF TypeOK
  <2>5. HashesKnown'
        BY <2>1, <2>2, <2>3 DEF HashesKnown, TypeOK
  <2> QED BY <2>3, <2>4, <2>5 DEF ChainsGrounded
<1>2. ASSUME NEW h \in Handlers, Insert(h) PROVE Inv'
  <2>1. op[h].event \in Event /\ op[h].event.previous <= Len(log)
        BY <1>2, OpForms DEF Insert, HashesKnown
  <2>2. /\ log' = Append(log, op[h].event) /\ log' \in Seq(Event)
        /\ Len(log') = Len(log) + 1 /\ Len(log') <= MaxEvents
        BY <1>2, <2>1 DEF Insert, TypeOK
  <2>3. /\ op' = [op EXCEPT ![h] = [at |-> "advance", hash |-> Len(log) + 1]]
        /\ UNCHANGED <<previous, quiet>>
        BY <1>2 DEF Insert
  <2>4. TypeOK'
    <3>1. [at |-> "advance", hash |-> Len(log) + 1] \in Recording
          BY <2>2 DEF Recording, TypeOK
    <3> QED BY <3>1, <2>2, <2>3 DEF TypeOK
  <2>5. HashesKnown'
    <3>1. \A p \in Procs : previous'[p] <= Len(log')
          BY <2>2, <2>3 DEF HashesKnown, TypeOK
    <3>2. ASSUME NEW k \in Handlers
          PROVE  /\ op'[k].at = "insert" => op'[k].event.previous <= Len(log')
                 /\ op'[k].at = "advance" => op'[k].hash <= Len(log')
      <4>1. CASE k = h
            BY <4>1, <2>2, <2>3 DEF TypeOK
      <4>2. CASE k # h
        <5>1. op'[k] = op[k]
              BY <4>2, <2>3 DEF TypeOK
        <5>2. op[k].at = "insert" => op[k].event.previous \in Nat
              BY OpForms DEF Event
        <5>3. op[k].at = "advance" => op[k].hash \in Nat
              BY OpForms
        <5> QED BY <5>1, <5>2, <5>3, <2>2 DEF HashesKnown, TypeOK
      <4> QED BY <4>1, <4>2
    <3> QED BY <3>1, <3>2 DEF HashesKnown
  <2>6. ChainsGrounded'
    <3>1. ASSUME NEW i \in 1..Len(log') PROVE log'[i].previous < i
      <4>1. CASE i <= Len(log)
            BY <4>1, <2>1, <2>2 DEF ChainsGrounded, TypeOK
      <4>2. CASE i = Len(log) + 1
        <5>1. log'[i] = op[h].event
              BY <4>2, <2>1, <2>2 DEF TypeOK
        <5> QED BY <5>1, <4>2, <2>1 DEF Event, TypeOK
      <4> QED BY <4>1, <4>2, <2>2 DEF TypeOK
    <3> QED BY <3>1 DEF ChainsGrounded
  <2> QED BY <2>4, <2>5, <2>6
<1>3. ASSUME NEW h \in Handlers, Advance(h) PROVE Inv'
  <2>1. op[h].hash \in 1..MaxEvents /\ op[h].hash <= Len(log)
        BY <1>3, OpForms DEF Advance, HashesKnown
  <2>2. /\ previous' = [previous EXCEPT ![Home[h]] = op[h].hash]
        /\ op' = [op EXCEPT ![h] = Idle] /\ UNCHANGED <<log, quiet>>
        BY <1>3 DEF Advance
  <2>3. TypeOK'
        BY <2>1, <2>2 DEF TypeOK, Recording
  <2>4. HashesKnown'
        BY <2>1, <2>2 DEF HashesKnown, TypeOK, Idle
  <2> QED BY <2>2, <2>3, <2>4 DEF ChainsGrounded
<1>4. ASSUME NEW h \in Handlers, Abandon(h) PROVE Inv'
  <2>1. op' = [op EXCEPT ![h] = Idle] /\ UNCHANGED <<log, previous>> /\ quiet' \in BOOLEAN
        BY <1>4 DEF Abandon
  <2>2. TypeOK'
        BY <2>1 DEF TypeOK, Recording
  <2>3. HashesKnown'
        BY <2>1 DEF HashesKnown, TypeOK, Idle
  <2> QED BY <2>1, <2>2, <2>3 DEF ChainsGrounded
<1>5. ASSUME NEW p \in Procs, Restart(p) PROVE Inv'
  <2>1. /\ previous' = [previous EXCEPT ![p] = Genesis]
        /\ op' = [h \in Handlers |-> IF Home[h] = p THEN Idle ELSE op[h]]
        /\ UNCHANGED log /\ quiet' \in BOOLEAN
        BY <1>5 DEF Restart
  <2>2. TypeOK'
        BY <2>1 DEF TypeOK, Recording, Genesis
  <2>3. HashesKnown'
        BY <2>1 DEF HashesKnown, TypeOK, Idle, Genesis
  <2> QED BY <2>1, <2>2, <2>3 DEF ChainsGrounded
<1>6. CASE UNCHANGED vars
      BY <1>6 DEF vars, TypeOK, HashesKnown, ChainsGrounded
<1> QED BY <1>1, <1>2, <1>3, <1>4, <1>5, <1>6 DEF Next

-----------------------------------------------------------------------------
(* The quiet log. *)

\* In a quiet log the last row's hash passes from process to request and back.
LEMMA QuietStep == Inv /\ QuietHandOver /\ [Next]_vars => QuietHandOver'
<1> SUFFICES ASSUME Inv, QuietHandOver, [Next]_vars, quiet' PROVE QuietHandOver'
    BY DEF QuietHandOver
<1> USE AuditAssumption DEF Inv
<1>1. ASSUME NEW h \in Handlers, NEW a \in Agents, Begin(h, a) PROVE QuietHandOver'
  <2>1. /\ quiet /\ Alone(h) /\ op[h] = Idle /\ UNCHANGED <<log, previous>>
        /\ op' = [op EXCEPT ![h] =
             [at |-> "insert", event |-> [agent |-> a, previous |-> previous[Home[h]]]]]
        BY <1>1 DEF Begin
  <2>2. \A k \in Handlers : op[k] = Idle
        BY <2>1 DEF Alone
  <2>3. \/ log = <<>>
        \/ \E p \in Procs : previous[p] = Len(log)
        BY <2>1, <2>2 DEF QuietHandOver
  <2>4. previous[Home[h]] = Len(log)
    <3>1. CASE log = <<>>
          BY <3>1 DEF HashesKnown, TypeOK
    <3>2. CASE log # <<>>
      <4>1. PICK p \in Procs : previous[p] = Len(log)
            BY <2>3, <3>2
      <4>2. Len(log) # 0
            BY <3>2 DEF TypeOK
      <4> QED BY <4>1, <4>2, <2>1 DEF Alone, Genesis
    <3> QED BY <3>1, <3>2
  <2>5. \A k \in Handlers \ {h} : op'[k] = Idle
        BY <2>1, <2>2 DEF TypeOK
  <2>6. /\ op'[h].at = "insert" /\ op'[h] # Idle
        /\ op'[h].event.previous = previous[Home[h]]
        BY <2>1 DEF TypeOK, Idle
  <2> QED BY <2>1, <2>3, <2>4, <2>5, <2>6 DEF QuietHandOver
<1>2. ASSUME NEW h \in Handlers, Insert(h) PROVE QuietHandOver'
  <2>1. /\ quiet /\ op[h].at = "insert" /\ op[h] # Idle /\ op[h].event \in Event
        /\ log' = Append(log, op[h].event)
        /\ op' = [op EXCEPT ![h] = [at |-> "advance", hash |-> Len(log) + 1]]
        BY <1>2, OpForms DEF Insert
  <2>2. /\ op[h].event.previous = Len(log)
        /\ \A k \in Handlers \ {h} : op[k] = Idle
        /\ \A i \in 1..Len(log) : log[i].previous = i - 1
        BY <2>1 DEF QuietHandOver
  <2>3. Len(log') = Len(log) + 1 /\ log'[Len(log) + 1] = op[h].event
        /\ \A i \in 1..Len(log) : log'[i] = log[i]
        BY <2>1 DEF TypeOK
  <2>4. \A i \in 1..Len(log') : log'[i].previous = i - 1
    <3>1. ASSUME NEW i \in 1..Len(log') PROVE log'[i].previous = i - 1
      <4>1. CASE i <= Len(log)
            BY <4>1, <2>2, <2>3 DEF TypeOK
      <4>2. CASE i = Len(log) + 1
            BY <4>2, <2>2, <2>3 DEF TypeOK
      <4> QED BY <4>1, <4>2, <2>3 DEF TypeOK
    <3> QED BY <3>1
  <2>5. /\ \A k \in Handlers \ {h} : op'[k] = Idle
        /\ op'[h].at = "advance" /\ op'[h] # Idle /\ op'[h].hash = Len(log')
        BY <2>1, <2>2, <2>3 DEF TypeOK, Idle
  <2> QED BY <2>4, <2>5 DEF QuietHandOver
<1>3. ASSUME NEW h \in Handlers, Advance(h) PROVE QuietHandOver'
  <2>1. /\ quiet /\ op[h].at = "advance" /\ op[h] # Idle
        /\ previous' = [previous EXCEPT ![Home[h]] = op[h].hash]
        /\ op' = [op EXCEPT ![h] = Idle] /\ UNCHANGED log
        BY <1>3, OpForms DEF Advance
  <2>2. /\ op[h].hash = Len(log)
        /\ \A k \in Handlers \ {h} : op[k] = Idle
        /\ \A i \in 1..Len(log) : log[i].previous = i - 1
        BY <2>1 DEF QuietHandOver
  <2>3. \A k \in Handlers : op'[k] = Idle
        BY <2>1, <2>2 DEF TypeOK
  <2>4. Home[h] \in Procs /\ previous'[Home[h]] = Len(log')
        BY <2>1, <2>2 DEF TypeOK
  <2> QED BY <2>1, <2>2, <2>3, <2>4 DEF QuietHandOver
<1>4. ASSUME NEW h \in Handlers, Abandon(h) PROVE QuietHandOver'
  <2>1. /\ quiet /\ op[h].at # "advance" /\ op[h] # Idle
        /\ op' = [op EXCEPT ![h] = Idle] /\ UNCHANGED <<log, previous>>
        BY <1>4 DEF Abandon
  <2>2. op[h].at = "insert"
        BY <2>1, OpForms
  <2>3. \A k \in Handlers : op'[k] = Idle
        BY <2>1 DEF TypeOK, QuietHandOver
  <2> QED BY <2>1, <2>2, <2>3 DEF QuietHandOver
<1>5. ASSUME NEW p \in Procs, Restart(p) PROVE QuietHandOver'
  <2>1. /\ quiet /\ log = <<>> /\ log' = log
        /\ previous' = [previous EXCEPT ![p] = Genesis]
        /\ op' = [h \in Handlers |-> IF Home[h] = p THEN Idle ELSE op[h]]
        BY <1>5 DEF Restart
  <2>2. \A h \in Handlers : op'[h] # Idle => op'[h] = op[h] /\ op[h] # Idle
        BY <2>1
  <2>3. \A h \in Handlers : op[h] = Idle => op'[h] = Idle
        BY <2>1
  <2> QED BY <2>1, <2>2, <2>3 DEF QuietHandOver
<1>6. CASE UNCHANGED vars
      BY <1>6 DEF vars, QuietHandOver
<1> QED BY <1>1, <1>2, <1>3, <1>4, <1>5, <1>6 DEF Next

\* A log that is one chain verifies for an agent it is all about.
LEMMA LinearVerifies ==
  ASSUME TypeOK, \A i \in 1..Len(log) : log[i].previous = i - 1,
         NEW a \in Agents, \A i \in 1..Len(log) : log[i].agent = a
  PROVE  Verifies(log, a)
<1> Len(log) \in Nat
    BY DEF TypeOK
<1>1. {i \in 1..Len(log) : log[i].agent = a} = 1..Len(log)
      OBVIOUS
<1>2. ASSUME NEW i \in 1..Len(log)
      PROVE LET before == {k \in 1..Len(log) : k < i} IN
            IF before = {} THEN log[i].previous = Genesis
            ELSE log[i].previous \in before /\ \A k \in before : k <= log[i].previous
  <2>1. CASE i = 1
        BY <2>1 DEF Genesis
  <2>2. CASE i > 1
    <3>1. i - 1 \in {k \in 1..Len(log) : k < i}
          BY <2>2
    <3> QED BY <3>1, <2>2
  <2> QED BY <2>1, <2>2
<1> QED BY <1>1, <1>2 DEF Verifies, RowsOf

-----------------------------------------------------------------------------
(* The theorems. *)

\* Both hold of every reachable state.
LEMMA Invariance == Spec => [](Inv /\ QuietHandOver)
<1>1. Init => Inv /\ QuietHandOver
  <2>1. Init => QuietHandOver
        BY DEF Init, QuietHandOver
  <2> QED BY <2>1, InvInit
<1>2. Inv /\ QuietHandOver /\ [Next]_vars => (Inv /\ QuietHandOver)'
      BY InvStep, QuietStep
<1> QED BY <1>1, <1>2, PTL DEF Spec

\* The log, the hash every process keeps and what every request in record() holds
\* have their types.
THEOREM TypeCorrect == Spec => []TypeOK
BY Invariance, PTL DEF Inv

\* However record() overlaps, fails, is dropped or starts over from genesis, every
\* row names the genesis hash or that of an earlier row.
THEOREM HashesLeadBack == Spec => []ChainsGrounded
BY Invariance, PTL DEF Inv

\* A log written one event at a time by one process without a restart is one chain,
\* and verifies for an agent that is alone in it.
THEOREM QuietLogIsOneChain == Spec => []QuietChainLinear
<1>1. Inv /\ QuietHandOver => QuietChainLinear
      BY LinearVerifies DEF Inv, QuietHandOver, QuietChainLinear
<1> QED BY <1>1, Invariance, PTL
=============================================================================
