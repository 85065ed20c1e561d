--------------------------- MODULE DatabaseProof ---------------------------
(***************************************************************************)
(* What a commit, a replay and a replica query do to the states a reader   *)
(* may see, for any set of replicas: the facts the proofs about the        *)
(* registry's components rest on.                                          *)
(***************************************************************************)
EXTENDS Database, TLAPS

\* A commit appends to every stream, so each state of a stream is an old one
\* of that stream or the new state.
LEMMA CommitStreams ==
  ASSUME NEW S, stream \in [Replicas -> Seq(S)], NEW t \in S, Commit(t)
  PROVE  /\ stream' \in [Replicas -> Seq(S)]
         /\ \A r \in Replicas : stream'[r] # <<>>
         /\ \A r \in Replicas : \A i \in 1..Len(stream'[r]) :
              \/ i \in 1..Len(stream[r]) /\ stream'[r][i] = stream[r][i]
              \/ stream'[r][i] = t
<1>1. \A r \in Replicas : /\ stream[r] \in Seq(S)
                          /\ stream'[r] = Append(stream[r], t)
  BY DEF Commit
<1>2. ASSUME NEW r \in Replicas
      PROVE  /\ stream'[r] \in Seq(S) /\ stream'[r] # <<>>
             /\ \A i \in 1..Len(stream'[r]) :
                  \/ i \in 1..Len(stream[r]) /\ stream'[r][i] = stream[r][i]
                  \/ stream'[r][i] = t
  <2>1. ASSUME NEW s \in Seq(S)
        PROVE  /\ Append(s, t) \in Seq(S) /\ Append(s, t) # <<>>
               /\ \A i \in 1..Len(Append(s, t)) :
                    \/ i \in 1..Len(s) /\ Append(s, t)[i] = s[i]
                    \/ Append(s, t)[i] = t
    <3>1. Append(s, t) \in Seq(S) /\ Len(Append(s, t)) = Len(s) + 1
      OBVIOUS
    <3>2. Append(s, t) # <<>>
      BY <3>1
    <3>3. ASSUME NEW i \in 1..Len(Append(s, t))
          PROVE  \/ i \in 1..Len(s) /\ Append(s, t)[i] = s[i]
                 \/ Append(s, t)[i] = t
      BY <3>1
    <3>. QED BY <3>1, <3>2, <3>3
  <2>2. stream[r] \in Seq(S) /\ stream'[r] = Append(stream[r], t)
    BY <1>1
  <2>3. /\ Append(stream[r], t) \in Seq(S) /\ Append(stream[r], t) # <<>>
        /\ \A i \in 1..Len(Append(stream[r], t)) :
             \/ i \in 1..Len(stream[r]) /\ Append(stream[r], t)[i] = stream[r][i]
             \/ Append(stream[r], t)[i] = t
    BY <2>1, <2>2, Zenon
  <2>. QED BY <2>2, <2>3, Zenon
<1>3. stream' = [r \in Replicas |-> Append(stream[r], t)]
  BY DEF Commit
<1>4. stream' \in [Replicas -> Seq(S)]
  BY <1>1, <1>3
<1>. QED BY <1>2, <1>4

\* Replaying a commit only drops the oldest state of one stream.
LEMMA ReplicateStreams ==
  ASSUME NEW S, stream \in [Replicas -> Seq(S)], NEW r \in Replicas, Replicate(r),
         \A q \in Replicas : stream[q] # <<>>
  PROVE  /\ stream' \in [Replicas -> Seq(S)]
         /\ \A q \in Replicas : stream'[q] # <<>>
         /\ \A q \in Replicas : \A i \in 1..Len(stream'[q]) :
              \E j \in 1..Len(stream[q]) : stream'[q][i] = stream[q][j]
<1>1. stream' \in [Replicas -> Seq(S)]
  BY DEF Replicate
<1>2. ASSUME NEW q \in Replicas PROVE stream'[q] # <<>>
  <2>1. CASE q = r
    <3>1. stream[r] \in Seq(S) /\ stream'[r] = Tail(stream[r]) /\ Len(stream[r]) > 1
      BY DEF Replicate
    <3>2. Len(stream'[r]) = Len(stream[r]) - 1
      BY <3>1
    <3>. QED BY <3>1, <3>2, <2>1
  <2>2. CASE q # r
    BY <2>2 DEF Replicate
  <2>. QED BY <2>1, <2>2
<1>3. ASSUME NEW q \in Replicas, NEW i \in 1..Len(stream'[q])
      PROVE  \E j \in 1..Len(stream[q]) : stream'[q][i] = stream[q][j]
  <2>1. CASE q = r
    <3>1. /\ stream[r] \in Seq(S) /\ stream'[r] = Tail(stream[r])
          /\ Len(stream[r]) > 1
      BY DEF Replicate
    <3>2. Len(stream'[r]) = Len(stream[r]) - 1 /\ stream'[r][i] = stream[r][i + 1]
      BY <3>1, <2>1, <1>3
    <3>3. i + 1 \in 1..Len(stream[r])
      BY <3>1, <3>2, <2>1, <1>3
    <3>. QED BY <3>2, <3>3, <2>1
  <2>2. CASE q # r
    BY <2>2, <1>3 DEF Replicate
  <2>. QED BY <2>1, <2>2
<1>. QED BY <1>1, <1>2, <1>3

\* What a replica query may see is the primary or a state of a stream.
LEMMA ViewIsPast ==
  ASSUME NEW S, stream \in [Replicas -> Seq(S)],
         \A r \in Replicas : stream[r] # <<>>, NEW t \in Views
  PROVE  \/ t = primary
         \/ \E r \in Replicas : \E i \in 1..Len(stream[r]) : t = stream[r][i]
<1>1. CASE Replicas = {}
  BY <1>1 DEF Views
<1>2. CASE Replicas # {}
  <2>1. PICK r \in Replicas : t = Head(stream[r])
    BY <1>2 DEF Views
  <2>2. stream[r] \in Seq(S) /\ stream[r] # <<>>
    OBVIOUS
  <2>3. t = stream[r][1] /\ 1 \in 1..Len(stream[r])
    BY <2>1, <2>2
  <2>. QED BY <2>3
<1>. QED BY <1>1, <1>2
=============================================================================
