-------------------------- MODULE PageRequestsProofs --------------------------
(***************************************************************************)
(* What the pages' proofs need of their requests and of their lists.       *)
(***************************************************************************)
EXTENDS Integers, SequencesExt, PageRequests, SequenceTheorems, TLAPS

\* fetch puts its call where none was: the calls under way stay as they are.
LEMMA SendFree ==
  ASSUME NEW calls, NEW call, Free(calls) # {}
  PROVE  \E s \in DOMAIN calls : calls[s] = None /\ Send(calls, call) = [calls EXCEPT ![s] = call]
<1>1. PICK s \in DOMAIN calls : calls[s] = None
  BY DEF Free
<1>2. LET c == CHOOSE t \in DOMAIN calls : calls[t] = None
      IN  c \in DOMAIN calls /\ calls[c] = None
  BY <1>1
<1>. QED BY <1>2 DEF Send

\* ... and are waited for still, with it and no other.
LEMMA SendWaiting ==
  ASSUME NEW calls, NEW call, call # None, Free(calls) # {}
  PROVE  /\ DOMAIN Send(calls, call) = DOMAIN calls
         /\ \A s \in Waiting(calls) : s \in Waiting(Send(calls, call)) /\ Send(calls, call)[s] = calls[s]
         /\ \E s \in Waiting(Send(calls, call)) : Send(calls, call)[s] = call
         /\ \A s \in Waiting(Send(calls, call)) :
              Send(calls, call)[s] = call \/ (s \in Waiting(calls) /\ Send(calls, call)[s] = calls[s])
<1>1. PICK s \in DOMAIN calls : calls[s] = None /\ Send(calls, call) = [calls EXCEPT ![s] = call]
  BY SendFree
<1>. QED BY <1>1 DEF Waiting

\* The calls of a page stay calls of the page when one is sent.
LEMMA SendType ==
  ASSUME NEW S, NEW T, NEW calls \in [S -> T \cup {None}], NEW call \in T, Free(calls) # {}
  PROVE  Send(calls, call) \in [S -> T \cup {None}]
<1>1. PICK s \in DOMAIN calls : Send(calls, call) = [calls EXCEPT ![s] = call]
  BY SendFree
<1>. QED BY <1>1

\* ... and when one is answered.
LEMMA AnsweredType ==
  ASSUME NEW S, NEW T, NEW calls \in [S -> T \cup {None}], NEW s \in S
  PROVE  Answered(calls, s) \in [S -> T \cup {None}]
BY DEF Answered

\* A list without one of its elements.
LEMMA ElementRemoved ==
  ASSUME NEW S, NEW list \in Seq(S), NEW i \in DOMAIN list
  PROVE  LET rest == RemoveAt(list, i) IN
         /\ rest \in Seq(S) /\ Len(rest) = Len(list) - 1
         /\ \A j \in DOMAIN rest :
              LET k == IF j < i THEN j ELSE j + 1 IN k \in DOMAIN list \ {i} /\ rest[j] = list[k]
<1>. DEFINE n == Len(list)
            before == SubSeq(list, 1, i - 1)
            after == SubSeq(list, i + 1, n)
<1>1. n \in Nat /\ DOMAIN list = 1..n /\ i \in 1..n /\ \A j \in 1..n : list[j] \in S
  BY LenProperties, ElementOfSeq
<1>. HIDE DEF n
<1>2. /\ before \in Seq(S) /\ Len(before) = i - 1
      /\ \A j \in 1..(i - 1) : before[j] = list[j]
  BY <1>1, SubSeqProperties
<1>3. /\ after \in Seq(S) /\ Len(after) = n - i
      /\ \A j \in 1..(n - i) : after[j] = list[i + j]
  BY <1>1, SubSeqProperties
<1>. HIDE DEF before, after
<1>. DEFINE rest == before \o after
<1>4. RemoveAt(list, i) = rest
  BY DEF RemoveAt, before, after, n
<1>5. /\ rest \in Seq(S) /\ Len(rest) = n - 1
      /\ \A j \in 1..(n - 1) : rest[j] = IF j <= i - 1 THEN before[j] ELSE after[j - (i - 1)]
  <2>1. /\ rest \in Seq(S) /\ Len(rest) = Len(before) + Len(after)
        /\ \A j \in 1..Len(before) + Len(after) :
             rest[j] = IF j <= Len(before) THEN before[j] ELSE after[j - Len(before)]
    BY <1>2, <1>3, ConcatProperties
  <2>2. Len(before) + Len(after) = n - 1
    BY <1>1, <1>2, <1>3
  <2>. HIDE DEF rest
  <2>. QED BY <1>2, <2>1, <2>2
<1>. HIDE DEF rest
<1>6. ASSUME NEW j \in 1..(n - 1)
      PROVE  LET k == IF j < i THEN j ELSE j + 1 IN k \in 1..n /\ k # i /\ rest[j] = list[k]
  <2>1. CASE j < i
    BY <1>1, <1>2, <1>5, <2>1
  <2>2. CASE ~(j < i)
    <3>1. ~(j <= i - 1) /\ j - (i - 1) \in 1..(n - i) /\ i + (j - (i - 1)) = j + 1 /\ j + 1 \in 1..n
      BY <1>1, <2>2
    <3>2. rest[j] = after[j - (i - 1)]
      BY <1>5, <3>1
    <3>3. after[j - (i - 1)] = list[j + 1]
      BY <1>3, <3>1
    <3>. QED BY <1>1, <2>2, <3>1, <3>2, <3>3
  <2>. QED BY <2>1, <2>2
<1>7. DOMAIN rest = 1..(n - 1)
  BY <1>5, LenProperties
<1>. QED BY <1>1, <1>4, <1>5, <1>6, <1>7 DEF n
=============================================================================
