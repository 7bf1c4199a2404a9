---------------------------- MODULE QueueProofs -----------------------------
(***************************************************************************)
(* What holds of jobs that send mail for any jobs, queues, numbers of      *)
(* tries, lanes and mails, whatever stops or kills the workers.            *)
(*                                                                         *)
(* The argument: the shared cursor is ahead of every lane, so a lane takes *)
(* a mail no other lane has or had; and an attempt holds a slot while its  *)
(* call is pending, so the attempts of a job are those that failed, one    *)
(* that may be under way, and those that deaths cut off, at most one for   *)
(* each slot.                                                              *)
(***************************************************************************)
EXTENDS Queue, FiniteSetTheorems, TLAPS

Results == {"none", "pending", "resolved", "rejected", "abandoned"}

\* A call of sendBulk(b), b a batch.
Call(b) == [lanes : [Lanes(b) -> 0..Size[b]], cursor : 0..Size[b], sent : Nat,
            errors : SUBSET (1..Size[b]), out : [1..Size[b] -> 0..1], result : Results]

Out(b, c) == {i \in 1..Size[b] : c.out[i] = 1}

\* The cursor is ahead of every lane and behind every mail nobody took; a mail is with one
\* lane at most, and is not out while it is with one. D: the lane that has just ended its mail.
Apart(b, c, D) ==
    /\ \A k \in Lanes(b) : c.lanes[k] <= c.cursor
    /\ \A k \in Lanes(b) \ D : c.lanes[k] # 0 => c.out[c.lanes[k]] = 0
    /\ \A k, l \in Lanes(b) : c.lanes[k] # 0 /\ k # l => c.lanes[k] # c.lanes[l]
    /\ \A i \in 1..Size[b] : i > c.cursor => c.out[i] = 0

\* While the call is pending, what was taken is out, listed or under way, and a lane ends
\* only when nothing is left to take.
Complete(b, c, D) ==
    /\ c.result = "none" => c.cursor = 0
    /\ c.result = "pending" =>
          /\ \A k \in Lanes(b) \ D : c.lanes[k] = 0 => c.cursor = Size[b]
          /\ \A i \in 1..c.cursor : \/ c.out[i] = 1
                                    \/ i \in c.errors
                                    \/ \E k \in Lanes(b) \ D : c.lanes[k] = i
    /\ c.result = "resolved" =>
          /\ \A k \in Lanes(b) : c.lanes[k] = 0
          /\ \A i \in 1..Size[b] : c.out[i] = 1 \/ i \in c.errors

CallOK(b, c, D) ==
    /\ c \in Call(b) /\ Apart(b, c, D) /\ Complete(b, c, D)
    /\ c.sent = Cardinality(Out(b, c))

MailOK == calls = [b \in Batch |-> calls[b]] /\ \A b \in Batch : CallOK(b, calls[b], {})
-----------------------------------------------------------------------------
\* There is a lane unless there is no mail.
LEMMA LanesExist ==
    ASSUME NEW b \in Batch
    PROVE  \E m \in 0..Size[b] : /\ Lanes(b) = 1..m /\ Cardinality(Lanes(b)) = m
                                 /\ m = 0 => Size[b] = 0
<1> DEFINE c == IF Concurrency = 0 THEN 1 ELSE Concurrency
           m == IF c < Size[b] THEN c ELSE Size[b]
<1>1. c \in Nat \ {0} /\ Size[b] \in Nat
    BY MailAssumption
<1>2. m \in 0..Size[b] /\ (m = 0 => Size[b] = 0)
    BY <1>1
<1>3. Lanes(b) = 1..m
    BY DEF Lanes
<1>4. Cardinality(1..m) = m
  <2> HIDE DEF m
  <2>1. m \in Int /\ 1 \in Int /\ m >= 0
      BY <1>1, <1>2
  <2> QED BY <2>1, FS_Interval
<1> HIDE DEF m
<1> QED BY <1>2, <1>3, <1>4

\* A call that no lane is left at resolves, and has then sent what it could.
LEMMA SettledOK ==
    ASSUME NEW b \in Batch, NEW c, CallOK(b, c, {})
    PROVE  CallOK(b, Settled(c), {})
<1> DEFINE d == [c EXCEPT !.result = "resolved"]
<1>1. CASE c.result = "pending" /\ \A k \in DOMAIN c.lanes : c.lanes[k] = 0
  <2>1. Settled(c) = d
      BY <1>1 DEF Settled
  <2>2. c \in Call(b)
      BY DEF CallOK
  <2>3. /\ d \in Call(b) /\ d.lanes = c.lanes /\ d.cursor = c.cursor /\ d.out = c.out
        /\ d.sent = c.sent /\ d.errors = c.errors /\ d.result = "resolved"
      BY <2>2 DEF Call, Results
  <2> HIDE DEF d
  <2>4. DOMAIN c.lanes = Lanes(b) /\ Size[b] \in Nat
      BY <2>2, MailAssumption DEF Call
  <2>5. c.cursor = Size[b]
    <3>1. PICK m \in 0..Size[b] : Lanes(b) = 1..m /\ (m = 0 => Size[b] = 0)
        BY LanesExist
    <3>2. CASE m = 0
        BY <2>2, <2>4, <3>1, <3>2 DEF Call
    <3>3. CASE m # 0
      <4>1. 1 \in Lanes(b)
          BY <3>1, <3>3, <2>4
      <4> QED BY <4>1, <1>1, <2>4 DEF CallOK, Complete
    <3> QED BY <3>2, <3>3
  <2>6. \A i \in 1..Size[b] : c.out[i] = 1 \/ i \in c.errors
      BY <1>1, <2>4, <2>5 DEF CallOK, Complete
  <2>7. Apart(b, d, {})
      BY <2>3 DEF CallOK, Apart
  <2>8. Complete(b, d, {})
      BY <1>1, <2>3, <2>4, <2>6 DEF Complete
  <2>9. Out(b, d) = Out(b, c)
      BY <2>3 DEF Out
  <2> QED BY <2>1, <2>3, <2>7, <2>8, <2>9 DEF CallOK
<1>2. CASE ~(c.result = "pending" /\ \A k \in DOMAIN c.lanes : c.lanes[k] = 0)
    BY <1>2 DEF Settled
<1> QED BY <1>1, <1>2

\* Taking the next mail leaves the result alone, or resolves the call.
LEMMA TakeResult ==
    ASSUME NEW b \in Batch, NEW c \in Call(b), NEW k
    PROVE  \/ Take(b, c, k).result = c.result
           \/ c.result = "pending" /\ Take(b, c, k).result = "resolved"
<1> DEFINE d == [c EXCEPT !.lanes[k] = c.cursor + 1, !.cursor = @ + 1]
           e == [c EXCEPT !.lanes[k] = 0]
<1>1. d.result = c.result
    BY DEF Call
<1>2. /\ e.result = c.result
      /\ e = [lanes |-> e.lanes, cursor |-> e.cursor, sent |-> e.sent,
              errors |-> e.errors, out |-> e.out, result |-> e.result]
    BY DEF Call
<1>3. Take(b, c, k) = d \/ Take(b, c, k) = Settled(e)
    BY DEF Take
<1> HIDE DEF d, e
<1>4. \/ Settled(e).result = e.result
      \/ e.result = "pending" /\ Settled(e).result = "resolved"
    BY <1>2 DEF Settled
<1> QED BY <1>1, <1>2, <1>3, <1>4

\* The lane that has ended its mail takes the next one, which is with no other lane.
LEMMA TakeOK ==
    ASSUME NEW b \in Batch, NEW c, NEW k \in Lanes(b), CallOK(b, c, {k}),
           c.result \notin {"none", "resolved"}
    PROVE  CallOK(b, Take(b, c, k), {})
<1> DEFINE d == [c EXCEPT !.lanes[k] = c.cursor + 1, !.cursor = @ + 1]
           e == [c EXCEPT !.lanes[k] = 0]
<1>1. c \in Call(b) /\ Size[b] \in Nat
    BY MailAssumption DEF CallOK
<1>2. CASE c.cursor < Size[b]
  <2>1. Take(b, c, k) = d
      BY <1>2 DEF Take
  <2>2. /\ d.lanes = [c.lanes EXCEPT ![k] = c.cursor + 1] /\ d.cursor = c.cursor + 1
        /\ d.out = c.out /\ d.sent = c.sent /\ d.errors = c.errors /\ d.result = c.result
        /\ d = [lanes |-> d.lanes, cursor |-> d.cursor, sent |-> d.sent,
                errors |-> d.errors, out |-> d.out, result |-> d.result]
    <3>1. PICK n : n = c.cursor + 1
        OBVIOUS
    <3>2. PICK lanes : lanes = [c.lanes EXCEPT ![k] = n]
        OBVIOUS
    <3>3. d = [c EXCEPT !.lanes = lanes, !.cursor = n]
        BY <1>1, <3>1, <3>2 DEF Call
    <3> HIDE DEF d
    <3> QED BY <1>1, <3>1, <3>2, <3>3 DEF Call
  <2> HIDE DEF d
  <2>3. c.lanes \in [Lanes(b) -> 0..Size[b]] /\ c.cursor \in 0..Size[b]
      BY <1>1 DEF Call
  <2>4. /\ d.lanes \in [Lanes(b) -> 0..Size[b]] /\ d.lanes[k] = c.cursor + 1
        /\ \A l \in Lanes(b) \ {k} : d.lanes[l] = c.lanes[l]
      BY <1>1, <1>2, <2>2, <2>3
  <2>5. d \in Call(b)
    <3>1. c.cursor + 1 \in 0..Size[b]
        BY <1>1, <1>2, <2>3
    <3> QED BY <1>1, <2>2, <2>4, <3>1 DEF Call
  <2>6. Apart(b, d, {})
    <3>1. \A l \in Lanes(b) : d.lanes[l] <= d.cursor
        BY <1>1, <2>2, <2>3, <2>4 DEF CallOK, Apart
    <3>2. \A l \in Lanes(b) : d.lanes[l] # 0 => d.out[d.lanes[l]] = 0
      <4>1. c.out[c.cursor + 1] = 0
          BY <1>1, <1>2, <2>3 DEF CallOK, Apart
      <4> QED BY <4>1, <2>2, <2>4 DEF CallOK, Apart
    <3>3. \A l, n \in Lanes(b) : d.lanes[l] # 0 /\ l # n => d.lanes[l] # d.lanes[n]
      <4>1. \A l \in Lanes(b) : c.lanes[l] # c.cursor + 1
          BY <2>3 DEF CallOK, Apart
      <4> QED BY <4>1, <2>4 DEF CallOK, Apart
    <3>4. \A i \in 1..Size[b] : i > d.cursor => d.out[i] = 0
        BY <2>2, <2>3 DEF CallOK, Apart
    <3> QED BY <3>1, <3>2, <3>3, <3>4 DEF Apart
  <2>7. Complete(b, d, {})
    <3>1. \A l \in Lanes(b) \ {k} : c.result = "pending" /\ c.lanes[l] = 0 => FALSE
        BY <1>2, <2>3, <1>1 DEF CallOK, Complete
    <3>2. ASSUME c.result = "pending", NEW i \in 1..d.cursor
          PROVE  d.out[i] = 1 \/ i \in d.errors \/ \E l \in Lanes(b) : d.lanes[l] = i
      <4>1. CASE i = c.cursor + 1
          BY <4>1, <2>4
      <4>2. CASE i # c.cursor + 1
        <5>1. i \in 1..c.cursor
            BY <4>2, <2>2, <2>3
        <5> QED BY <5>1, <3>2, <2>2, <2>4 DEF CallOK, Complete
      <4> QED BY <4>1, <4>2
    <3>3. d.lanes[k] # 0
        BY <2>3, <2>4
    <3> QED BY <2>2, <2>4, <3>1, <3>2, <3>3 DEF Complete
  <2>8. Out(b, d) = Out(b, c)
      BY <2>2 DEF Out
  <2> QED BY <2>1, <2>2, <2>5, <2>6, <2>7, <2>8 DEF CallOK
<1>3. CASE ~(c.cursor < Size[b])
  <2>1. Take(b, c, k) = Settled(e)
      BY <1>3 DEF Take
  <2>2. /\ e.lanes = [c.lanes EXCEPT ![k] = 0] /\ e.cursor = c.cursor
        /\ e.out = c.out /\ e.sent = c.sent /\ e.errors = c.errors /\ e.result = c.result
        /\ e = [lanes |-> e.lanes, cursor |-> e.cursor, sent |-> e.sent,
                errors |-> e.errors, out |-> e.out, result |-> e.result]
    <3>1. PICK lanes : lanes = [c.lanes EXCEPT ![k] = 0]
        OBVIOUS
    <3>2. e = [c EXCEPT !.lanes = lanes]
        BY <1>1, <3>1 DEF Call
    <3> HIDE DEF e
    <3> QED BY <1>1, <3>1, <3>2 DEF Call
  <2> HIDE DEF e
  <2>3. c.lanes \in [Lanes(b) -> 0..Size[b]] /\ c.cursor \in 0..Size[b]
      BY <1>1 DEF Call
  <2>4. /\ e.lanes \in [Lanes(b) -> 0..Size[b]] /\ e.lanes[k] = 0
        /\ \A l \in Lanes(b) \ {k} : e.lanes[l] = c.lanes[l]
      BY <1>1, <2>2, <2>3
  <2>5. e \in Call(b)
      BY <1>1, <2>2, <2>4 DEF Call
  <2>6. Apart(b, e, {})
      BY <2>2, <2>3, <2>4 DEF CallOK, Apart
  <2>7. Complete(b, e, {})
    <3>1. c.cursor = Size[b]
        BY <1>1, <1>3, <2>3
    <3>2. ASSUME c.result = "pending", NEW i \in 1..e.cursor
          PROVE  e.out[i] = 1 \/ i \in e.errors \/ \E l \in Lanes(b) : e.lanes[l] = i
        BY <3>2, <2>2, <2>4 DEF CallOK, Complete
    <3> QED BY <2>2, <2>4, <3>1, <3>2 DEF Complete
  <2>8. Out(b, e) = Out(b, c)
      BY <2>2 DEF Out
  <2>9. CallOK(b, e, {})
      BY <2>2, <2>5, <2>6, <2>7, <2>8 DEF CallOK
  <2> QED BY <2>1, <2>9, SettledOK
<1> QED BY <1>2, <1>3
-----------------------------------------------------------------------------
\* What a step does to the result of a call: nothing, or it settles a pending one as `how'.
Settles(b, how) ==
    \/ calls'[b].result = calls[b].result
    \/ calls[b].result = "pending" /\ calls'[b].result \in how

LEMMA OneCall ==
    ASSUME MailOK, NEW b \in Batch, NEW d, CallOK(b, d, {}),
           calls' = [calls EXCEPT ![b] = d]
    PROVE  MailOK' /\ calls'[b] = d /\ \A a \in Batch \ {b} : calls'[a] = calls[a]
<1>1. calls' = [a \in Batch |-> calls'[a]] /\ calls'[b] = d
      /\ \A a \in Batch \ {b} : calls'[a] = calls[a]
    BY DEF MailOK
<1>2. \A a \in Batch : CallOK(a, calls'[a], {})
    BY <1>1 DEF MailOK
<1> QED BY <1>1, <1>2 DEF MailOK, CallOK, Call, Apart, Complete, Out, Lanes

LEMMA MailStutters ==
    ASSUME MailOK, UNCHANGED calls
    PROVE  MailOK'
<1>1. calls' = [b \in Batch |-> calls'[b]] /\ \A b \in Batch : CallOK(b, calls'[b], {})
    BY DEF MailOK
<1> QED BY <1>1 DEF MailOK, CallOK, Call, Apart, Complete, Out, Lanes

\* What a lane is sending: a mail that was taken, and is not out; and the call has begun.
LEMMA LaneSends ==
    ASSUME MailOK, NEW b \in Batch, NEW k \in DOMAIN calls[b].lanes, Sending(b, k)
    PROVE  /\ k \in Lanes(b) /\ calls[b].lanes[k] \in 1..Size[b]
           /\ calls[b].lanes[k] \in 1..calls[b].cursor
           /\ calls[b].out[calls[b].lanes[k]] = 0
           /\ calls[b].result \in {"pending", "rejected", "abandoned"}
<1> DEFINE c == calls[b]
<1>1. CallOK(b, c, {}) /\ c.lanes[k] # 0
    BY DEF MailOK, Sending
<1> HIDE DEF c
<1>2. c \in Call(b) /\ Size[b] \in Nat
    BY <1>1, MailAssumption DEF CallOK
<1>3. c.lanes \in [Lanes(b) -> 0..Size[b]] /\ c.cursor \in 0..Size[b] /\ c.result \in Results
    BY <1>2 DEF Call
<1>4. k \in Lanes(b)
    BY <1>3 DEF c
<1>5. c.lanes[k] \in 1..Size[b] /\ c.lanes[k] \in 1..c.cursor /\ c.out[c.lanes[k]] = 0
    BY <1>1, <1>2, <1>3, <1>4 DEF CallOK, Apart
<1>6. c.result # "none" /\ c.result # "resolved"
    BY <1>1, <1>3, <1>4, <1>5 DEF CallOK, Complete
<1> QED BY <1>3, <1>4, <1>5, <1>6 DEF c, Results

\* A mail with a lane is not out yet: it goes out now, for the first time.
LEMMA SendSucceedsOK ==
    ASSUME MailOK, NEW b \in Batch, NEW k \in DOMAIN calls[b].lanes, SendSucceeds(b, k)
    PROVE  MailOK' /\ \A a \in Batch : Settles(a, {"resolved"})
<1> DEFINE c == calls[b]
           i == calls[b].lanes[k]
           f == Accepted(c, k)
<1>1. /\ CallOK(b, c, {}) /\ k \in Lanes(b) /\ i \in 1..Size[b] /\ i \in 1..c.cursor
      /\ c.lanes[k] = i /\ c.out[i] = 0 /\ c.result \in {"pending", "rejected", "abandoned"}
    BY LaneSends DEF MailOK, SendSucceeds
<1>2. calls' = [calls EXCEPT ![b] = Take(b, f, k)]
    BY DEF SendSucceeds
<1> HIDE DEF i, c
<1>3. c \in Call(b) /\ Size[b] \in Nat
    BY <1>1, MailAssumption DEF CallOK
<1>4. /\ c.lanes \in [Lanes(b) -> 0..Size[b]] /\ c.cursor \in 0..Size[b] /\ c.sent \in Nat
      /\ c.out \in [1..Size[b] -> 0..1]
    BY <1>3 DEF Call
<1>5. /\ f.out = [c.out EXCEPT ![i] = 1] /\ f.sent = c.sent + 1
      /\ f.lanes = c.lanes /\ f.cursor = c.cursor /\ f.errors = c.errors
      /\ f.result = c.result
      /\ f = [lanes |-> f.lanes, cursor |-> f.cursor, sent |-> f.sent,
              errors |-> f.errors, out |-> f.out, result |-> f.result]
  <2>1. PICK n : n = c.sent + 1
      OBVIOUS
  <2>2. PICK out : out = [c.out EXCEPT ![i] = 1]
      OBVIOUS
  <2>3. f = [c EXCEPT !.out = out, !.sent = n]
      BY <1>1, <1>3, <1>4, <2>1, <2>2 DEF Call, Accepted
  <2> HIDE DEF f
  <2> QED BY <1>3, <2>1, <2>2, <2>3 DEF Call
<1> HIDE DEF f
<1>6. /\ f.out \in [1..Size[b] -> 0..1] /\ f.out[i] = 1
      /\ \A j \in 1..Size[b] : j # i => f.out[j] = c.out[j]
  <2>1. PICK mails : mails = 1..Size[b]
      OBVIOUS
  <2>2. c.out \in [mails -> 0..1] /\ i \in mails /\ f.out = [c.out EXCEPT ![i] = 1] /\ 1 \in 0..1
      BY <1>1, <1>4, <1>5, <2>1
  <2>3. f.out \in [mails -> 0..1] /\ f.out[i] = 1 /\ \A j \in mails : j # i => f.out[j] = c.out[j]
      BY <2>2
  <2> QED BY <2>1, <2>3
<1>7. f \in Call(b)
    BY <1>3, <1>4, <1>5, <1>6 DEF Call
<1>8. Apart(b, f, {k})
  <2>1. \A l \in Lanes(b) \ {k} : c.lanes[l] # 0 => c.lanes[l] # i /\ f.out[c.lanes[l]] = 0
      BY <1>1, <1>4, <1>6 DEF CallOK, Apart
  <2>2. \A j \in 1..Size[b] : j > f.cursor => f.out[j] = 0
      BY <1>1, <1>4, <1>5, <1>6 DEF CallOK, Apart
  <2> QED BY <1>1, <1>5, <2>1, <2>2 DEF CallOK, Apart
<1>9. Complete(b, f, {k})
  <2>1. ASSUME c.result = "pending", NEW j \in 1..c.cursor
        PROVE  f.out[j] = 1 \/ j \in c.errors \/ \E l \in Lanes(b) \ {k} : c.lanes[l] = j
    <3>1. j \in 1..Size[b]
        BY <1>3, <1>4
    <3>2. c.out[j] = 1 \/ j \in c.errors \/ \E l \in Lanes(b) : c.lanes[l] = j
        BY <2>1, <1>1 DEF CallOK, Complete
    <3> QED BY <3>1, <3>2, <1>1, <1>6
  <2> QED BY <1>1, <1>5, <2>1 DEF CallOK, Complete
<1>10. f.sent = Cardinality(Out(b, f))
  <2>1. IsFiniteSet(Out(b, c))
    <3>1. IsFiniteSet(1..Size[b])
        BY <1>3, FS_Interval
    <3>2. Out(b, c) \in SUBSET (1..Size[b])
        BY DEF Out
    <3> QED BY <3>1, <3>2, FS_Subset
  <2>2. i \notin Out(b, c) /\ Out(b, f) = Out(b, c) \cup {i}
      BY <1>1, <1>6 DEF Out
  <2>3. Cardinality(Out(b, c) \cup {i}) = Cardinality(Out(b, c)) + 1
      BY <2>1, <2>2, FS_AddElement
  <2> QED BY <2>2, <2>3, <1>1, <1>5 DEF CallOK
<1>11. CallOK(b, Take(b, f, k), {})
  <2>1. CallOK(b, f, {k}) /\ f.result \notin {"none", "resolved"}
      BY <1>1, <1>5, <1>7, <1>8, <1>9, <1>10 DEF CallOK
  <2> QED BY <2>1, <1>1, TakeOK
<1>12. PICK d : d = Take(b, f, k)
    OBVIOUS
<1>13. MailOK' /\ calls'[b] = d /\ \A a \in Batch \ {b} : calls'[a] = calls[a]
    BY <1>2, <1>11, <1>12, OneCall
<1>14. d.result = c.result \/ (c.result = "pending" /\ d.result = "resolved")
    BY <1>5, <1>7, <1>12, TakeResult
<1> QED BY <1>13, <1>14 DEF Settles, c

\* An error is listed, or the call is over; nothing goes out.
LEMMA SendFailsOK ==
    ASSUME MailOK, NEW b \in Batch, NEW k \in DOMAIN calls[b].lanes, SendFails(b, k)
    PROVE  MailOK' /\ \A a \in Batch : Settles(a, {"resolved", "rejected"})
<1> DEFINE c == calls[b]
           i == calls[b].lanes[k]
           f == Listed(c, k)
           g == Rejects(c, k)
<1>1. /\ CallOK(b, c, {}) /\ k \in Lanes(b) /\ i \in 1..Size[b] /\ i \in 1..c.cursor
      /\ c.lanes[k] = i /\ c.out[i] = 0 /\ c.result \in {"pending", "rejected", "abandoned"}
    BY LaneSends DEF MailOK, SendFails
<1>2. /\ b \in Continue => calls' = [calls EXCEPT ![b] = Take(b, f, k)]
      /\ b \notin Continue => calls' = [calls EXCEPT ![b] = g]
    BY DEF SendFails
<1> HIDE DEF i, c
<1>3. c \in Call(b) /\ Size[b] \in Nat
    BY <1>1, MailAssumption DEF CallOK
<1>4. /\ c.lanes \in [Lanes(b) -> 0..Size[b]] /\ c.cursor \in 0..Size[b]
      /\ c.errors \in SUBSET (1..Size[b])
    BY <1>3 DEF Call
<1>5. CASE b \in Continue
  <2>1. /\ f.errors = c.errors \cup {i} /\ f.out = c.out /\ f.sent = c.sent
        /\ f.lanes = c.lanes /\ f.cursor = c.cursor /\ f.result = c.result
        /\ f = [lanes |-> f.lanes, cursor |-> f.cursor, sent |-> f.sent,
                errors |-> f.errors, out |-> f.out, result |-> f.result]
    <3>1. PICK errors : errors = c.errors \cup {i}
        OBVIOUS
    <3>2. f = [c EXCEPT !.errors = errors]
        BY <1>1, <1>3, <3>1 DEF Listed, Call
    <3> HIDE DEF f
    <3> QED BY <1>3, <3>1, <3>2 DEF Call
  <2> HIDE DEF f
  <2>2. f \in Call(b)
    <3>1. c.errors \cup {i} \in SUBSET (1..Size[b])
        BY <1>1, <1>4
    <3> QED BY <1>3, <2>1, <3>1 DEF Call
  <2>3. Apart(b, f, {k})
      BY <1>1, <2>1 DEF CallOK, Apart
  <2>4. Complete(b, f, {k})
    <3>1. ASSUME c.result = "pending", NEW j \in 1..c.cursor
          PROVE  c.out[j] = 1 \/ j \in f.errors \/ \E l \in Lanes(b) \ {k} : c.lanes[l] = j
      <4>1. c.out[j] = 1 \/ j \in c.errors \/ \E l \in Lanes(b) : c.lanes[l] = j
          BY <3>1, <1>1 DEF CallOK, Complete
      <4> QED BY <4>1, <1>1, <2>1
    <3> QED BY <1>1, <2>1, <3>1 DEF CallOK, Complete
  <2>5. Out(b, f) = Out(b, c)
      BY <2>1 DEF Out
  <2>6. CallOK(b, Take(b, f, k), {})
    <3>1. CallOK(b, f, {k}) /\ f.result \notin {"none", "resolved"}
        BY <1>1, <2>1, <2>2, <2>3, <2>4, <2>5 DEF CallOK
    <3> QED BY <3>1, <1>1, TakeOK
  <2>7. PICK d : d = Take(b, f, k)
      OBVIOUS
  <2>8. MailOK' /\ calls'[b] = d /\ \A a \in Batch \ {b} : calls'[a] = calls[a]
      BY <1>2, <1>5, <2>6, <2>7, OneCall
  <2>9. d.result = c.result \/ (c.result = "pending" /\ d.result = "resolved")
      BY <2>1, <2>2, <2>7, TakeResult
  <2> QED BY <2>8, <2>9 DEF Settles, c
<1>6. CASE b \notin Continue
  <2>1. /\ g.lanes = [c.lanes EXCEPT ![k] = 0] /\ g.cursor = c.cursor /\ g.sent = c.sent
        /\ g.out = c.out /\ g.errors = c.errors
        /\ g.result = IF c.result = "pending" THEN "rejected" ELSE c.result
        /\ g = [lanes |-> g.lanes, cursor |-> g.cursor, sent |-> g.sent,
                errors |-> g.errors, out |-> g.out, result |-> g.result]
    <3>1. PICK lanes : lanes = [c.lanes EXCEPT ![k] = 0]
        OBVIOUS
    <3>2. PICK r : r = IF c.result = "pending" THEN "rejected" ELSE c.result
        OBVIOUS
    <3>3. g = [c EXCEPT !.lanes = lanes, !.result = r]
        BY <1>3, <3>1, <3>2 DEF Rejects, Call
    <3> HIDE DEF g
    <3> QED BY <1>3, <3>1, <3>2, <3>3 DEF Call
  <2> HIDE DEF g
  <2>2. /\ g.lanes \in [Lanes(b) -> 0..Size[b]] /\ g.lanes[k] = 0
        /\ \A l \in Lanes(b) \ {k} : g.lanes[l] = c.lanes[l]
      BY <1>1, <1>3, <1>4, <2>1
  <2>3. g.result \in {"rejected", "abandoned"}
      BY <1>1, <2>1
  <2>4. g \in Call(b)
      BY <1>3, <2>1, <2>2, <2>3 DEF Call, Results
  <2>5. Apart(b, g, {})
      BY <1>1, <1>4, <2>1, <2>2 DEF CallOK, Apart
  <2>6. Complete(b, g, {})
      BY <2>3 DEF Complete
  <2>7. Out(b, g) = Out(b, c)
      BY <2>1 DEF Out
  <2>8. CallOK(b, g, {})
      BY <1>1, <2>1, <2>4, <2>5, <2>6, <2>7 DEF CallOK
  <2>9. MailOK' /\ calls'[b] = g /\ \A a \in Batch \ {b} : calls'[a] = calls[a]
      BY <1>2, <1>6, <2>8, OneCall
  <2> QED BY <1>1, <2>1, <2>9 DEF Settles, c
<1> QED BY <1>5, <1>6

\* A call begins with a mail in every lane, or resolves at once when it has none to send.
LEMMA SendBulkOK ==
    ASSUME MailOK, NEW b \in Batch, SendBulk(b)
    PROVE  /\ MailOK' /\ calls[b].result = "none"
           /\ calls'[b].result \in {"pending", "resolved"}
           /\ \A a \in Batch \ {b} : calls'[a] = calls[a]
<1> DEFINE c == calls[b]
           h == Begun(b)
<1>1. c.result = "none" /\ CallOK(b, c, {}) /\ calls' = [calls EXCEPT ![b] = Settled(h)]
    BY DEF SendBulk, MailOK
<1>2. PICK m \in 0..Size[b] : Lanes(b) = 1..m /\ Cardinality(Lanes(b)) = m
    BY LanesExist
<1>3. c \in Call(b) /\ Size[b] \in Nat
    BY <1>1, MailAssumption DEF CallOK
<1>4. /\ h.lanes = [k \in Lanes(b) |-> k] /\ h.cursor = m /\ h.sent = c.sent
      /\ h.out = c.out /\ h.errors = c.errors /\ h.result = "pending"
      /\ h = [lanes |-> h.lanes, cursor |-> h.cursor, sent |-> h.sent,
              errors |-> h.errors, out |-> h.out, result |-> h.result]
  <2>1. PICK lanes : lanes = [k \in Lanes(b) |-> k]
      OBVIOUS
  <2>2. h = [c EXCEPT !.lanes = lanes, !.cursor = m, !.result = "pending"]
      BY <1>2, <2>1 DEF Begun
  <2> HIDE DEF h, c
  <2> QED BY <1>3, <2>1, <2>2 DEF Call
<1> HIDE DEF h, c
<1>5. h.lanes \in [Lanes(b) -> 0..Size[b]] /\ \A k \in Lanes(b) : h.lanes[k] = k /\ k \in 1..m
    BY <1>2, <1>3, <1>4
<1>6. h \in Call(b)
    BY <1>2, <1>3, <1>4, <1>5 DEF Call, Results
<1>7. \A i \in 1..Size[b] : c.out[i] = 0
    BY <1>1, <1>3 DEF CallOK, Apart, Complete
<1>8. Apart(b, h, {})
    BY <1>2, <1>3, <1>4, <1>5, <1>7 DEF Apart
<1>9. Complete(b, h, {})
  <2>1. \A i \in 1..m : \E k \in Lanes(b) : h.lanes[k] = i
      BY <1>2, <1>5
  <2>2. \A k \in Lanes(b) : h.lanes[k] # 0
      BY <1>2, <1>3, <1>5
  <2> QED BY <1>4, <2>1, <2>2 DEF Complete
<1>10. CallOK(b, h, {})
  <2>1. Out(b, h) = Out(b, c)
      BY <1>4 DEF Out
  <2> QED BY <2>1, <1>1, <1>4, <1>6, <1>8, <1>9 DEF CallOK
<1>11. PICK d : d = Settled(h)
    OBVIOUS
<1>12. CallOK(b, d, {})
    BY <1>10, <1>11, SettledOK
<1>13. MailOK' /\ calls'[b] = d /\ \A a \in Batch \ {b} : calls'[a] = calls[a]
    BY <1>1, <1>11, <1>12, OneCall
<1>14. d.result \in {"pending", "resolved"}
    BY <1>4, <1>11 DEF Settled
<1> QED BY <1>1, <1>13, <1>14 DEF c

\* What was pending among the calls of a process that ends is abandoned.
LEMMA AbandonOK ==
    ASSUME MailOK, NEW B, Abandon(B)
    PROVE  /\ MailOK'
           /\ \A b \in Batch : calls'[b].result =
                 IF b \in B /\ calls[b].result = "pending" THEN "abandoned" ELSE calls[b].result
<1>1. calls' = [b \in Batch |-> calls'[b]]
    BY DEF Abandon
<1>2. ASSUME NEW b \in Batch
      PROVE  /\ CallOK(b, calls'[b], {})
             /\ calls'[b].result =
                 IF b \in B /\ calls[b].result = "pending" THEN "abandoned" ELSE calls[b].result
  <2> DEFINE c == calls[b]
             g == [c EXCEPT !.lanes = [k \in DOMAIN @ |-> 0],
                            !.result = IF @ = "pending" THEN "abandoned" ELSE @]
  <2>1. /\ CallOK(b, c, {})
        /\ b \in B => calls'[b] = g
        /\ b \notin B => calls'[b] = c
      BY DEF Abandon, MailOK
  <2> HIDE DEF c
  <2>2. c \in Call(b) /\ Size[b] \in Nat /\ DOMAIN c.lanes = Lanes(b)
      BY <2>1, MailAssumption DEF CallOK, Call
  <2>3. /\ g.lanes = [k \in Lanes(b) |-> 0] /\ g.cursor = c.cursor /\ g.sent = c.sent
        /\ g.out = c.out /\ g.errors = c.errors
        /\ g.result = IF c.result = "pending" THEN "abandoned" ELSE c.result
        /\ g = [lanes |-> g.lanes, cursor |-> g.cursor, sent |-> g.sent,
                errors |-> g.errors, out |-> g.out, result |-> g.result]
    <3>1. PICK lanes : lanes = [k \in Lanes(b) |-> 0]
        OBVIOUS
    <3>2. PICK r : r = IF c.result = "pending" THEN "abandoned" ELSE c.result
        OBVIOUS
    <3>3. g = [c EXCEPT !.lanes = lanes, !.result = r]
        BY <2>2, <3>1, <3>2 DEF Call
    <3> HIDE DEF g
    <3> QED BY <2>2, <3>1, <3>2, <3>3 DEF Call
  <2> HIDE DEF g
  <2>4. g.result \in Results \ {"pending"}
      BY <2>2, <2>3 DEF Call, Results
  <2>5. g.lanes \in [Lanes(b) -> 0..Size[b]] /\ \A k \in Lanes(b) : g.lanes[k] = 0
      BY <2>2, <2>3
  <2>6. g \in Call(b)
      BY <2>2, <2>3, <2>4, <2>5 DEF Call
  <2>7. Apart(b, g, {})
      BY <2>1, <2>2, <2>3, <2>5 DEF CallOK, Apart, Call
  <2>8. Complete(b, g, {})
      BY <2>1, <2>3, <2>4, <2>5 DEF CallOK, Complete
  <2>9. CallOK(b, g, {})
    <3>1. Out(b, g) = Out(b, c)
        BY <2>3 DEF Out
    <3> QED BY <3>1, <2>1, <2>3, <2>6, <2>7, <2>8 DEF CallOK
  <2> QED BY <2>1, <2>3, <2>9 DEF c
<1> QED BY <1>1, <1>2 DEF MailOK, CallOK, Call, Apart, Complete, Out, Lanes
-----------------------------------------------------------------------------
Record == [state : {"new", "waiting", "active", "completed", "failed"}, made : Nat, runs : Nat]

\* The attempts of j that threw and were counted as made.
Rejected(j) == {n \in 1..job[j].runs : /\ calls[<<j, n>>].result = "rejected"
                                       /\ n < job[j].runs \/ job[j].state # "active"}

\* An attempt that is neither made nor the last one was cut off by a death.
JobOK(j) ==
    /\ bulk[QueueOf[j]] = "adding" => job[j].state = "new"
    /\ job[j].state = "new" => job[j].runs = 0
    /\ job[j].state = "active" => job[j].runs # 0
    /\ IF job[j].state = "failed" THEN job[j].made = Tries[j] ELSE job[j].made < Tries[j]
    /\ job[j].runs <= job[j].made + deaths
                      + (IF job[j].state \in {"active", "completed"} THEN 1 ELSE 0)
    /\ hook[j] # "none" => job[j].state = "failed"

Counted(j) == j \in Registered => job[j].made <= Cardinality(Rejected(j))

\* A call is pending only while its job is active.
PendingOK(b) ==
    calls[b].result = "pending" =>
        \E j \in Registered : job[j].state = "active" /\ b = <<j, job[j].runs>>

SlotsOK(q) == IsFiniteSet(Active(q)) /\ Cardinality(Active(q)) <= Slots

Abandoned == {b \in Batch : calls[b].result = "abandoned"}

AbandonedOK == IsFiniteSet(Abandoned) /\ Cardinality(Abandoned) <= Slots * deaths

JobsOK ==
    /\ job \in [Job -> Record] /\ hook = [j \in Job |-> hook[j]]
    /\ bulk = [q \in QueueName |-> bulk[q]] /\ deaths \in 0..MaxDeaths
    /\ \A j \in Job : JobOK(j) /\ Counted(j)
    /\ \A b \in Batch : PendingOK(b)
    /\ \A q \in QueueName : SlotsOK(q)
    /\ AbandonedOK

Inv == MailOK /\ JobsOK

\* Deaths and tries bound the attempts of a job, so each has its batch.
LEMMA RunsHaveBatches ==
    ASSUME JobsOK, NEW j \in Job
    PROVE  /\ job[j] \in Record /\ Tries[j] \in Nat /\ QueueOf[j] \in QueueName
           /\ \A n \in 1..job[j].runs : <<j, n>> \in Batch
           /\ job[j].state = "waiting" => <<j, job[j].runs + 1>> \in Batch
<1>1. job[j] \in Record /\ Tries[j] \in Nat /\ QueueOf[j] \in QueueName
    BY QueueAssumption DEF JobsOK
<1>2. job[j].runs \in Nat /\ job[j].made \in Nat /\ deaths \in Nat /\ deaths <= MaxDeaths
      /\ MaxDeaths \in Nat
    BY <1>1, QueueAssumption DEF JobsOK, Record
<1>3. /\ job[j].runs <= Tries[j] + MaxDeaths
      /\ job[j].state = "waiting" => job[j].runs + 1 <= Tries[j] + MaxDeaths
  <2>1. JobOK(j)
      BY DEF JobsOK
  <2> QED BY <2>1, <1>1, <1>2 DEF JobOK
<1>4. \A n \in 1..(Tries[j] + MaxDeaths) : <<j, n>> \in Batch
    BY QueueAssumption DEF Attempts
<1> QED BY <1>1, <1>2, <1>3, <1>4

\* What was rejected and counted stays so.
LEMMA RejectedGrows ==
    ASSUME JobsOK, NEW j \in Job, job'[j].runs \in Nat, job[j].runs <= job'[j].runs,
           \A n \in 1..job[j].runs :
               /\ calls[<<j, n>>].result = "rejected" => calls'[<<j, n>>].result = "rejected"
               /\ n < job[j].runs \/ job[j].state # "active" =>
                      n < job'[j].runs \/ job'[j].state # "active"
    PROVE  /\ Rejected(j) \subseteq Rejected(j)' /\ IsFiniteSet(Rejected(j)')
           /\ Cardinality(Rejected(j)) <= Cardinality(Rejected(j)')
           /\ IsFiniteSet(Rejected(j)) /\ Cardinality(Rejected(j)) \in Nat
           /\ Cardinality(Rejected(j)') \in Nat
<1>1. job[j].runs \in Nat
    BY RunsHaveBatches DEF Record
<1> DEFINE S == {n \in 1..job'[j].runs : /\ calls'[<<j, n>>].result = "rejected"
                                         /\ n < job'[j].runs \/ job'[j].state # "active"}
<1>2. Rejected(j)' = S
    BY DEF Rejected
<1> HIDE DEF S
<1>3. Rejected(j) \subseteq S
    BY <1>1 DEF Rejected, S
<1>4. IsFiniteSet(S)
  <2>1. IsFiniteSet(1..job'[j].runs)
    <3>1. PICK n \in Nat : n = job'[j].runs
        OBVIOUS
    <3> QED BY <3>1, FS_Interval
  <2>2. S \in SUBSET (1..job'[j].runs)
      BY DEF S
  <2> QED BY <2>1, <2>2, FS_Subset
<1>5. IsFiniteSet(Rejected(j)) /\ Cardinality(Rejected(j)) <= Cardinality(S)
    BY <1>3, <1>4, FS_Subset
<1>6. Cardinality(Rejected(j)) \in Nat /\ Cardinality(S) \in Nat
    BY <1>4, <1>5, FS_CardinalityType
<1> QED BY <1>2, <1>3, <1>4, <1>5, <1>6

\* Jobs that are added were new: nothing has begun for them.
LEMMA AddBulkOK ==
    ASSUME JobsOK, NEW q \in QueueName, AddBulk(q)
    PROVE  JobsOK'
<1>1. /\ job' \in [Job -> Record]
      /\ \A j \in Job : /\ job'[j].made = job[j].made /\ job'[j].runs = job[j].runs
                        /\ IF QueueOf[j] = q THEN job[j].state = "new" /\ job'[j].state = "waiting"
                                             ELSE job'[j].state = job[j].state
  <2>1. ASSUME NEW j \in Job
        PROVE  /\ job'[j] \in Record /\ job'[j].made = job[j].made /\ job'[j].runs = job[j].runs
               /\ IF QueueOf[j] = q THEN job[j].state = "new" /\ job'[j].state = "waiting"
                                    ELSE job'[j].state = job[j].state
    <3>1. job'[j] = IF QueueOf[j] = q THEN [job[j] EXCEPT !.state = "waiting"] ELSE job[j]
        BY DEF AddBulk
    <3>2. job[j] \in Record /\ (QueueOf[j] = q => job[j].state = "new")
        BY DEF JobsOK, JobOK, AddBulk
    <3> QED BY <3>1, <3>2 DEF Record
  <2> QED BY <2>1 DEF AddBulk
<1>2. UNCHANGED <<calls, hook, deaths>> /\ bulk' = [bulk EXCEPT ![q] = "added"]
    BY DEF AddBulk, ends
<1>3. ASSUME NEW j \in Job PROVE JobOK(j)' /\ Counted(j)'
  <2>1. job[j] \in Record /\ QueueOf[j] \in QueueName /\ JobOK(j) /\ Counted(j)
      BY RunsHaveBatches DEF JobsOK
  <2>2. bulk'[QueueOf[j]] = "adding" => QueueOf[j] # q /\ bulk[QueueOf[j]] = "adding"
      BY <1>2, <2>1 DEF JobsOK
  <2>3. JobOK(j)'
      BY <1>1, <1>2, <2>1, <2>2 DEF JobOK, Record
  <2>4. Counted(j)'
    <3>1. job[j].runs \in Nat /\ job[j].made \in Nat
        BY <2>1 DEF Record
    <3>2. Cardinality(Rejected(j)) \in Nat /\ Cardinality(Rejected(j)') \in Nat
          /\ Cardinality(Rejected(j)) <= Cardinality(Rejected(j)')
        BY <1>1, <1>2, <3>1, RejectedGrows
    <3> QED BY <1>1, <2>1, <3>1, <3>2 DEF Counted
  <2> QED BY <2>3, <2>4
<1>4. ASSUME NEW b \in Batch PROVE PendingOK(b)'
    BY <1>1, <1>2, QueueAssumption DEF JobsOK, PendingOK
<1>5. \A p \in QueueName : SlotsOK(p)'
  <2>1. \A p \in QueueName : Active(p)' = Active(p)
      BY <1>1 DEF Active
  <2> QED BY <2>1 DEF JobsOK, SlotsOK
<1>6. AbandonedOK'
    BY <1>2 DEF JobsOK, AbandonedOK, Abandoned
<1> QED BY <1>1, <1>2, <1>3, <1>4, <1>5, <1>6 DEF JobsOK

\* Steps of the calls alone: a call that settles was pending.
LEMMA SendsOK ==
    ASSUME JobsOK, UNCHANGED <<bulk, job, hook, deaths>>,
           \A b \in Batch : Settles(b, {"resolved", "rejected"})
    PROVE  JobsOK'
<1>1. ASSUME NEW j \in Job PROVE JobOK(j)' /\ Counted(j)'
  <2>1. job[j] \in Record /\ JobOK(j) /\ Counted(j)
      BY DEF JobsOK
  <2>2. \A n \in 1..job[j].runs :
            calls[<<j, n>>].result = "rejected" => calls'[<<j, n>>].result = "rejected"
      BY RunsHaveBatches DEF Settles
  <2>3. job[j].runs \in Nat /\ job[j].made \in Nat
      BY <2>1 DEF Record
  <2>4. Cardinality(Rejected(j)) \in Nat /\ Cardinality(Rejected(j)') \in Nat
        /\ Cardinality(Rejected(j)) <= Cardinality(Rejected(j)')
      BY <2>2, <2>3, RejectedGrows
  <2> QED BY <2>1, <2>3, <2>4 DEF JobOK, Counted
<1>2. ASSUME NEW b \in Batch PROVE PendingOK(b)'
    BY DEF JobsOK, PendingOK, Settles
<1>3. \A p \in QueueName : SlotsOK(p)'
    BY DEF JobsOK, SlotsOK, Active
<1>4. AbandonedOK'
  <2>1. Abandoned' = Abandoned
      BY DEF Abandoned, Settles
  <2> QED BY <2>1 DEF JobsOK, AbandonedOK
<1> QED BY <1>1, <1>2, <1>3, <1>4 DEF JobsOK

\* One job changes, to r: the others keep their record.
LEMMA OneJob ==
    ASSUME JobsOK, NEW j \in Job, NEW r \in Record, job' = [job EXCEPT ![j] = r]
    PROVE  /\ job' \in [Job -> Record] /\ job'[j] = r
           /\ \A i \in Job \ {j} : job'[i] = job[i]
BY DEF JobsOK

\* An attempt begins: it takes a slot that is free, and a batch of its own.
LEMMA ProcessOK ==
    ASSUME MailOK, JobsOK, NEW j \in Job, Process(j)
    PROVE  MailOK' /\ JobsOK'
<1> DEFINE q == QueueOf[j]
           B == <<j, job[j].runs + 1>>
           r == [state |-> "active", made |-> job[j].made, runs |-> job[j].runs + 1]
<1>1. /\ job[j] \in Record /\ job[j].state = "waiting" /\ q \in QueueName /\ B \in Batch
      /\ Cardinality(Active(q)) < Slots /\ UNCHANGED <<bulk, hook, deaths>>
      /\ IF j \in Registered THEN SendBulk(B) ELSE UNCHANGED calls
      /\ r \in Record /\ job[j].runs \in Nat /\ job[j].made \in Nat
    BY RunsHaveBatches DEF Process, ends, Record
<1>2. job' \in [Job -> Record] /\ job'[j] = r /\ \A i \in Job \ {j} : job'[i] = job[i]
  <2>1. job' = [job EXCEPT ![j] = r]
    <3>1. PICK n : n = job[j].runs + 1
        OBVIOUS
    <3>2. job' = [job EXCEPT ![j].state = "active", ![j].runs = n]
        BY <3>1 DEF Process
    <3> QED BY <3>1, <3>2, <1>1 DEF JobsOK, Record
  <2> QED BY <2>1, <1>1, OneJob
<1> HIDE DEF r
<1>3. r.state = "active" /\ r.made = job[j].made /\ r.runs = job[j].runs + 1
    BY DEF r
<1>4. /\ MailOK'
      /\ \A b \in Batch \ {B} : calls'[b] = calls[b]
      /\ calls'[B].result = calls[B].result
            \/ (/\ j \in Registered /\ calls[B].result = "none"
                /\ calls'[B].result \in {"pending", "resolved"})
  <2>1. CASE j \in Registered
      BY <2>1, <1>1, SendBulkOK
  <2>2. CASE j \notin Registered
    <3>1. UNCHANGED calls
        BY <2>2, <1>1
    <3>2. MailOK'
        BY <3>1, MailStutters
    <3> QED BY <3>1, <3>2
  <2> QED BY <2>1, <2>2
<1>5. ASSUME NEW i \in Job PROVE JobOK(i)' /\ Counted(i)'
  <2>1. job[i] \in Record /\ JobOK(i) /\ Counted(i) /\ Tries[i] \in Nat
      BY RunsHaveBatches DEF JobsOK
  <2>2. job[i].runs \in Nat /\ job[i].made \in Nat /\ deaths \in Nat
      BY <2>1, QueueAssumption DEF JobsOK, Record
  <2>3. JobOK(i)'
    <3>1. CASE i = j
        BY <3>1, <1>1, <1>2, <1>3, <2>1, <2>2 DEF JobOK
    <3>2. CASE i # j
        BY <3>2, <1>1, <1>2, <2>1, <2>2 DEF JobOK
    <3> QED BY <3>1, <3>2
  <2>4. ASSUME NEW n \in 1..job[i].runs PROVE <<i, n>> \in Batch /\ <<i, n>> # B
    <3>1. <<i, n>> \in Batch
        BY RunsHaveBatches
    <3>2. i = j => n # job[j].runs + 1
        BY <2>2
    <3> QED BY <3>1, <3>2
  <2>5. job'[i].runs \in Nat /\ job[i].runs <= job'[i].runs
        /\ (i = j => job[i].runs < job'[i].runs)
    <3>1. CASE i = j
        BY <3>1, <1>2, <1>3, <2>2
    <3>2. CASE i # j
        BY <3>2, <1>2, <2>2
    <3> QED BY <3>1, <3>2
  <2>6. \A n \in 1..job[i].runs :
            /\ calls[<<i, n>>].result = "rejected" => calls'[<<i, n>>].result = "rejected"
            /\ n < job[i].runs \/ job[i].state # "active" =>
                   n < job'[i].runs \/ job'[i].state # "active"
    <3>1. \A n \in 1..job[i].runs : i = j => n < job'[i].runs
        BY <2>2, <2>5
    <3> QED BY <3>1, <1>2, <1>4, <2>4
  <2>7. Cardinality(Rejected(i)) \in Nat /\ Cardinality(Rejected(i)') \in Nat
        /\ Cardinality(Rejected(i)) <= Cardinality(Rejected(i)')
      BY <2>5, <2>6, RejectedGrows
  <2>8. job'[i].made = job[i].made
      BY <1>2, <1>3
  <2>9. Counted(i)'
      BY <2>1, <2>2, <2>7, <2>8 DEF Counted
  <2> QED BY <2>3, <2>9
<1>6. ASSUME NEW b \in Batch PROVE PendingOK(b)'
  <2>1. SUFFICES ASSUME calls'[b].result = "pending"
                 PROVE  \E i \in Registered : /\ job'[i].state = "active"
                                              /\ b = <<i, job'[i].runs>>
      BY DEF PendingOK
  <2>2. CASE b = B /\ j \in Registered
      BY <2>2, <1>2, <1>3
  <2>3. CASE ~(b = B /\ j \in Registered)
    <3>1. calls[b].result = "pending"
        BY <2>1, <2>3, <1>4
    <3>2. PICK i \in Registered : job[i].state = "active" /\ b = <<i, job[i].runs>>
        BY <3>1 DEF JobsOK, PendingOK
    <3>3. i # j /\ i \in Job
        BY <3>2, <1>1, QueueAssumption
    <3> QED BY <3>2, <3>3, <1>2
  <2> QED BY <2>2, <2>3
<1>7. ASSUME NEW p \in QueueName PROVE SlotsOK(p)'
  <2>1. SlotsOK(p)
      BY DEF JobsOK
  <2>2. CASE p = q
    <3>1. Active(p)' = Active(p) \cup {j} /\ j \notin Active(p)
        BY <2>2, <1>1, <1>2, <1>3 DEF Active
    <3>2. IsFiniteSet(Active(p) \cup {j})
          /\ Cardinality(Active(p) \cup {j}) = Cardinality(Active(p)) + 1
        BY <2>1, <3>1, FS_AddElement DEF SlotsOK
    <3>3. Cardinality(Active(p)) \in Nat /\ Slots \in Nat
        BY <2>1, FS_CardinalityType, QueueAssumption DEF SlotsOK
    <3>4. Cardinality(Active(p)) + 1 <= Slots
        BY <3>3, <1>1, <2>2
    <3> QED BY <3>1, <3>2, <3>4 DEF SlotsOK
  <2>3. CASE p # q
    <3>1. Active(p)' = Active(p)
        BY <2>3, <1>2 DEF Active
    <3> QED BY <2>1, <3>1 DEF SlotsOK
  <2> QED BY <2>2, <2>3
<1>8. AbandonedOK'
  <2>1. Abandoned' = Abandoned
      BY <1>4 DEF Abandoned
  <2> QED BY <2>1, <1>1 DEF JobsOK, AbandonedOK
<1>9. /\ hook' = [i \in Job |-> hook'[i]] /\ bulk' = [p \in QueueName |-> bulk'[p]]
      /\ deaths' \in 0..MaxDeaths
    BY <1>1 DEF JobsOK
<1> QED BY <1>2, <1>4, <1>5, <1>6, <1>7, <1>8, <1>9 DEF JobsOK

\* An attempt ends, and the job with it or not: its call is settled, and its slot is free.
LEMMA AttemptEnds ==
    ASSUME JobsOK, NEW j \in Job, job[j].state = "active",
           j \in Registered => calls[Attempt(j)].result # "pending",
           NEW r \in Record, job' = [job EXCEPT ![j] = r], r.state # "active",
           UNCHANGED <<calls, deaths, bulk>>, hook' = [i \in Job |-> hook'[i]],
           JobOK(j)', Counted(j)', \A i \in Job \ {j} : hook'[i] = hook[i]
    PROVE  JobsOK'
<1>1. job' \in [Job -> Record] /\ job'[j] = r /\ \A i \in Job \ {j} : job'[i] = job[i]
    BY OneJob
<1>2. ASSUME NEW i \in Job \ {j} PROVE JobOK(i)' /\ Counted(i)'
  <2>1. JobOK(i) /\ Counted(i)
      BY DEF JobsOK
  <2>2. Rejected(i)' = Rejected(i)
      BY <1>1 DEF Rejected
  <2> QED BY <2>1, <2>2, <1>1 DEF JobOK, Counted
<1>3. ASSUME NEW b \in Batch PROVE PendingOK(b)'
  <2>1. SUFFICES ASSUME calls[b].result = "pending"
                 PROVE  \E i \in Registered : /\ job'[i].state = "active"
                                              /\ b = <<i, job'[i].runs>>
      BY DEF PendingOK
  <2>2. PICK i \in Registered : job[i].state = "active" /\ b = <<i, job[i].runs>>
      BY <2>1 DEF JobsOK, PendingOK
  <2>3. i # j /\ i \in Job
      BY <2>1, <2>2, QueueAssumption DEF Attempt
  <2> QED BY <2>2, <2>3, <1>1
<1>4. ASSUME NEW p \in QueueName PROVE SlotsOK(p)'
  <2>1. SlotsOK(p)
      BY DEF JobsOK
  <2>2. Active(p)' \in SUBSET Active(p)
      BY <1>1 DEF Active
  <2>3. PICK S : S = Active(p)'
      OBVIOUS
  <2>4. IsFiniteSet(S) /\ Cardinality(S) <= Cardinality(Active(p))
      BY <2>1, <2>2, <2>3, FS_Subset DEF SlotsOK
  <2>5. Cardinality(S) \in Nat /\ Cardinality(Active(p)) \in Nat /\ Slots \in Nat
      BY <2>1, <2>4, FS_CardinalityType, QueueAssumption DEF SlotsOK
  <2>6. Cardinality(S) <= Slots
      BY <2>1, <2>4, <2>5 DEF SlotsOK
  <2> QED BY <2>3, <2>4, <2>6 DEF SlotsOK
<1>5. AbandonedOK'
    BY DEF JobsOK, AbandonedOK, Abandoned
<1> QED BY <1>1, <1>2, <1>3, <1>4, <1>5 DEF JobsOK

LEMMA CompletesOK ==
    ASSUME JobsOK, NEW j \in Job, Completes(j)
    PROVE  JobsOK'
<1> DEFINE r == [state |-> "completed", made |-> job[j].made, runs |-> job[j].runs]
<1>1. /\ job[j] \in Record /\ job[j].state = "active" /\ calls[Attempt(j)].result = "resolved"
      /\ UNCHANGED <<calls, bulk, hook, deaths>>
      /\ JobOK(j) /\ Counted(j) /\ Tries[j] \in Nat
      /\ job[j].runs \in Nat /\ job[j].made \in Nat
    BY RunsHaveBatches DEF Completes, ends, JobsOK, Record
<1>2. r \in Record /\ job' = [job EXCEPT ![j] = r]
  <2>1. job[j] = [state |-> job[j].state, made |-> job[j].made, runs |-> job[j].runs]
      BY <1>1 DEF Record
  <2>2. PICK old : old = job[j]
      OBVIOUS
  <2>3. [old EXCEPT !.state = "completed"] = r
      BY <2>1, <2>2
  <2>4. job' = [job EXCEPT ![j] = [old EXCEPT !.state = "completed"]]
      BY <2>2, <1>1 DEF Completes, JobsOK
  <2> QED BY <2>3, <2>4, <1>1 DEF Record
<1>3. r.state = "completed" /\ r.made = job[j].made /\ r.runs = job[j].runs
    OBVIOUS
<1> HIDE DEF r
<1>4. job'[j] = r
    BY <1>2, OneJob
<1>5. JobOK(j)'
    BY <1>1, <1>3, <1>4 DEF JobOK
<1>6. Counted(j)'
  <2>1. Cardinality(Rejected(j)) \in Nat /\ Cardinality(Rejected(j)') \in Nat
        /\ Cardinality(Rejected(j)) <= Cardinality(Rejected(j)')
      BY <1>1, <1>3, <1>4, RejectedGrows
  <2> QED BY <2>1, <1>1, <1>3, <1>4 DEF Counted
<1>7. hook' = [i \in Job |-> hook'[i]] /\ \A i \in Job \ {j} : hook'[i] = hook[i]
    BY <1>1 DEF JobsOK
<1> QED BY <1>1, <1>2, <1>3, <1>5, <1>6, <1>7, AttemptEnds

\* The attempt that failed is one more that was rejected.
LEMMA FailsOK ==
    ASSUME JobsOK, NEW j \in Job, Fails(j)
    PROVE  JobsOK'
<1> DEFINE n == job[j].made + 1
           st == IF n < Tries[j] THEN "waiting" ELSE "failed"
           r == [state |-> st, made |-> n, runs |-> job[j].runs]
<1>1. /\ job[j] \in Record /\ job[j].state = "active"
      /\ j \in Registered => calls[Attempt(j)].result = "rejected"
      /\ UNCHANGED <<calls, bulk, deaths>>
      /\ JobOK(j) /\ Counted(j) /\ Tries[j] \in Nat
      /\ job[j].runs \in Nat /\ job[j].made \in Nat
    BY RunsHaveBatches DEF Fails, ends, JobsOK, Record
<1>2. job' = [job EXCEPT ![j] = r]
  <2>1. PICK m : m = n
      OBVIOUS
  <2>2. PICK t : t = st
      OBVIOUS
  <2>3. job' = [job EXCEPT ![j].made = m, ![j].state = t]
      BY <2>1, <2>2 DEF Fails
  <2>4. job[j] = [state |-> job[j].state, made |-> job[j].made, runs |-> job[j].runs]
      BY <1>1 DEF Record
  <2>5. PICK old : old = job[j]
      OBVIOUS
  <2>6. [old EXCEPT !.made = m, !.state = t] = r
    <3>1. r = [state |-> t, made |-> m, runs |-> old.runs]
        BY <2>1, <2>2, <2>5
    <3>2. PICK e : e = [old EXCEPT !.made = m, !.state = t]
        OBVIOUS
    <3>3. /\ e.state = t /\ e.made = m /\ e.runs = old.runs
          /\ e = [state |-> e.state, made |-> e.made, runs |-> e.runs]
        BY <3>2, <2>5, <1>1 DEF Record
    <3> HIDE DEF n, st, r
    <3> QED BY <3>1, <3>2, <3>3
  <2>7. job' = [job EXCEPT ![j] = [old EXCEPT !.made = m, !.state = t]]
    <3>1. DOMAIN job = Job /\ DOMAIN old = {"state", "made", "runs"}
        BY <2>4, <2>5 DEF JobsOK
    <3> HIDE DEF n, st, r
    <3> QED BY <2>3, <2>5, <3>1
  <2> QED BY <2>6, <2>7
<1>3. r \in Record /\ r.state = st /\ r.made = n /\ r.runs = job[j].runs
    BY <1>1 DEF Record
<1>4. hook' = [hook EXCEPT ![j] = HandleFailed(j, n)]
    BY DEF Fails
<1>5. /\ n \in Nat /\ st # "active"
      /\ IF st = "failed" THEN n = Tries[j] ELSE n < Tries[j] /\ st = "waiting"
    BY <1>1 DEF JobOK
<1>6. HandleFailed(j, n) # "none" => st = "failed"
    BY <1>1, <1>5 DEF HandleFailed, JobOK
<1>7. n = job[j].made + 1
    OBVIOUS
<1> HIDE DEF r, st, n
<1>8. job'[j] = r
    BY <1>2, <1>3, OneJob
<1>9. hook' = [i \in Job |-> hook'[i]] /\ hook'[j] = HandleFailed(j, n)
      /\ \A i \in Job \ {j} : hook'[i] = hook[i]
    BY <1>4 DEF JobsOK
<1>10. JobOK(j)'
  <2>1. bulk[QueueOf[j]] # "adding" /\ deaths \in Nat
      BY <1>1, QueueAssumption DEF JobOK, JobsOK
  <2>2. r.runs <= r.made + deaths
      BY <1>1, <1>3, <1>7, <2>1 DEF JobOK
  <2>3. r.state # "new" /\ r.state # "completed"
      BY <1>3, <1>5
  <2> QED BY <1>1, <1>3, <1>5, <1>6, <1>8, <1>9, <2>1, <2>2, <2>3 DEF JobOK
<1>11. Counted(j)'
  <2>1. SUFFICES ASSUME j \in Registered PROVE n <= Cardinality(Rejected(j)')
      BY <1>3, <1>8 DEF Counted
  <2>2. /\ Rejected(j) \subseteq Rejected(j)' /\ IsFiniteSet(Rejected(j)')
        /\ IsFiniteSet(Rejected(j)) /\ Cardinality(Rejected(j)) \in Nat
        /\ Cardinality(Rejected(j)') \in Nat
      BY <1>1, <1>3, <1>5, <1>8, RejectedGrows
  <2>3. job[j].runs \notin Rejected(j)
      BY <1>1 DEF Rejected
  <2>4. job[j].runs \in 1..job[j].runs
    <3>1. job[j].runs # 0
        BY <1>1 DEF JobOK
    <3> QED BY <3>1, <1>1
  <2>5. job[j].runs \in Rejected(j)'
      BY <1>1, <1>3, <1>5, <1>8, <2>1, <2>4 DEF Rejected, Attempt
  <2>6. PICK S : S = Rejected(j)'
      OBVIOUS
  <2>7. Cardinality(Rejected(j) \cup {job[j].runs}) = Cardinality(Rejected(j)) + 1
        /\ Cardinality(Rejected(j) \cup {job[j].runs}) <= Cardinality(S)
    <3>1. Rejected(j) \cup {job[j].runs} \in SUBSET S /\ IsFiniteSet(S)
        BY <2>2, <2>5, <2>6
    <3> QED BY <3>1, <2>2, <2>3, FS_AddElement, FS_Subset
  <2> QED BY <2>1, <2>2, <2>6, <2>7, <1>1, <1>7 DEF Counted
<1> QED BY <1>1, <1>2, <1>3, <1>5, <1>9, <1>10, <1>11, AttemptEnds

\* The calls that a process leaves pending are those of its active jobs, one each.
LEMMA PendingFitSlots ==
    ASSUME JobsOK, NEW q \in QueueName, NEW Cut,
           Cut = {b \in Batch : /\ b[1] \in Job /\ QueueOf[b[1]] = q
                                /\ calls[b].result = "pending"}
    PROVE  /\ IsFiniteSet(Cut) /\ Cardinality(Cut) <= Slots
           /\ Active(q) = {} => Cut = {}
<1>1. IsFiniteSet(Active(q)) /\ Cardinality(Active(q)) <= Slots
    BY DEF JobsOK, SlotsOK
<1>2. ASSUME NEW b \in Cut
      PROVE  b[1] \in Active(q) /\ b = <<b[1], job[b[1]].runs>>
  <2>1. PICK j \in Registered : job[j].state = "active" /\ b = <<j, job[j].runs>>
      BY DEF JobsOK, PendingOK
  <2> QED BY <2>1, QueueAssumption DEF Active
<1> DEFINE f == [b \in Cut |-> b[1]]
<1>3. f \in Injection(Cut, Active(q))
    BY <1>2 DEF Injection, IsInjective
<1>4. IsFiniteSet(Cut) /\ Cardinality(Cut) <= Cardinality(Active(q))
    BY <1>1, <1>3, FS_Injection
<1>5. Cardinality(Cut) \in Nat /\ Cardinality(Active(q)) \in Nat /\ Slots \in Nat
    BY <1>1, <1>4, FS_CardinalityType, QueueAssumption
<1> QED BY <1>1, <1>2, <1>4, <1>5

\* A process ends: what it was at waits again, and a death accounts for at most Slots calls.
LEMMA ExitOK ==
    ASSUME MailOK, JobsOK, NEW q \in QueueName, Exit(q), deaths' \in 0..MaxDeaths,
           deaths' = deaths \/ deaths' = deaths + 1,
           Active(q) # {} => deaths' = deaths + 1
    PROVE  MailOK' /\ JobsOK'
<1> DEFINE Gone == {b \in Batch : b[1] \in Job /\ QueueOf[b[1]] = q}
           Cut == {b \in Batch : /\ b[1] \in Job /\ QueueOf[b[1]] = q
                                 /\ calls[b].result = "pending"}
<1>1. /\ MailOK'
      /\ \A b \in Batch : calls'[b].result =
            IF b \in Gone /\ calls[b].result = "pending" THEN "abandoned" ELSE calls[b].result
  <2>1. Abandon(Gone)
      BY DEF Exit
  <2> HIDE DEF Gone
  <2> QED BY <2>1, AbandonOK
<1>2. /\ job' \in [Job -> Record]
      /\ \A j \in Job : /\ job'[j].made = job[j].made /\ job'[j].runs = job[j].runs
                        /\ job'[j].state = IF j \in Active(q) THEN "waiting" ELSE job[j].state
  <2>1. ASSUME NEW j \in Job
        PROVE  /\ job'[j] \in Record /\ job'[j].made = job[j].made /\ job'[j].runs = job[j].runs
               /\ job'[j].state = IF j \in Active(q) THEN "waiting" ELSE job[j].state
    <3>1. job'[j] = IF j \in Active(q) THEN [job[j] EXCEPT !.state = "waiting"] ELSE job[j]
        BY DEF Exit
    <3>2. job[j] \in Record
        BY DEF JobsOK
    <3> QED BY <3>1, <3>2 DEF Record
  <2> QED BY <2>1 DEF Exit
<1>3. /\ UNCHANGED bulk /\ hook' = [j \in Job |-> hook'[j]]
      /\ \A j \in Job : hook'[j] # "none" => hook[j] # "none"
    BY DEF Exit
<1>4. deaths \in Nat /\ deaths' \in Nat
    BY QueueAssumption DEF JobsOK
<1>5. ASSUME NEW j \in Job PROVE JobOK(j)' /\ Counted(j)'
  <2>1. job[j] \in Record /\ JobOK(j) /\ Counted(j) /\ Tries[j] \in Nat
      BY RunsHaveBatches DEF JobsOK
  <2>2. job[j].runs \in Nat /\ job[j].made \in Nat
      BY <2>1 DEF Record
  <2>3. JobOK(j)'
    <3>1. CASE j \in Active(q)
      <4>1. job[j].state = "active" /\ job'[j].state = "waiting" /\ deaths' = deaths + 1
          BY <3>1, <1>2 DEF Active
      <4>2. job'[j].runs <= job'[j].made + deaths'
          BY <4>1, <1>2, <1>4, <2>1, <2>2 DEF JobOK
      <4> QED BY <4>1, <4>2, <1>2, <1>3, <1>4, <2>1, <2>2 DEF JobOK
    <3>2. CASE j \notin Active(q)
        BY <3>2, <1>2, <1>3, <1>4, <2>1, <2>2 DEF JobOK
    <3> QED BY <3>1, <3>2
  <2>4. \A n \in 1..job[j].runs :
            /\ calls[<<j, n>>].result = "rejected" => calls'[<<j, n>>].result = "rejected"
            /\ n < job[j].runs \/ job[j].state # "active" =>
                   n < job'[j].runs \/ job'[j].state # "active"
      BY <1>1, <1>2, RunsHaveBatches
  <2>5. Cardinality(Rejected(j)) \in Nat /\ Cardinality(Rejected(j)') \in Nat
        /\ Cardinality(Rejected(j)) <= Cardinality(Rejected(j)')
      BY <1>2, <2>2, <2>4, RejectedGrows
  <2> QED BY <1>2, <2>1, <2>2, <2>3, <2>5 DEF Counted
<1>6. ASSUME NEW b \in Batch PROVE PendingOK(b)'
  <2>1. SUFFICES ASSUME calls'[b].result = "pending"
                 PROVE  \E i \in Registered : /\ job'[i].state = "active"
                                              /\ b = <<i, job'[i].runs>>
      BY DEF PendingOK
  <2>2. calls[b].result = "pending" /\ b \notin Gone
      BY <2>1, <1>1
  <2>3. PICK i \in Registered : job[i].state = "active" /\ b = <<i, job[i].runs>>
      BY <2>2 DEF JobsOK, PendingOK
  <2>4. i \in Job /\ i \notin Active(q)
      BY <2>2, <2>3, QueueAssumption DEF Active
  <2> QED BY <2>3, <2>4, <1>2
<1>7. ASSUME NEW p \in QueueName PROVE SlotsOK(p)'
  <2>1. SlotsOK(p)
      BY DEF JobsOK
  <2>2. Active(p)' \in SUBSET Active(p)
      BY <1>2 DEF Active
  <2>3. PICK S : S = Active(p)'
      OBVIOUS
  <2>4. IsFiniteSet(S) /\ Cardinality(S) <= Cardinality(Active(p))
      BY <2>1, <2>2, <2>3, FS_Subset DEF SlotsOK
  <2>5. Cardinality(S) \in Nat /\ Cardinality(Active(p)) \in Nat /\ Slots \in Nat
      BY <2>1, <2>4, FS_CardinalityType, QueueAssumption DEF SlotsOK
  <2>6. Cardinality(S) <= Slots
      BY <2>1, <2>4, <2>5 DEF SlotsOK
  <2> QED BY <2>3, <2>4, <2>6 DEF SlotsOK
<1>8. AbandonedOK'
  <2>1. Abandoned' = Abandoned \cup Cut
      BY <1>1 DEF Abandoned
  <2> HIDE DEF Cut
  <2>2. IsFiniteSet(Cut) /\ Cardinality(Cut) <= Slots /\ (Active(q) = {} => Cut = {})
      BY PendingFitSlots DEF Cut
  <2>3. IsFiniteSet(Abandoned) /\ Cardinality(Abandoned) <= Slots * deaths
      BY DEF JobsOK, AbandonedOK
  <2>4. CASE Active(q) = {}
    <3>1. Abandoned' = Abandoned
        BY <2>1, <2>2, <2>4
    <3>2. PICK d \in Nat : d = deaths /\ (deaths' = d \/ deaths' = d + 1)
        BY <1>4
    <3>3. Slots * d \in Nat /\ Slots * (d + 1) = Slots * d + Slots /\ Slots \in Nat
        BY QueueAssumption
    <3>4. Cardinality(Abandoned) <= Slots * deaths'
      <4>1. PICK most \in Nat : most = Slots * d
          BY <3>3
      <4>2. Cardinality(Abandoned) <= most /\ Cardinality(Abandoned) \in Nat
          BY <2>3, <3>2, <4>1, FS_CardinalityType
      <4>3. Cardinality(Abandoned) <= most + Slots
          BY <3>3, <4>2
      <4> QED BY <3>2, <3>3, <4>1, <4>2, <4>3
    <3> QED BY <2>3, <3>1, <3>4 DEF AbandonedOK
  <2>5. CASE Active(q) # {}
    <3>1. deaths' = deaths + 1
        BY <2>5
    <3>2. /\ IsFiniteSet(Abandoned \cup Cut)
          /\ Cardinality(Abandoned \cup Cut)
                = Cardinality(Abandoned) + Cardinality(Cut) - Cardinality(Abandoned \cap Cut)
        BY <2>2, <2>3, FS_Union
    <3>3. IsFiniteSet(Abandoned \cap Cut)
        BY <2>2, <2>3, FS_Intersection
    <3>4. /\ Cardinality(Abandoned) \in Nat /\ Cardinality(Cut) \in Nat
          /\ Cardinality(Abandoned \cap Cut) \in Nat /\ Slots \in Nat
        BY <2>2, <2>3, <3>3, FS_CardinalityType, QueueAssumption
    <3>5. Slots * (deaths + 1) = Slots * deaths + Slots /\ Slots * deaths \in Nat
        BY <3>4, <1>4
    <3>6. Cardinality(Abandoned \cup Cut) <= Slots * (deaths + 1)
      <4>1. PICK most \in Nat : most = Slots * deaths
          BY <3>5
      <4> QED BY <4>1, <2>2, <2>3, <3>2, <3>4, <3>5
    <3> QED BY <2>1, <3>1, <3>2, <3>6 DEF AbandonedOK
  <2> QED BY <2>4, <2>5
<1>9. bulk' = [p \in QueueName |-> bulk'[p]]
    BY <1>3 DEF JobsOK
<1> QED BY <1>1, <1>2, <1>3, <1>5, <1>6, <1>7, <1>8, <1>9 DEF JobsOK

\* Steps of the dispatcher that fails, of the worker and of the hooks touch nothing that counts.
LEMMA OthersOK ==
    ASSUME MailOK, JobsOK, UNCHANGED <<calls, job, deaths>>,
           \A q \in QueueName : bulk'[q] = "adding" => bulk[q] = "adding",
           bulk' = [q \in QueueName |-> bulk'[q]], hook' = [j \in Job |-> hook'[j]],
           \A j \in Job : hook'[j] # "none" => hook[j] # "none"
    PROVE  MailOK' /\ JobsOK'
<1>1. MailOK'
    BY MailStutters
<1>2. ASSUME NEW j \in Job PROVE JobOK(j)' /\ Counted(j)'
  <2>1. JobOK(j) /\ Counted(j) /\ QueueOf[j] \in QueueName
      BY QueueAssumption DEF JobsOK
  <2> QED BY <2>1 DEF JobOK, Counted, Rejected
<1>3. \A b \in Batch : PendingOK(b)'
    BY DEF JobsOK, PendingOK
<1>4. \A q \in QueueName : SlotsOK(q)'
    BY DEF JobsOK, SlotsOK, Active
<1>5. AbandonedOK'
    BY DEF JobsOK, AbandonedOK, Abandoned
<1> QED BY <1>1, <1>2, <1>3, <1>4, <1>5 DEF JobsOK

LEMMA InitOK ==
    ASSUME Init
    PROVE  Inv
<1>1. ASSUME NEW b \in Batch PROVE CallOK(b, calls[b], {}) /\ calls[b].result = "none"
  <2> DEFINE c == calls[b]
  <2>1. c = Unsent(b) /\ Size[b] \in Nat
      BY MailAssumption DEF Init, MailInit
  <2> HIDE DEF c
  <2>2. /\ c.lanes = [k \in Lanes(b) |-> 0] /\ c.cursor = 0 /\ c.sent = 0 /\ c.errors = {}
        /\ c.out = [i \in 1..Size[b] |-> 0] /\ c.result = "none"
        /\ c = [lanes |-> c.lanes, cursor |-> c.cursor, sent |-> c.sent,
                errors |-> c.errors, out |-> c.out, result |-> c.result]
      BY <2>1 DEF Unsent
  <2>3. c \in Call(b)
      BY <2>1, <2>2 DEF Call, Results
  <2>4. Apart(b, c, {}) /\ Complete(b, c, {})
      BY <2>1, <2>2 DEF Apart, Complete
  <2>5. Cardinality(Out(b, c)) = 0
    <3>1. Out(b, c) = {}
        BY <2>2 DEF Out
    <3> QED BY <3>1, FS_EmptySet
  <2> QED BY <2>2, <2>3, <2>4, <2>5 DEF CallOK, c
<1>2. calls = [b \in Batch |-> calls[b]]
    BY DEF Init, MailInit
<1>3. /\ job \in [Job -> Record] /\ deaths = 0 /\ MaxDeaths \in Nat
      /\ \A j \in Job : /\ job[j].state = "new" /\ job[j].made = 0 /\ job[j].runs = 0
                        /\ hook[j] = "none" /\ Tries[j] \in Nat \ {0}
      /\ hook = [j \in Job |-> hook[j]] /\ bulk = [q \in QueueName |-> bulk[q]]
    BY QueueAssumption DEF Init, Record
<1>4. ASSUME NEW j \in Job PROVE JobOK(j) /\ Counted(j)
  <2>1. Rejected(j) = {}
      BY <1>3 DEF Rejected
  <2>2. Cardinality(Rejected(j)) = 0
      BY <2>1, FS_EmptySet
  <2> QED BY <2>2, <1>3 DEF JobOK, Counted
<1>5. \A b \in Batch : PendingOK(b)
    BY <1>1 DEF PendingOK
<1>6. ASSUME NEW q \in QueueName PROVE SlotsOK(q)
  <2>1. Active(q) = {}
      BY <1>3 DEF Active
  <2> QED BY <2>1, FS_EmptySet, QueueAssumption DEF SlotsOK
<1>7. AbandonedOK
  <2>1. Abandoned = {}
      BY <1>1 DEF Abandoned
  <2>2. Slots * deaths = 0
      BY <1>3, QueueAssumption
  <2> QED BY <2>1, <2>2, FS_EmptySet DEF AbandonedOK
<1> QED BY <1>1, <1>2, <1>3, <1>4, <1>5, <1>6, <1>7 DEF Inv, MailOK, JobsOK

LEMMA NextOK ==
    ASSUME Inv, [Next]_vars
    PROVE  Inv'
<1> USE DEF Inv
<1>1. ASSUME NEW q \in QueueName, AddBulk(q) PROVE Inv'
  <2>1. UNCHANGED calls
      BY <1>1 DEF AddBulk
  <2> QED BY <1>1, <2>1, AddBulkOK, MailStutters
<1>2. ASSUME NEW q \in QueueName, AddBulkFails(q) PROVE Inv'
    BY <1>2, OthersOK DEF AddBulkFails, ends, JobsOK
<1>3. ASSUME NEW q \in QueueName, Start(q) \/ Signal(q) PROVE Inv'
    BY <1>3, OthersOK DEF Start, Signal, ends, JobsOK
<1>4. ASSUME NEW j \in Job, HookEnds(j) PROVE Inv'
    BY <1>4, OthersOK DEF HookEnds, ends, JobsOK
<1>5. ASSUME NEW j \in Job, Process(j) PROVE Inv'
    BY <1>5, ProcessOK
<1>6. ASSUME NEW j \in Job, Completes(j) PROVE Inv'
  <2>1. UNCHANGED calls
      BY <1>6 DEF Completes
  <2> QED BY <1>6, <2>1, CompletesOK, MailStutters
<1>7. ASSUME NEW j \in Job, Fails(j) PROVE Inv'
  <2>1. UNCHANGED calls
      BY <1>7 DEF Fails
  <2> QED BY <1>7, <2>1, FailsOK, MailStutters
<1>8. ASSUME NEW q \in QueueName, Drained(q) PROVE Inv'
  <2>1. Active(q) = {} /\ Exit(q) /\ deaths' = deaths
      BY <1>8 DEF Drained, ends
  <2> QED BY <2>1, ExitOK DEF JobsOK
<1>9. ASSUME NEW q \in QueueName, Dies(q) PROVE Inv'
  <2>1. Exit(q) /\ deaths' = deaths + 1 /\ deaths < MaxDeaths
      BY <1>9 DEF Dies
  <2>2. deaths' \in 0..MaxDeaths
      BY <2>1, QueueAssumption DEF JobsOK
  <2> QED BY <2>1, <2>2, ExitOK
<1>10. ASSUME Sends PROVE Inv'
  <2>1. PICK b \in Batch :
            \E k \in DOMAIN calls[b].lanes : SendSucceeds(b, k) \/ SendFails(b, k)
      BY <1>10 DEF Sends
  <2>1a. PICK k \in DOMAIN calls[b].lanes : SendSucceeds(b, k) \/ SendFails(b, k)
      BY <2>1
  <2>2. MailOK' /\ \A a \in Batch : Settles(a, {"resolved", "rejected"})
    <3>1. CASE SendSucceeds(b, k)
        BY <3>1, SendSucceedsOK DEF Settles
    <3>2. CASE SendFails(b, k)
        BY <3>2, SendFailsOK
    <3> QED BY <2>1a, <3>1, <3>2
  <2>3. UNCHANGED <<bulk, job, hook, deaths>>
      BY <1>10 DEF Sends, ends
  <2> QED BY <2>2, <2>3, SendsOK
<1>11. CASE UNCHANGED vars
    BY <1>11, OthersOK DEF vars, ends, JobsOK
<1>12. CASE Next
    BY <1>12, <1>1, <1>2, <1>3, <1>4, <1>5, <1>6, <1>7, <1>8, <1>9, <1>10 DEF Next, Works
<1> QED BY <1>11, <1>12
-----------------------------------------------------------------------------
\* The invariant behind both theorems, for every behaviour: the calls of sendBulk keep their
\* lanes apart, and a job's counts agree with the calls that its attempts made.
THEOREM Invariance == Spec => []Inv
<1>1. Init => Inv
    BY InitOK
<1>2. Inv /\ [Next]_vars => Inv'
    BY NextOK
<1> QED BY <1>1, <1>2, PTL DEF Spec

\* Mailer.sendBulk never hands a mail to the transport again that it accepted, in however
\* many lanes, and when the call resolves nothing is missing but the errors it lists.
THEOREM NoMailTwice == Spec => []BatchSendsOnce
<1>1. ASSUME Inv PROVE BatchSendsOnce
  <2>1. ASSUME NEW b \in Batch
        PROVE  /\ \A i \in 1..Size[b] : calls[b].out[i] <= 1
               /\ calls[b].result = "resolved" =>
                     \A i \in 1..Size[b] : calls[b].out[i] = 1 \/ i \in calls[b].errors
               /\ calls[b].sent = Cardinality({i \in 1..Size[b] : calls[b].out[i] = 1})
    <3>1. CallOK(b, calls[b], {})
        BY <1>1 DEF Inv, MailOK
    <3>2. calls[b].out \in [1..Size[b] -> 0..1]
        BY <3>1 DEF CallOK, Call
    <3>3. ASSUME NEW i \in 1..Size[b] PROVE calls[b].out[i] <= 1
      <4>1. calls[b].out[i] \in 0..1
          BY <3>2
      <4> QED BY <4>1
    <3>4. calls[b].sent = Cardinality({i \in 1..Size[b] : calls[b].out[i] = 1})
        BY <3>1 DEF CallOK, Out
    <3>5. calls[b].result = "resolved" =>
             \A i \in 1..Size[b] : calls[b].out[i] = 1 \/ i \in calls[b].errors
        BY <3>1 DEF CallOK, Complete
    <3> QED BY <3>3, <3>4, <3>5
  <2> QED BY <2>1 DEF BatchSendsOnce
<1> QED BY <1>1, Invariance, PTL

\* Job.failed() is called only when as many attempts as jobOptions.attempts really failed,
\* however many workers died on the way, and a drained worker cuts off no attempt.
THEOREM HookAfterTheLastTry == Spec => []FailedAfterAllTries
<1>1. ASSUME Inv PROVE FailedAfterAllTries
  <2>1. ASSUME NEW j \in Job
        PROVE  /\ hook[j] # "none" => job[j].state = "failed" /\ job[j].made = Tries[j]
               /\ job[j].state = "failed" /\ j \in Registered =>
                     Tries[j] <= Cardinality({n \in 1..job[j].runs :
                                                 calls[<<j, n>>].result = "rejected"})
    <3>1. JobOK(j) /\ Counted(j)
        BY <1>1 DEF Inv, JobsOK
    <3>2. job[j].state = "failed" =>
             Rejected(j) = {n \in 1..job[j].runs : calls[<<j, n>>].result = "rejected"}
        BY DEF Rejected
    <3> QED BY <3>1, <3>2 DEF JobOK, Counted
  <2>2. Cardinality({b \in Batch : calls[b].result = "abandoned"}) <= Slots * deaths
      BY <1>1 DEF Inv, JobsOK, AbandonedOK, Abandoned
  <2> QED BY <2>1, <2>2 DEF FailedAfterAllTries
<1> QED BY <1>1, Invariance, PTL
=============================================================================
