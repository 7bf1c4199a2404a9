-------------------------------- MODULE Mail --------------------------------
(***************************************************************************)
(* Mailer.sendBulk of packages/mail: `lanes' workers share one cursor over *)
(* the mailables, each sends one mail at a time. Without continueOnError   *)
(* the first failure rejects the call while the other lanes go on.         *)
(***************************************************************************)
EXTENDS Naturals, FiniteSets

CONSTANTS Batch,        \* identities of calls of sendBulk
          Size,         \* Batch -> how many mailables it is given
          Continue,     \* the calls with continueOnError
          Concurrency   \* options.concurrency ?? defaultBulkConcurrency ?? 10

ASSUME MailAssumption ==
    /\ Size \in [Batch -> Nat] /\ Continue \subseteq Batch /\ Concurrency \in Nat

VARIABLE calls   \* Batch -> the state of the call, or a history of it once it is over

Lanes(b) == LET c == IF Concurrency = 0 THEN 1 ELSE Concurrency
            IN  1 .. IF c < Size[b] THEN c ELSE Size[b]

\* lanes: the mail each lane is sending, 0 when it has ended; out: how often the
\* transport accepted each mail.
Unsent(b) == [lanes |-> [k \in Lanes(b) |-> 0], cursor |-> 0, sent |-> 0, errors |-> {},
              out |-> [i \in 1..Size[b] |-> 0], result |-> "none"]

MailInit == calls = [b \in Batch |-> Unsent(b)]

\* Promise.all over the lanes.
Settled(c) ==
    IF c.result = "pending" /\ \A k \in DOMAIN c.lanes : c.lanes[k] = 0
    THEN [c EXCEPT !.result = "resolved"] ELSE c

\* Every lane takes its first mail before any of them awaits.
Begun(b) == [calls[b] EXCEPT !.lanes = [k \in Lanes(b) |-> k],
                             !.cursor = Cardinality(Lanes(b)), !.result = "pending"]

SendBulk(b) ==
    /\ calls[b].result = "none"
    /\ calls' = [calls EXCEPT ![b] = Settled(Begun(b))]

Sending(b, k) == calls[b].lanes[k] # 0

\* Seeded defect: the cursor moves when the mail is out.
TakeStale(b, c, k) ==
    IF c.cursor < Size[b]
    THEN [c EXCEPT !.lanes[k] = c.cursor + 1, !.cursor = c.sent + Cardinality(Lanes(b))]
    ELSE Settled([c EXCEPT !.lanes[k] = 0])

\* The lane's next turn of `while (cursor < mailables.length)'.
Take(b, c, k) ==
    IF c.cursor < Size[b]
    THEN [c EXCEPT !.lanes[k] = c.cursor + 1, !.cursor = @ + 1]
    ELSE Settled([c EXCEPT !.lanes[k] = 0])

Accepted(c, k) == [c EXCEPT !.out[c.lanes[k]] = @ + 1, !.sent = @ + 1]

SendSucceeds(b, k) ==
    /\ Sending(b, k)
    /\ calls' = [calls EXCEPT ![b] = Take(b, Accepted(calls[b], k), k)]

\* Seeded defect: the rejection of a lane is lost.
SendFailsUnheard(b, k) ==
    /\ Sending(b, k)
    /\ calls' = [calls EXCEPT ![b].lanes[k] = 0]

\* build(), or the transport, throws: with continueOnError the error is listed and the lane
\* goes on, without it the lane ends and Promise.all rejects.
Listed(c, k) == [c EXCEPT !.errors = @ \cup {c.lanes[k]}]

Rejects(c, k) == [c EXCEPT !.lanes[k] = 0,
                           !.result = IF @ = "pending" THEN "rejected" ELSE @]

SendFails(b, k) ==
    /\ Sending(b, k)
    /\ calls' = [calls EXCEPT ![b] = IF b \in Continue THEN Take(b, Listed(calls[b], k), k)
                                                       ELSE Rejects(calls[b], k)]

\* The process that made the call is gone, and its lanes with it.
Abandon(B) ==
    calls' = [b \in Batch |-> IF b \in B
                 THEN [calls[b] EXCEPT !.lanes = [k \in DOMAIN @ |-> 0],
                                       !.result = IF @ = "pending" THEN "abandoned" ELSE @]
                 ELSE calls[b]]
-----------------------------------------------------------------------------
\* No mail of a batch is sent twice, whatever the lanes do; a batch that resolves has
\* sent all of it, but for the errors it lists.
BatchSendsOnce ==
    \A b \in Batch :
        /\ \A i \in 1..Size[b] : calls[b].out[i] <= 1
        /\ calls[b].result = "resolved" =>
              \A i \in 1..Size[b] : calls[b].out[i] = 1 \/ i \in calls[b].errors
        /\ calls[b].sent = Cardinality({i \in 1..Size[b] : calls[b].out[i] = 1})
=============================================================================
