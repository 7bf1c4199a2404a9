------------------------------ MODULE MCQueue -------------------------------
(* A job that sends two mails at a time, in its third attempt three of     *)
(* them, collecting the errors; a job of a class nobody registered, which  *)
(* contends with it for the only slot; and another of those in a queue of  *)
(* its own.                                                                *)
EXTENDS Queue, TLC

CONSTANTS welcome, stray, late, mail, other

Queues == welcome :> mail @@ stray :> mail @@ late :> other
Twice == welcome :> 2 @@ stray :> 1 @@ late :> 1
Mails == [b \in Attempts |-> IF b[1] # welcome THEN 1 ELSE IF b[2] <= 2 THEN 2 ELSE 3]
Collecting == {b \in Attempts : b[2] > 2}
=============================================================================
