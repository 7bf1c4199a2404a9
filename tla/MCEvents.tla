------------------------------ MODULE MCEvents ------------------------------
(* One event, a listener class with a retry and a plain function.          *)
EXTENDS Events, TLC

CONSTANTS registered, SendMail, audit

Attempts == SendMail :> 1 @@ audit :> 0
Mapping == <<<<registered, SendMail>>>>
=============================================================================
