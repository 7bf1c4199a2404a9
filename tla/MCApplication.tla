---- MODULE MCApplication ----
(* A pool, the queue workers and a client, in this order.                    *)
EXTENDS Application

MCKind == <<"pool", "worker", "client">>
MCKindDatabases == <<"pool", "client">>
====
