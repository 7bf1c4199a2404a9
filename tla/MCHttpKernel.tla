---- MODULE MCHttpKernel ----
(* A global middleware, and a route behind a pipe and another middleware.    *)
EXTENDS HttpKernel

MCGlobals == <<"user">>
MCOfRoute == <<"pipe", "user">>
====
