---- MODULE MCSessionGuard ----
(* Two browsers of one user.                                                 *)
EXTENDS SessionGuard, TLC

CONSTANTS alice, phone, laptop

SharedUser == phone :> alice @@ laptop :> alice

\* session() once in front of every route, required where a user is needed.
SessionOnce ==
    [k \in Kind |-> IF k \in {"visit", "logoutAll"} THEN <<"required">> ELSE <<"optional">>]

\* router.use(session(sessions)), and session(sessions, { required: true }) on the
\* routes that need a user, as in packages/auth/README.md:167,186.
SessionTwice ==
    [k \in Kind |-> IF k \in {"visit", "logoutAll"} THEN <<"optional", "required">>
                    ELSE <<"optional">>]

Symmetry == Permutations(Request) \cup Permutations(Browser)
====
