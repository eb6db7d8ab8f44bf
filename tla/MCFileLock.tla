----------------------------- MODULE MCFileLock -----------------------------
(***************************************************************************)
(* Instance of FileLock for TLC: two lockers on one machine, one on another. *)
(* The first one is disturbed; both others may have to wait for it for ever. *)
(* Two share the lock and both conflict with the third, on its own machine   *)
(* and from the other: whom a locker waits for depends on there being an     *)
(* exclusive one of the two, not on both being exclusive.                    *)
(***************************************************************************)
EXTENDS FileLock, TLC

CONSTANTS p1, p2, p3, h1, h2

MCHost == (p1 :> h1) @@ (p2 :> h1) @@ (p3 :> h2)
Req(t, w) == [type |-> t, wait |-> w]
MCRequests == (p1 :> {Req("S", "bounded")})
           @@ (p2 :> {Req("X", "infinite")})
           @@ (p3 :> {Req("S", "infinite")})
=============================================================================
