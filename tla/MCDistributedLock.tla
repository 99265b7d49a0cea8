-------------------------- MODULE MCDistributedLock --------------------------
(* Instances of DistributedLock for TLC: two workers in one container and a
   third one in another, and the single container of docker-compose.yml. *)
EXTENDS DistributedLock, TLC

CONSTANTS p1, p2, p3, h1, h2, t1, t2, t3, t4

TwoHosts == (p1 :> h1) @@ (p2 :> h1) @@ (p3 :> h2)
OneHost2 == (p1 :> h1) @@ (p2 :> h1)
=============================================================================
