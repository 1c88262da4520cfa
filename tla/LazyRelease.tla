---------------------------- MODULE LazyRelease ----------------------------
(***************************************************************************)
(* What ipa_rm_inactivity_timer.c promises its clients: the resource is    *)
(* requested once by each call that asks for it, and is given back only    *)
(* while the last word of the clients, whichever thread had it, is that    *)
(* they do not want it.  A call that asks may be overtaken by another      *)
(* thread's word that it is not wanted, and acquires the resource still.   *)
(***************************************************************************)
VARIABLES wanted, asking, held

Init == wanted = FALSE /\ asking = FALSE /\ held = FALSE

Want    == ~asking /\ wanted' = TRUE /\ asking' = TRUE /\ UNCHANGED held
Acquire == asking /\ asking' = FALSE /\ held' = TRUE /\ UNCHANGED wanted
Drop    == wanted /\ wanted' = FALSE /\ UNCHANGED <<asking, held>>
Expire  == ~wanted /\ held /\ held' = FALSE /\ UNCHANGED <<wanted, asking>>
\* The timer is destroyed and later set up again for a new resource.
Reset   == ~asking /\ wanted' = FALSE /\ held' = FALSE /\ UNCHANGED asking

Next == Want \/ Acquire \/ Drop \/ Expire \/ Reset
Spec == Init /\ [][Next]_<<wanted, asking, held>>
=============================================================================
