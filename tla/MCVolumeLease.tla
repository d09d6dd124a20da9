---------------------------- MODULE MCVolumeLease ----------------------------
(***************************************************************************)
(* A small instance of VolumeLease, in two parts: one volume and every     *)
(* record that can be about it, and more volumes than lease slots, so that *)
(* entries are recycled and volumes return, with lease records alone.      *)
(***************************************************************************)
EXTENDS VolumeLease, TLC

Symmetry == Permutations(Holder) \cup Permutations(Volume)

\* The volumes some record has changed.
Touched == {g.vol : g \in grants} \cup {v \in Volume : judged[v] > 0 \/ bound[v] # Unbound}
OneVolume == Cardinality(Touched) <= 1

\* Leases of at most one tick, and fences to 2.
LeasesAlone ==
    /\ writing = {} /\ exposed = {} /\ reserved = {} /\ sweep.at = "idle"
    /\ \A v \in Volume : bound[v] = Unbound
    /\ \A g \in grants : g.fence <= 2
    /\ \A v \in Volume : Known(leases, v) => Lease(leases, v).expires <= Lease(leases, v).stamp + 1

Explored == OneVolume \/ LeasesAlone
===============================================================================
