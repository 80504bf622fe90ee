------------------------------- MODULE MCQuota --------------------------------
(* Instances of Quota.tla for TLC: two visitors, small caps, one midnight. *)
EXTENDS Quota, TLC

\* Visitors are interchangeable: no definition orders or names them.
Visitors == Permutations(IPs)

===============================================================================
