---------------------------- MODULE MCViewCache ----------------------------
(***************************************************************************)
(* Small instances of ViewCache for TLC: `states` stands for the rows that *)
(* Store.save writes together with refreshed_at (`stamp`), `policy` for a  *)
(* row written by itself (retention, taste or the catalog pool).           *)
(***************************************************************************)
EXTENDS ViewCacheClaims, TLC

CONSTANTS states, stamp, policy, t1, t2

\* view_from_store: load_states first, refreshed_at next, retention after it.
ViewOrder == <<states, stamp, policy>>

SaveOrPut == {{states, stamp}, {policy}}

Symmetry == Permutations(Thread)
=============================================================================
