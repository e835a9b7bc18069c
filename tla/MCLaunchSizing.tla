--------------------------- MODULE MCLaunchSizing ---------------------------
(***************************************************************************)
(* Instances of LaunchSizing: a 128 GiB node in hundredths of a GiB, a     *)
(* model of 52 GiB in all, a smaller one, and co-tenants of 30 GiB each.   *)
(***************************************************************************)
EXTENDS LaunchSizing, TLC

CONSTANTS l1, l2, t1, t2

Model(w, lo, tp) ==
    [weights |-> w, kv |-> 2304, seqs |-> 10, batch |-> 4, safety |-> 400,
     overhead |-> 630, ceiling |-> 11781, gmin |-> lo, gmax |-> 706,
     buffer |-> 500, tp |-> tp]

MCParams  == (l1 :> Model(8014, 304, 2)) @@ (l2 :> Model(2183, 304, 1))
MCReclaim == (l1 :> <<t1, t2>>) @@ (l2 :> <<t2>>)
=============================================================================
