--------------------------- MODULE MCGpuGovernor ----------------------------
(* GpuGovernor with the frequencies that cnngov_dyn_th.c:30-42 lists, all   *)
(* policies, loads on both sides of the thresholds, and three pairs of      *)
(* limits: the board's own and two that somebody wrote to sysfs.            *)
EXTENDS GpuGovernor

MCFrequencies ==
    [l \in Levels |->
       <<114, 216, 318, 420, 522, 624, 726, 828, 930, 1032, 1134, 1236, 1300>>[l + 1]]

MCLimits == {[min |-> 114, max |-> 1300], [min |-> 318, max |-> 1134],
             [min |-> 114, max |-> 1032]}

MCLoads == [gpu : {0, 750, 900, 1000},
            emc : {150000, 225000, 415000, 480000, 700000, 900000}]
=============================================================================
