------------------------------- MODULE MCSummary -------------------------------
(* Summary with small radices and a few readings, odd and even sums of powers. *)
EXTENDS Summary

Reading(cpu, gpu, mem, board, rate) ==
    [c \in Columns |->
        CASE c = "allcpu_power" -> cpu  [] c = "gpu_power" -> gpu
          [] c = "mem_power" -> mem     [] c = "board_power" -> board
          [] OTHER -> rate]

ReadingsValue == {Reading(1, 2, 0, 5, 3), Reading(2, 1, 1, 2, 7)}

\* Within a second, over more than one second, and backwards.
StepsValue == {1, 14, -3}
=============================================================================
