---------------------------- MODULE MCLifecycle ----------------------------
(* Every mode of the program, with working sets that are empty, that are   *)
(* and are not a number of pages or of segments, and up to two devices.    *)
EXTENDS Lifecycle

AllConfigs ==
    {c \in [client : BOOLEAN, zero_copy : BOOLEAN, using_ref_counting : BOOLEAN, ready_file : BOOLEAN, timers : BOOLEAN,
            working_set_size : {0, 6, 7, 8}, segment_size : {0, 2}] :
        c.client => c.zero_copy /\ ~c.using_ref_counting /\ ~c.ready_file /\ ~c.timers}

TwoDists == <<"server_request_dist", "server_send_dist">>

Devices == [mlx5 : BOOLEAN, addr : {"wanted", "other", "none", "unreadable"}]
Lists == {<<>>} \cup {<<d>> : d \in Devices} \cup {<<d, e>> : d \in Devices, e \in Devices}
=============================================================================
