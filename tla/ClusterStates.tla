---------------------------- MODULE ClusterStates ----------------------------
(***************************************************************************)
(* What the cluster row promises its readers: the states a cluster goes    *)
(* through, when its kubeconfig appears and when its row is retired,       *)
(* whatever servers and tasks are behind it.                               *)
(***************************************************************************)

VARIABLES status, deleted, kubeconfig

Moves == {
    <<"absent", "pending">>,
    <<"pending", "provisioning">>,
    <<"provisioning", "ready">>, <<"provisioning", "failed">>,
    <<"ready", "scaling">>,
    <<"scaling", "ready">>, <<"scaling", "failed">>,
    <<"destroying", "failed">> }

Destroyable == {"pending", "provisioning", "ready", "scaling", "failed", "destroying"}

Init == status = "absent" /\ deleted = FALSE /\ kubeconfig = FALSE

Move ==
    /\ ~deleted
    /\ <<status, status'>> \in Moves
    /\ status' = "ready" => kubeconfig
    /\ UNCHANGED <<deleted, kubeconfig>>

\* Destroying can start, and start over, until the row is retired.
StartDestroy ==
    /\ ~deleted /\ status \in Destroyable
    /\ status' = "destroying"
    /\ UNCHANGED <<deleted, kubeconfig>>

\* The kubeconfig is stored once, while provisioning, and never taken back.
Deliver ==
    /\ status = "provisioning" /\ ~deleted /\ ~kubeconfig
    /\ kubeconfig' = TRUE
    /\ UNCHANGED <<status, deleted>>

Retire ==
    /\ status = "destroying" /\ ~deleted
    /\ deleted' = TRUE
    /\ UNCHANGED <<status, kubeconfig>>

Finish ==
    /\ status = "destroying" /\ deleted
    /\ status' = "destroyed"
    /\ UNCHANGED <<deleted, kubeconfig>>

Next == Move \/ StartDestroy \/ Deliver \/ Retire \/ Finish

Spec == Init /\ [][Next]_<<status, deleted, kubeconfig>>
=============================================================================
