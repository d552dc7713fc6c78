---------------------------- MODULE AtomicPublish ----------------------------
(***************************************************************************)
(* What usd-pointcloud-convert promises at the output path: an asset - its *)
(* root layer, its sidecar and all its payloads - is published in one step *)
(* and is final once the conversion has retired its transaction marker.    *)
(* Until then the conversion that published it may still withdraw it.      *)
(***************************************************************************)
VARIABLE asset   \* "absent", "published" or "final"

Init == asset = "absent"

PublishAll == asset = "absent" /\ asset' = "published"
Withdraw   == asset = "published" /\ asset' = "absent"
Settle     == asset = "published" /\ asset' = "final"

Next == PublishAll \/ Withdraw \/ Settle

Spec == Init /\ [][Next]_asset

=============================================================================
