------------------------------ MODULE MCReports ------------------------------
(* Instances of ReportProperties for TLC.                                   *)
EXTENDS ReportProperties

OneHost == {"pod1"}
TwoHosts == {"pod1", "pod2"}
OneSlot == {"slot1"}
TwoSlots == {"slot1", "slot2"}

\* Both slots in one pod (celery autoscale), or one slot in each of two pods.
SamePod == [w \in Slots |-> "pod1"]
PodPerSlot == [w \in Slots |-> IF w = "slot1" THEN "pod1" ELSE "pod2"]

OneProject == {"store"}
TwoProjects == {"store", "bank"}
OneWeb == {"web1"}
NoOrphans == {}
FirstOrphan == {1}
==============================================================================
