-------------------------------- MODULE MCLive --------------------------------
(* Both drivers of the streaming model, one or the other in a behaviour.   *)
EXTENDS LiveProducer, LivePipeline

MCUpdates == {<<>>,
              <<[at |-> 1, style |-> "a"]>>,
              <<[at |-> 3, style |-> "a"], [at |-> 1, style |-> "b"]>>,
              <<[at |-> 0, style |-> "a"], [at |-> 2, style |-> "b"]>>}
MCPlans == {[id |-> 1, notes |-> 2, drums |-> 2], [id |-> 2, notes |-> 3, drums |-> 3],
            [id |-> 3, notes |-> 2, drums |-> 3], [id |-> 4, notes |-> 0, drums |-> 0]}

VARIABLE driver
LiveInit == Init /\ PInit /\ driver \in {"producer", "pipeline"}
LiveNext ==
  /\ UNCHANGED driver
  /\ \/ driver = "producer" /\ Next /\ UNCHANGED pvars
     \/ driver = "pipeline" /\ PNext /\ UNCHANGED vars
LiveSpec == LiveInit /\ [][LiveNext]_<<vars, pvars, driver>> /\ WF_pvars(Generator)
=============================================================================
