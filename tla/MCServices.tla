------------------------------ MODULE MCServices ------------------------------
(* The render worker and the making of conditioning, for TLC: a behaviour is   *)
(* one or the other.                                                           *)
EXTENDS RenderWorker, MidiDrums

VARIABLE service  \* "worker" or "drums"
allVars == <<workerVars, drumVars, service>>

MCUnder == [p \in Paths |-> IF p = "x" THEN "elsewhere" ELSE IF p = "doc" THEN "magenta" ELSE "workspace"]
MCSavedAs == [p \in Paths |-> IF p = "c" THEN "c.npz" ELSE p]
MCStored ==
  [p \in Paths |-> CASE p = "doc" -> Document(2)
                     [] p = "take" -> Bundle(3, {"part"})
                     [] p = "part" -> [kind |-> "part", id |-> 0]
                     [] OTHER -> Absent]
Simple == [prompt |-> TRUE, numbers |-> TRUE, packets |-> "doc", bundle |-> Nil, atoms |-> Nil,
           output |-> "w", manifest |-> "m", conditioning |-> "c", limit |-> 0]
\* A packet render, one of a bundle over the same audio file, one that writes
\* over that bundle, and one outside the policy.
MCRequests ==
  {Simple, [Simple EXCEPT !.packets = Nil, !.bundle = "take", !.manifest = "m2", !.limit = 2],
   [Simple EXCEPT !.atoms = "part", !.output = "take"], [Simple EXCEPT !.output = "x"]}

Packet(role, kind, start, micro, duration) ==
  [role |-> role, kind |-> kind, start |-> start, micro |-> micro, duration |-> duration]
MCPackets ==
  {<<Packet("kick", "", a, m, d), Packet("hat", "open", b, 0, e)>> :
     a \in {0, 2}, b \in {2, 5}, m \in {-1, 1}, d \in {0, 7}, e \in {1, 3}}
  \cup {<<Packet("kick", "", a, 0, 9), Packet("kick", "", b, 0, e), Packet("bell", "", 1, 0, 1)>> :
          a \in {0, 4}, b \in {2, 8}, e \in {1, 8}}
MCLimits == {<<1, None>>, <<0, None>>, <<0, 3>>}

ServicesInit == WorkerInit /\ DrumInit /\ service \in {"worker", "drums"}
ServicesNext ==
  /\ UNCHANGED service
  /\ \/ service = "worker" /\ WorkerNext /\ UNCHANGED drumVars
     \/ service = "drums" /\ DrumNext /\ UNCHANGED workerVars
ServicesSpec == ServicesInit /\ [][ServicesNext]_allVars /\ WorkerFairness
================================================================================
