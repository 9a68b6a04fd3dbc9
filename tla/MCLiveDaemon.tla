----------------------------- MODULE MCLiveDaemon -----------------------------
EXTENDS LiveDaemon
MCMessages == <<[ok |-> TRUE, ticks |-> 5, events |-> 1],
                [ok |-> TRUE, ticks |-> 0, events |-> 4],
                [ok |-> FALSE, ticks |-> 3, events |-> 1]>>
\* The MIDI command shares nothing with the daemons: it runs in behaviours of
\* its own.
MCNext == \/ drum.pc = "off" /\ (Daemon \/ Client)
          \/ (\A d \in Daemons : pc[d] = "off") /\ sender.pc = "wait" /\ Drum
MCSpec == Init /\ [][MCNext]_vars /\ Fairness
=============================================================================
