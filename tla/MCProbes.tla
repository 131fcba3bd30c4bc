------------------------------ MODULE MCProbes ------------------------------
(* Two threads of one process and room for one connect in the map.              *)
EXTENDS Probes, TLC

CONSTANTS t1, t2, s1, s2

MCThreads == {t1, t2}

MCTgid == [task \in {t1, t2, idle} |-> IF task = idle THEN idle ELSE t1]

MCSocks == {s1, s2}

MCFamily == (s1 :> "AF_INET") @@ (s2 :> "AF_INET6")

MCInterrupted == {t1, idle}
=============================================================================
