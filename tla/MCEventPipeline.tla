-------------------------- MODULE MCEventPipeline --------------------------
(* One thread, an IPv4 socket and an IPv6 one, channels for one event.          *)
EXTENDS EventPipeline, TLC

CONSTANTS t1, s1, s2

MCThreads == {t1}

MCTgid == [task \in {t1, idle} |-> task]

MCSocks == {s1, s2}

MCFamily == (s1 :> "AF_INET") @@ (s2 :> "AF_INET6")
=============================================================================
