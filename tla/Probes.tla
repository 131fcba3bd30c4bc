------------------------------- MODULE Probes -------------------------------
(***************************************************************************)
(* The kernel side of the event pipeline: the five BPF programs of         *)
(* bpf/probes.c, the two maps they share, and the loader (pkg/probe/       *)
(* loader.go) that attaches them one after the other.                      *)
(*                                                                         *)
(* The kernel around them is an environment: threads call connect, accept  *)
(* and close on sockets, and any task may be running when a segment is     *)
(* retransmitted.  A program runs on the thread that hit it.  It reserves  *)
(* a record and fills it in one step and submits it in another, because    *)
(* programs run on several CPUs at once and the reader waits for the       *)
(* oldest record to be submitted.                                          *)
(*                                                                         *)
(* Left out: a connection's bytes, the command name and the clock, and     *)
(* duration_ns, which every program sets to 0.                             *)
(***************************************************************************)
EXTENDS Integers, Sequences, FiniteSets

CONSTANTS
  Threads,        (* user threads that use TCP                                   *)
  idle,           (* the task that runs when there is nothing to run, pid 0      *)
  Tgid,           (* the process of each task                                    *)
  Socks,          (* addresses of struct sock, used again after a close          *)
  Family,         (* the family of each: the two kinds come from different slabs *)
  Interrupted,    (* the tasks that may be running when a segment is sent again  *)
  Self, Peer,     (* this host and the other one                                 *)
  MapSize,        (* max_entries of inflight_connects                            *)
  RingSlots,      (* records that fit into the ring buffer                       *)
  MaxConns,       (* bound: connections made, each with a port of its own        *)
  MaxRetrans,     (* bound: retransmissions of a connection                      *)
  MaxMissed       (* bound: returns of connect that the kretprobe misses         *)

None == "none"
NetRx == "softirq"
Contexts == Threads \union {NetRx}

ASSUME ProbesConstants ==
  /\ idle \notin Threads
  /\ None \notin Contexts \union Socks
  /\ NetRx \notin Threads
  /\ Interrupted \subseteq Threads \union {idle}
  /\ Family \in [Socks -> {"AF_INET", "AF_INET6"}]
  /\ {MapSize, RingSlots, MaxConns, MaxRetrans, MaxMissed} \subseteq Nat

VARIABLES
  attached,   (* how many of the links are up, in the order of attachProbes      *)
  inflight,   (* inflight_connects: pid_tgid -> sock                             *)
  ring,       (* events: records in order of reservation; `by` is the context    *)
              (* that has yet to submit the record, None once it has             *)
  sock,       (* the connection a struct sock stands for, or NoConn              *)
  call,       (* the connect a thread is in, or NoCall                           *)
  made,       (* connections made so far                                         *)
  missed,     (* returns missed so far                                           *)
  orphans     (* history: keys whose call returned without the exit program      *)

kernelVars == <<attached, inflight, ring, sock, call, made, missed, orphans>>

NoConn == [id |-> 0]
NoCall == [at |-> None]

Conn == [id : 1 .. MaxConns, role : {"client", "server"}, failed : BOOLEAN,
         total_retrans : 0 .. MaxRetrans]

NewConn(id, role) == [id |-> id, role |-> role, failed |-> FALSE, total_retrans |-> 0]

(* The links of attachProbes.                                                  *)
ConnectEntry == 1
ConnectExit == 2
AcceptExit == 3
CloseEntry == 4
RetransmitPoint == 5

IsUp(link) == attached >= link

-----------------------------------------------------------------------------
(* Records. *)

ServicePort == MaxConns + 1

(* The socket's own end: a client's port is its own, all connections of a      *)
(* server have the listening port.                                             *)
LocalEnd(c) == <<Self, IF c.role = "client" THEN c.id ELSE ServicePort>>

(* The other end.  A connect that failed has its destination port reset.       *)
RemoteEnd(c) ==
  <<Peer, IF c.role = "server" THEN c.id ELSE IF c.failed THEN 0 ELSE ServicePort>>

EventTypes == {"CONNECT", "ACCEPT", "CLOSE", "RETRANSMIT"}

Endpoints == {Self, Peer} \X (0 .. MaxConns + 1)

Event == [event_type : EventTypes, tid : Threads \union {idle}, saddr : Endpoints,
          daddr : Endpoints, retransmits : 0 .. MaxRetrans, ok : BOOLEAN]

(* fill_event_common and fill_event_addrs, with what a program adds.           *)
tcp_event(type, task, c, retransmits, ok) ==
  [event_type |-> type, tid |-> task, saddr |-> LocalEnd(c), daddr |-> RemoteEnd(c),
   retransmits |-> retransmits, ok |-> ok]

Filling(ctx) == \E i \in DOMAIN ring : ring[i].by = ctx

(* Fault: the ring buffer takes one record too many. *)
ReserveOneTooMany(ctx, evt) ==
  IF Len(ring) <= RingSlots THEN Append(ring, [by |-> ctx, evt |-> evt]) ELSE ring

(* bpf_ringbuf_reserve: a full ring buffer returns NULL and the event is gone. *)
Reserve(ctx, evt) ==
  IF Len(ring) < RingSlots THEN Append(ring, [by |-> ctx, evt |-> evt]) ELSE ring

-----------------------------------------------------------------------------
(* connect(). *)

(* Fault: keyed by the process. *)
KeyIsProcess(t) == Tgid[t]

(* bpf_get_current_pid_tgid: unique per thread.                                *)
Key(t) == t

(* Faults: an entry is never replaced; no bound. *)
SavedOnce(t, s) ==
  IF Key(t) \in DOMAIN inflight \/ Cardinality(DOMAIN inflight) >= MapSize
    THEN inflight
    ELSE [k \in DOMAIN inflight \union {Key(t)} |-> IF k = Key(t) THEN s ELSE inflight[k]]

(* bpf_map_update_elem with BPF_ANY: a full map still updates a key it holds.  *)
Saved(t, s) ==
  IF Key(t) \in DOMAIN inflight \/ Cardinality(DOMAIN inflight) < MapSize
    THEN [k \in DOMAIN inflight \union {Key(t)} |-> IF k = Key(t) THEN s ELSE inflight[k]]
    ELSE inflight

tcp_v4_connect_entry(t, s) ==
  inflight' = IF IsUp(ConnectEntry) THEN Saved(t, s) ELSE inflight

(* A thread calls tcp_v4_connect, on a new socket or again, with another port, *)
(* after a failure.  An IPv6 socket gets here with a mapped address.  The      *)
(* return is hooked when the kretprobe is up by now and has an instance left.  *)
Connect(t, s) ==
  /\ call[t] = NoCall /\ ~Filling(t)
  /\ \A u \in Threads : call[u].at # s
  /\ sock[s] # NoConn => sock[s].failed
  /\ made < MaxConns
  /\ made' = made + 1
  /\ sock' = [sock EXCEPT ![s] = NewConn(made', "client")]
  /\ \/ /\ call' = [call EXCEPT ![t] = [at |-> s, hooked |-> IsUp(ConnectExit)]]
        /\ UNCHANGED missed
     \/ /\ IsUp(ConnectExit) /\ missed < MaxMissed
        /\ call' = [call EXCEPT ![t] = [at |-> s, hooked |-> FALSE]]
        /\ missed' = missed + 1
  /\ tcp_v4_connect_entry(t, s)
  /\ orphans' = IF IsUp(ConnectEntry) THEN orphans \ {Key(t)} ELSE orphans
  /\ UNCHANGED <<attached, ring>>

Without(f, k) == [x \in DOMAIN f \ {k} |-> f[x]]

(* Fault: the entry is deleted only when the event could be reserved. *)
ExitDeletesOnSuccess(t, ok) ==
  IF Key(t) \notin DOMAIN inflight
    THEN UNCHANGED <<inflight, ring>>
    ELSE LET c == [sock[inflight[Key(t)]] EXCEPT !.failed = ~ok]
         IN  /\ ring' = Reserve(t, tcp_event("CONNECT", t, c, 0, ok))
             /\ inflight' = IF ring' = ring THEN inflight ELSE Without(inflight, Key(t))

(* The entry is deleted whether or not the event can be reserved.              *)
tcp_v4_connect_exit(t, ok) ==
  IF Key(t) \notin DOMAIN inflight
    THEN UNCHANGED <<inflight, ring>>
    ELSE LET c == sock'[inflight[Key(t)]]
         IN  /\ inflight' = Without(inflight, Key(t))
             /\ ring' = Reserve(t, tcp_event("CONNECT", t, c, 0, ok))

(* tcp_v4_connect comes to its end.  The thread leaves the call when its       *)
(* record, if it got one, is submitted.                                        *)
ConnectReturns(t) ==
  /\ call[t] # NoCall /\ ~Filling(t)
  /\ \E ok \in BOOLEAN :
       /\ sock' = [sock EXCEPT ![call[t].at].failed = ~ok]
       /\ IF call[t].hooked /\ IsUp(ConnectExit)
            THEN /\ tcp_v4_connect_exit(t, ok)
                 /\ UNCHANGED orphans
            ELSE /\ orphans' = orphans \union ({Key(t)} \intersect DOMAIN inflight)
                 /\ UNCHANGED <<inflight, ring>>
  /\ call' = IF ring' = ring THEN [call EXCEPT ![t] = NoCall] ELSE call
  /\ UNCHANGED <<attached, made, missed>>

-----------------------------------------------------------------------------
(* accept(), close() and retransmissions. *)

inet_csk_accept_exit(t, s) ==
  ring' = IF IsUp(AcceptExit) /\ Family[s] = "AF_INET"
            THEN Reserve(t, tcp_event("ACCEPT", t, sock'[s], 0, TRUE)) ELSE ring

(* inet_csk_accept returns a connected socket.                                 *)
Accept(t, s) ==
  /\ call[t] = NoCall /\ ~Filling(t)
  /\ sock[s] = NoConn /\ made < MaxConns
  /\ made' = made + 1
  /\ sock' = [sock EXCEPT ![s] = NewConn(made', "server")]
  /\ inet_csk_accept_exit(t, s)
  /\ UNCHANGED <<attached, inflight, call, missed, orphans>>

tcp_close_entry(t, s) ==
  ring' = IF IsUp(CloseEntry) /\ Family[s] = "AF_INET"
            THEN Reserve(t, tcp_event("CLOSE", t, sock[s], 0, TRUE)) ELSE ring

(* Any thread closes a socket, but not under a connect, which holds the file.  *)
Close(t, s) ==
  /\ call[t] = NoCall /\ ~Filling(t)
  /\ sock[s] # NoConn
  /\ \A u \in Threads : call[u].at # s
  /\ tcp_close_entry(t, s)
  /\ sock' = [sock EXCEPT ![s] = NoConn]
  /\ UNCHANGED <<attached, inflight, call, made, missed, orphans>>

(* The event carries the task that happens to run, not the socket's owner, and *)
(* the socket's total, not an increment.                                       *)
handle_tcp_retransmit(task, s) ==
  ring' = IF IsUp(RetransmitPoint) /\ Family[s] = "AF_INET"
            THEN Reserve(NetRx, tcp_event("RETRANSMIT", task, sock'[s], sock'[s].total_retrans, TRUE))
            ELSE ring

Retransmit(s, task) ==
  /\ ~Filling(NetRx)
  /\ sock[s] # NoConn
  /\ ~sock[s].failed /\ sock[s].total_retrans < MaxRetrans
  /\ sock' = [sock EXCEPT ![s].total_retrans = @ + 1]
  /\ handle_tcp_retransmit(task, s)
  /\ UNCHANGED <<attached, inflight, call, made, missed, orphans>>

(* bpf_ringbuf_submit. *)
Submit(ctx) ==
  /\ Filling(ctx)
  /\ ring' = [i \in DOMAIN ring |-> IF ring[i].by = ctx THEN [ring[i] EXCEPT !.by = None] ELSE ring[i]]
  /\ call' = IF ctx \in Threads THEN [call EXCEPT ![ctx] = NoCall] ELSE call
  /\ UNCHANGED <<attached, inflight, sock, made, missed, orphans>>

-----------------------------------------------------------------------------
InitKernel ==
  /\ attached = 0
  /\ inflight = << >>
  /\ ring = << >>
  /\ sock = [s \in Socks |-> NoConn]
  /\ call = [t \in Threads |-> NoCall]
  /\ made = 0
  /\ missed = 0
  /\ orphans = {}

Traffic ==
  \/ \E t \in Threads, s \in Socks : Connect(t, s) \/ Accept(t, s) \/ Close(t, s)
  \/ \E s \in Socks, task \in Interrupted : Retransmit(s, task)

(* One link more.                                                              *)
Attach == attached' = attached + 1 /\ UNCHANGED <<inflight, ring, sock, call, made, missed, orphans>>

(* Probe.Close: the links in reverse order, then programs and maps.            *)
CloseProbes ==
  /\ attached' = 0
  /\ inflight' = << >> /\ ring' = << >> /\ orphans' = {}
  /\ call' = [t \in Threads |-> NoCall]
  /\ UNCHANGED <<sock, made, missed>>

(* The kernel in any of its steps. *)
Kernel ==
  \/ Traffic
  \/ \E t \in Threads : ConnectReturns(t)
  \/ \E ctx \in Contexts : Submit(ctx)

(* A reader takes the oldest record, once it has been submitted.               *)
ReadRing ==
  /\ ring # << >> /\ Head(ring).by = None
  /\ ring' = Tail(ring)
  /\ UNCHANGED <<attached, inflight, sock, call, made, missed, orphans>>

(* The probes by themselves: somebody attaches them and reads.                 *)
KernelNext == (attached < RetransmitPoint /\ Attach) \/ Kernel \/ ReadRing

KernelSpec == InitKernel /\ [][KernelNext]_kernelVars

-----------------------------------------------------------------------------
KernelTypeOK ==
  /\ attached \in 0 .. 5
  /\ DOMAIN inflight \subseteq Threads
  /\ Cardinality(DOMAIN inflight) <= MapSize
  /\ \A k \in DOMAIN inflight : inflight[k] \in Socks
  /\ Len(ring) <= RingSlots
  /\ \A i \in DOMAIN ring : ring[i] \in [by : Contexts \union {None}, evt : Event]
  /\ sock \in [Socks -> Conn \union {NoConn}]
  /\ call \in [Threads -> {NoCall} \union [at : Socks, hooked : BOOLEAN]]
  /\ made \in 0 .. MaxConns /\ missed \in 0 .. MaxMissed
  /\ orphans \subseteq Threads

(***************************************************************************)
(* A CONNECT event names the socket of the call its thread is in, although *)
(* the program that writes it is not given the socket, entries may be left *)
(* over from calls whose return was missed, sockets' memory is used again  *)
(* and other threads of the process connect meanwhile (probes.c:121-165).  *)
(***************************************************************************)
ConnectNamesItsSocket ==
  \A i \in DOMAIN ring : ring[i].by # None /\ ring[i].evt.event_type = "CONNECT" =>
    LET s == call[ring[i].by].at
    IN  s \in Socks /\ ring[i].evt.saddr = LocalEnd(sock[s]) /\ ring[i].evt.daddr = RemoteEnd(sock[s])

(***************************************************************************)
(* The in-flight map holds calls in flight: an entry belongs to a thread   *)
(* that is inside connect, or is the one left-over of a thread whose last  *)
(* return was not seen.  In particular a full ring buffer leaves no entry  *)
(* behind ("Always clean up", probes.c:143), so that the map cannot fill   *)
(* up with them.                                                           *)
(***************************************************************************)
InflightIsInFlight ==
  \A k \in DOMAIN inflight : k \in orphans \/ \E t \in Threads : Key(t) = k /\ call[t].at = inflight[k]
=============================================================================
