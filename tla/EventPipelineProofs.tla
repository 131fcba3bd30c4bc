------------------------- MODULE EventPipelineProofs -------------------------
(***************************************************************************)
(* Proofs about the event pipeline for any number of threads and sockets   *)
(* and any size of the map, the ring buffer and the channels: first the    *)
(* BPF programs by themselves, then the whole way of an event and that it  *)
(* implements EventStream.                                                 *)
(***************************************************************************)
EXTENDS EventPipeline, FiniteSetTheorems, SequenceTheorems, TLAPS

-----------------------------------------------------------------------------
(* The kernel side. *)

Record == [by : Contexts \union {None}, evt : Event]

Call == [at : Socks, hooked : BOOLEAN]

(* What the type invariant needs to be inductive. *)
KernelTypes ==
  /\ attached \in 0 .. 5
  /\ IsFiniteSet(DOMAIN inflight)
  /\ inflight \in [DOMAIN inflight -> Socks]
  /\ DOMAIN inflight \subseteq Threads
  /\ Cardinality(DOMAIN inflight) <= MapSize
  /\ ring \in Seq(Record) /\ Len(ring) <= RingSlots
  /\ sock \in [Socks -> Conn \union {NoConn}]
  /\ call \in [Threads -> {NoCall} \union Call]
  /\ made \in 0 .. MaxConns /\ missed \in 0 .. MaxMissed
  /\ orphans \subseteq Threads

(* A socket in a call is a connection and belongs to one caller.               *)
CallsOwnSockets ==
  /\ \A t \in Threads : call[t] # NoCall => sock[call[t].at] # NoConn
  /\ \A t, u \in Threads : call[t] # NoCall /\ call[t].at = call[u].at => t = u

(* A call whose return is hooked does not find an entry left over by another.  *)
HookedAreTracked ==
  \A t \in Threads : call[t] # NoCall /\ call[t].hooked => t \notin orphans

EntriesInFlight ==
  \A t \in DOMAIN inflight : t \in orphans \/ call[t].at = inflight[t]

(* While its record is written a thread's entry is gone already.               *)
FillingHasNoEntry ==
  \A i \in DOMAIN ring : \A t \in Threads :
    ring[i].by = t /\ call[t] # NoCall => t \notin DOMAIN inflight

ConnectRecord(r) ==
  r.by # None /\ r.evt.event_type = "CONNECT" =>
    /\ r.by \in Threads /\ call[r.by] # NoCall
    /\ LET c == sock[call[r.by].at]
       IN  r.evt.saddr = LocalEnd(c) /\ r.evt.daddr = RemoteEnd(c)

ConnectRecords == \A i \in DOMAIN ring : ConnectRecord(ring[i])

KernelInv ==
  /\ KernelTypes
  /\ CallsOwnSockets /\ HookedAreTracked /\ EntriesInFlight
  /\ FillingHasNoEntry /\ ConnectRecords

-----------------------------------------------------------------------------
(* Records. *)

LEMMA Bounds ==
  /\ MapSize \in Nat /\ RingSlots \in Nat /\ MaxConns \in Nat
  /\ MaxRetrans \in Nat /\ MaxMissed \in Nat /\ 0 \in 0 .. MaxRetrans
BY ProbesConstants

(* An event written for a connection is an event, whatever the program.        *)
LEMMA EventType ==
  ASSUME NEW type \in EventTypes, NEW task \in Threads \union {idle}, NEW c \in Conn,
         NEW n \in 0 .. MaxRetrans, NEW ok \in BOOLEAN
  PROVE  tcp_event(type, task, c, n, ok) \in Event
<1>1. c.id \in 0 .. MaxConns + 1 /\ ServicePort \in 0 .. MaxConns + 1 /\ 0 \in 0 .. MaxConns + 1
  BY ProbesConstants DEF Conn, ServicePort
<1>2. LocalEnd(c) \in Endpoints /\ RemoteEnd(c) \in Endpoints
  BY <1>1 DEF LocalEnd, RemoteEnd, Endpoints
<1> QED BY <1>2 DEF tcp_event, Event

(* Reserve leaves a full ring buffer alone and appends to any other.           *)
LEMMA ReserveAppends ==
  ASSUME KernelTypes, NEW ctx \in Contexts, NEW evt \in Event
  PROVE  /\ Reserve(ctx, evt) \in Seq(Record)
         /\ Len(Reserve(ctx, evt)) <= RingSlots
         /\ \/ Reserve(ctx, evt) = ring
            \/ /\ Reserve(ctx, evt) = Append(ring, [by |-> ctx, evt |-> evt])
               /\ Reserve(ctx, evt) # ring
<1>1. [by |-> ctx, evt |-> evt] \in Record
  BY DEF Record
<1>2. RingSlots \in Nat /\ Len(ring) \in Nat
  BY ProbesConstants DEF KernelTypes
<1> QED BY <1>1, <1>2 DEF Reserve, KernelTypes

(* What is true of every record stays true of every record when one is added.  *)
LEMMA AppendedRecords ==
  ASSUME NEW S, NEW q \in Seq(S), NEW x \in S, NEW i \in DOMAIN Append(q, x)
  PROVE  (i \in DOMAIN q /\ Append(q, x)[i] = q[i]) \/ Append(q, x)[i] = x
OBVIOUS

(* The same of the tail. *)
LEMMA TailRecords ==
  ASSUME NEW S, NEW q \in Seq(S), q # << >>, NEW i \in DOMAIN Tail(q)
  PROVE  i + 1 \in DOMAIN q /\ Tail(q)[i] = q[i + 1]
OBVIOUS

(* The ends of a connection do not depend on what was sent again.              *)
LEMMA EndsKept ==
  ASSUME NEW c \in Conn, NEW d \in Conn, c.id = d.id, c.role = d.role, c.failed = d.failed
  PROVE  LocalEnd(c) = LocalEnd(d) /\ RemoteEnd(c) = RemoteEnd(d)
BY DEF LocalEnd, RemoteEnd

-----------------------------------------------------------------------------
(* A step that touches no call, and whose record, if it is kept, is about      *)
(* something else than a connect.                                              *)
LEMMA OtherRecordSafe ==
  ASSUME KernelInv, NEW ctx \in Contexts, NEW evt \in Event,
         ring' \in {ring, Reserve(ctx, evt)},
         evt.event_type # "CONNECT",
         ctx \in Threads => call[ctx] = NoCall,
         UNCHANGED <<attached, inflight, call, missed, orphans>>,
         made' \in 0 .. MaxConns,
         sock' \in [Socks -> Conn \union {NoConn}],
         \A u \in Threads : call[u] # NoCall =>
           /\ sock'[call[u].at] # NoConn
           /\ LocalEnd(sock'[call[u].at]) = LocalEnd(sock[call[u].at])
           /\ RemoteEnd(sock'[call[u].at]) = RemoteEnd(sock[call[u].at])
  PROVE  KernelInv'
<1> DEFINE r == [by |-> ctx, evt |-> evt]
<1>1. r \in Record
  BY DEF Record
<1>2. /\ ring' \in Seq(Record) /\ Len(ring') <= RingSlots
      /\ ring' = ring \/ ring' = Append(ring, r)
  BY ReserveAppends DEF KernelInv, KernelTypes
<1>3. \A i \in DOMAIN ring' : (i \in DOMAIN ring /\ ring'[i] = ring[i]) \/ ring'[i] = r
  <2> HIDE DEF r
  <2>1. CASE ring' = ring
    BY <2>1
  <2>2. CASE ring' = Append(ring, r)
    <3>1. ring \in Seq(Record)
      BY DEF KernelInv, KernelTypes
    <3> QED BY <2>2, <3>1, <1>1, AppendedRecords
  <2> QED BY <1>2, <2>1, <2>2
<1>4. KernelTypes'
  BY <1>2 DEF KernelInv, KernelTypes
<1>5. CallsOwnSockets' /\ HookedAreTracked' /\ EntriesInFlight'
  BY DEF KernelInv, CallsOwnSockets, HookedAreTracked, EntriesInFlight
<1>6. FillingHasNoEntry'
  BY <1>3 DEF KernelInv, FillingHasNoEntry
<1>7. ASSUME NEW i \in DOMAIN ring' PROVE ConnectRecord(ring[i])'
  <2>1. CASE i \in DOMAIN ring /\ ring'[i] = ring[i]
    <3>1. ConnectRecord(ring[i])
      BY <2>1 DEF KernelInv, ConnectRecords
    <3> QED BY <2>1, <3>1 DEF ConnectRecord
  <2>2. CASE ring'[i] = r
    BY <2>2 DEF ConnectRecord
  <2> QED BY <1>3, <2>1, <2>2
<1> QED BY <1>4, <1>5, <1>6, <1>7 DEF KernelInv, ConnectRecords

LEMMA AcceptSafe ==
  ASSUME KernelInv, NEW t \in Threads, NEW s \in Socks, Accept(t, s)
  PROVE  KernelInv'
<1> DEFINE c == NewConn(made', "server")
<1>1. call[t] = NoCall /\ sock[s] = NoConn /\ made' \in 1 .. MaxConns
      /\ UNCHANGED <<attached, inflight, call, missed, orphans>>
  BY ProbesConstants DEF Accept, KernelInv, KernelTypes
<1>2. c \in Conn
  BY <1>1, ProbesConstants DEF NewConn, Conn
<1>3. sock' = [sock EXCEPT ![s] = c] /\ sock'[s] = c /\ sock' \in [Socks -> Conn \union {NoConn}]
  BY <1>2 DEF Accept, KernelInv, KernelTypes
<1>4. \A u \in Threads : call[u] # NoCall => sock'[call[u].at] = sock[call[u].at] /\ sock[call[u].at] # NoConn
  BY <1>1, <1>3 DEF KernelInv, CallsOwnSockets, KernelTypes, Call
<1>5. tcp_event("ACCEPT", t, c, 0, TRUE) \in Event
  <2>1. "ACCEPT" \in EventTypes /\ t \in Threads \union {idle} /\ TRUE \in BOOLEAN
    BY DEF EventTypes
  <2> HIDE DEF c
  <2> QED BY <1>2, <2>1, EventType, Bounds
<1>6. tcp_event("ACCEPT", t, c, 0, TRUE).event_type # "CONNECT"
  BY DEF tcp_event
<1>7. ring' \in {ring, Reserve(t, tcp_event("ACCEPT", t, c, 0, TRUE))}
  BY <1>3 DEF Accept, inet_csk_accept_exit
<1>8. t \in Contexts /\ made' \in 0 .. MaxConns
  BY <1>1, Bounds DEF Contexts
<1> HIDE DEF c
<1> QED BY <1>1, <1>3, <1>4, <1>5, <1>6, <1>7, <1>8, OtherRecordSafe

LEMMA CloseSafe ==
  ASSUME KernelInv, NEW t \in Threads, NEW s \in Socks, Close(t, s)
  PROVE  KernelInv'
<1>1. call[t] = NoCall /\ made' = made /\ UNCHANGED <<attached, inflight, call, missed, orphans>>
  BY DEF Close
<1>2. sock[s] \in Conn
  BY DEF Close, KernelInv, KernelTypes
<1>3. sock' = [sock EXCEPT ![s] = NoConn] /\ sock' \in [Socks -> Conn \union {NoConn}]
  BY DEF Close, KernelInv, KernelTypes
<1>4. \A u \in Threads : call[u] # NoCall => sock'[call[u].at] = sock[call[u].at] /\ sock[call[u].at] # NoConn
  BY <1>3 DEF Close, KernelInv, CallsOwnSockets, KernelTypes, Call
<1>5. tcp_event("CLOSE", t, sock[s], 0, TRUE) \in Event
  <2>1. "CLOSE" \in EventTypes /\ t \in Threads \union {idle} /\ TRUE \in BOOLEAN
    BY DEF EventTypes
  <2> QED BY <1>2, <2>1, EventType, Bounds
<1>6. tcp_event("CLOSE", t, sock[s], 0, TRUE).event_type # "CONNECT"
  BY DEF tcp_event
<1>7. ring' \in {ring, Reserve(t, tcp_event("CLOSE", t, sock[s], 0, TRUE))}
  BY DEF Close, tcp_close_entry
<1>8. t \in Contexts /\ made' \in 0 .. MaxConns
  BY <1>1 DEF Contexts, KernelInv, KernelTypes
<1> QED BY <1>1, <1>3, <1>4, <1>5, <1>6, <1>7, <1>8, OtherRecordSafe

LEMMA RetransmitSafe ==
  ASSUME KernelInv, NEW s \in Socks, NEW task \in Interrupted, Retransmit(s, task)
  PROVE  KernelInv'
<1> DEFINE c == [sock[s] EXCEPT !.total_retrans = @ + 1]
           evt == tcp_event("RETRANSMIT", task, c, c.total_retrans, TRUE)
<1>1. made' = made /\ UNCHANGED <<attached, inflight, call, missed, orphans>>
  BY DEF Retransmit
<1>2. sock[s] \in Conn /\ sock[s].total_retrans < MaxRetrans
  BY DEF Retransmit, KernelInv, KernelTypes
<1>3. /\ c \in Conn /\ c.total_retrans \in 0 .. MaxRetrans
      /\ c.id = sock[s].id /\ c.role = sock[s].role /\ c.failed = sock[s].failed
  BY <1>2, ProbesConstants DEF Conn
<1>4. sock' = [sock EXCEPT ![s] = c] /\ sock'[s] = c /\ sock' \in [Socks -> Conn \union {NoConn}]
  BY <1>3 DEF Retransmit, KernelInv, KernelTypes
<1>5. c # NoConn
  BY <1>3, ProbesConstants DEF Conn, NoConn
<1>6. LocalEnd(c) = LocalEnd(sock[s]) /\ RemoteEnd(c) = RemoteEnd(sock[s])
  BY <1>2, <1>3, EndsKept
<1>7. ring' \in {ring, Reserve(NetRx, evt)}
  BY <1>4 DEF Retransmit, handle_tcp_retransmit
<1>8. evt \in Event
  <2>1. "RETRANSMIT" \in EventTypes /\ task \in Threads \union {idle} /\ TRUE \in BOOLEAN
    BY ProbesConstants DEF EventTypes
  <2> HIDE DEF c
  <2> QED BY <1>3, <2>1, EventType
<1>9. evt.event_type # "CONNECT"
  BY DEF tcp_event
<1> HIDE DEF c, evt
<1>10. ASSUME NEW u \in Threads, call[u] # NoCall
       PROVE  /\ sock'[call[u].at] # NoConn
              /\ LocalEnd(sock'[call[u].at]) = LocalEnd(sock[call[u].at])
              /\ RemoteEnd(sock'[call[u].at]) = RemoteEnd(sock[call[u].at])
  <2>1. call[u].at \in Socks /\ sock[call[u].at] # NoConn
    BY <1>10 DEF KernelInv, KernelTypes, Call, CallsOwnSockets
  <2>2. CASE call[u].at = s
    BY <2>2, <1>4, <1>5, <1>6
  <2>3. CASE call[u].at # s
    BY <2>1, <2>3, <1>4
  <2> QED BY <2>2, <2>3
<1>11. NetRx \in Contexts /\ NetRx \notin Threads /\ made' \in 0 .. MaxConns
  BY <1>1, ProbesConstants DEF Contexts, KernelInv, KernelTypes
<1> QED BY <1>1, <1>4, <1>7, <1>8, <1>9, <1>10, <1>11, OtherRecordSafe

(* The record loses its mark together with the call of the thread that wrote it.*)
LEMMA SubmitSafe ==
  ASSUME KernelInv, NEW ctx \in Contexts, Submit(ctx)
  PROVE  KernelInv'
<1>1. UNCHANGED <<attached, inflight, sock, made, missed, orphans>>
  BY DEF Submit
<1>2. ring' = [i \in DOMAIN ring |-> IF ring[i].by = ctx THEN [ring[i] EXCEPT !.by = None] ELSE ring[i]]
  BY DEF Submit
<1>3. ring \in Seq(Record) /\ Len(ring) <= RingSlots
  BY DEF KernelInv, KernelTypes
<1>4. /\ ring' \in Seq(Record) /\ Len(ring') = Len(ring) /\ DOMAIN ring' = DOMAIN ring
      /\ \A i \in DOMAIN ring : ring'[i] = IF ring[i].by = ctx THEN [ring[i] EXCEPT !.by = None] ELSE ring[i]
  <2>1. \A i \in DOMAIN ring : ring[i] \in Record
    BY <1>3
  <2>2. \A r \in Record : [r EXCEPT !.by = None] \in Record
    BY DEF Record
  <2>3. DOMAIN ring = 1 .. Len(ring) /\ Len(ring) \in Nat
    BY <1>3
  <2>4. ring' \in [1 .. Len(ring) -> Record]
    BY <1>2, <2>1, <2>2, <2>3
  <2>5. ring' \in Seq(Record) /\ Len(ring') = Len(ring)
    BY <2>3, <2>4
  <2> QED BY <1>2, <2>3, <2>5
<1>5. \A i \in DOMAIN ring : ring'[i].by = None \/ (ring'[i] = ring[i] /\ ring[i].by # ctx)
  <2>1. \A i \in DOMAIN ring : ring[i] \in Record
    BY <1>3
  <2>2. \A r \in Record : [r EXCEPT !.by = None].by = None
    BY DEF Record
  <2> QED BY <1>4, <2>1, <2>2
<1>6. call' \in [Threads -> {NoCall} \union Call]
      /\ \A t \in Threads : (t # ctx /\ call'[t] = call[t]) \/ (t = ctx /\ call'[t] = NoCall)
  BY DEF Submit, KernelInv, KernelTypes
<1>7. KernelTypes'
  BY <1>1, <1>3, <1>4, <1>6 DEF KernelInv, KernelTypes
<1>8. CallsOwnSockets' /\ HookedAreTracked'
  BY <1>1, <1>6, ProbesConstants DEF KernelInv, CallsOwnSockets, HookedAreTracked, NoCall, KernelTypes, Call
<1>9. EntriesInFlight'
  <2>1. ASSUME NEW t \in DOMAIN inflight, t \notin orphans PROVE call'[t].at = inflight[t]
    <3>1. t \in Threads /\ call[t].at = inflight[t] /\ inflight[t] \in Socks
      BY <2>1 DEF KernelInv, KernelTypes, EntriesInFlight
    <3>2. call[t] # NoCall
      BY <3>1, ProbesConstants DEF NoCall
    <3>3. t # ctx
      BY <3>1, <3>2 DEF KernelInv, FillingHasNoEntry, Submit, Filling
    <3> QED BY <3>1, <3>3, <1>6
  <2> QED BY <2>1, <1>1 DEF EntriesInFlight
<1>10. FillingHasNoEntry'
  BY <1>1, <1>4, <1>5, <1>6, ProbesConstants DEF KernelInv, FillingHasNoEntry, Contexts
<1>11. ASSUME NEW i \in DOMAIN ring' PROVE ConnectRecord(ring[i])'
  <2>1. CASE ring'[i].by = None
    BY <2>1 DEF ConnectRecord
  <2>2. CASE ring'[i] = ring[i] /\ ring[i].by # ctx
    <3>1. ConnectRecord(ring[i])
      BY <1>4 DEF KernelInv, ConnectRecords
    <3> QED BY <2>2, <3>1, <1>1, <1>6 DEF ConnectRecord
  <2> QED BY <1>4, <1>5, <2>1, <2>2
<1> QED BY <1>7, <1>8, <1>9, <1>10, <1>11 DEF KernelInv, ConnectRecords

LEMMA ReadRingSafe ==
  ASSUME KernelInv, ReadRing
  PROVE  KernelInv'
<1>1. ring' = Tail(ring) /\ ring # << >> /\ UNCHANGED <<attached, inflight, sock, call, made, missed, orphans>>
  BY DEF ReadRing
<1>2. ring \in Seq(Record) /\ Len(ring) <= RingSlots
  BY DEF KernelInv, KernelTypes
<1>3. \A i \in DOMAIN ring' : i + 1 \in DOMAIN ring /\ ring'[i] = ring[i + 1]
  BY <1>1, <1>2, TailRecords
<1>4. ring' \in Seq(Record) /\ Len(ring') <= RingSlots
  BY <1>1, <1>2, Bounds
<1>5. KernelTypes' /\ CallsOwnSockets' /\ HookedAreTracked' /\ EntriesInFlight'
  BY <1>1, <1>4 DEF KernelInv, KernelTypes, CallsOwnSockets, HookedAreTracked, EntriesInFlight
<1>6. FillingHasNoEntry'
  BY <1>1, <1>3 DEF KernelInv, FillingHasNoEntry
<1>7. ASSUME NEW i \in DOMAIN ring' PROVE ConnectRecord(ring[i])'
  <2>1. ConnectRecord(ring[i + 1])
    BY <1>3 DEF KernelInv, ConnectRecords
  <2> QED BY <1>1, <1>3, <2>1 DEF ConnectRecord
<1> QED BY <1>5, <1>6, <1>7 DEF KernelInv, ConnectRecords

(* Entering connect: the thread's entry, if it is in the map at all, is the one *)
(* of this call, unless the entry program is not attached yet.                  *)
LEMMA ConnectSafe ==
  ASSUME KernelInv, NEW t \in Threads, NEW s \in Socks, Connect(t, s)
  PROVE  KernelInv'
<1> DEFINE c == NewConn(made', "client")
<1>1. /\ call[t] = NoCall /\ ~Filling(t) /\ made' \in 1 .. MaxConns
      /\ UNCHANGED <<attached, ring>>
      /\ \A u \in Threads : call[u].at # s
  BY Bounds DEF Connect, KernelInv, KernelTypes
<1>2. c \in Conn /\ c # NoConn
  BY <1>1, Bounds DEF NewConn, Conn, NoConn
<1>3. sock' = [sock EXCEPT ![s] = c] /\ sock'[s] = c /\ sock' \in [Socks -> Conn \union {NoConn}]
  BY <1>2 DEF Connect, KernelInv, KernelTypes
<1> HIDE DEF c
<1>4. PICK h \in BOOLEAN : /\ call' = [call EXCEPT ![t] = [at |-> s, hooked |-> h]]
                           /\ h => IsUp(ConnectExit)
                           /\ missed' \in 0 .. MaxMissed
  <2>1. CASE call' = [call EXCEPT ![t] = [at |-> s, hooked |-> IsUp(ConnectExit)]] /\ missed' = missed
    <3>1. IsUp(ConnectExit) \in BOOLEAN /\ missed' \in 0 .. MaxMissed
      BY <2>1 DEF IsUp, KernelInv, KernelTypes
    <3>2. SUFFICES \E h \in BOOLEAN : call' = [call EXCEPT ![t] = [at |-> s, hooked |-> h]] /\ (h => IsUp(ConnectExit))
      BY <3>1, Zenon
    <3> QED BY <2>1, <3>1, Zenon
  <2>2. CASE /\ missed < MaxMissed /\ missed' = missed + 1
             /\ call' = [call EXCEPT ![t] = [at |-> s, hooked |-> FALSE]]
    <3>1. missed' \in 0 .. MaxMissed
      BY <2>2, Bounds DEF KernelInv, KernelTypes
    <3>2. FALSE \in BOOLEAN
      OBVIOUS
    <3> QED BY <2>2, <3>1, <3>2, Zenon
  <2> QED BY <2>1, <2>2 DEF Connect
<1>5. /\ call' \in [Threads -> {NoCall} \union Call]
      /\ call'[t] = [at |-> s, hooked |-> h] /\ \A u \in Threads \ {t} : call'[u] = call[u]
  BY <1>4 DEF KernelInv, KernelTypes, Call
<1>6. \A u \in Threads : call[u] # NoCall => sock'[call[u].at] = sock[call[u].at] /\ sock[call[u].at] # NoConn
  BY <1>1, <1>3 DEF KernelInv, CallsOwnSockets, KernelTypes, Call
<1>7. Filling(t) <=> \E i \in DOMAIN ring : ring[i].by = t
  BY DEF Filling
<1>8. /\ IsFiniteSet(DOMAIN inflight') /\ inflight' \in [DOMAIN inflight' -> Socks]
      /\ DOMAIN inflight' \subseteq Threads /\ Cardinality(DOMAIN inflight') <= MapSize
      /\ \A u \in DOMAIN inflight' \ {t} : u \in DOMAIN inflight /\ inflight'[u] = inflight[u]
      /\ IF IsUp(ConnectEntry) THEN t \in DOMAIN inflight' => inflight'[t] = s
                               ELSE inflight' = inflight
  <2>1. CASE ~IsUp(ConnectEntry) \/ (t \notin DOMAIN inflight /\ ~ Cardinality(DOMAIN inflight) < MapSize)
    <3>1. inflight' = inflight
      BY <2>1 DEF Connect, tcp_v4_connect_entry, Saved, Key
    <3> QED BY <2>1, <3>1 DEF KernelInv, KernelTypes
  <2>2. CASE IsUp(ConnectEntry) /\ (t \in DOMAIN inflight \/ Cardinality(DOMAIN inflight) < MapSize)
    <3>1. inflight' = [k \in DOMAIN inflight \union {t} |-> IF k = t THEN s ELSE inflight[k]]
      BY <2>2 DEF Connect, tcp_v4_connect_entry, Saved, Key
    <3>2. /\ IsFiniteSet(DOMAIN inflight) /\ Cardinality(DOMAIN inflight) <= MapSize
          /\ Cardinality(DOMAIN inflight) \in Nat
      BY FS_CardinalityType DEF KernelInv, KernelTypes
    <3>3. IsFiniteSet(DOMAIN inflight \union {t}) /\ Cardinality(DOMAIN inflight \union {t}) <= MapSize
      <4>1. CASE t \in DOMAIN inflight
        <5>1. DOMAIN inflight \union {t} = DOMAIN inflight
          BY <4>1
        <5> QED BY <5>1, <3>2
      <4>2. CASE t \notin DOMAIN inflight
        <5>1. /\ IsFiniteSet(DOMAIN inflight \union {t})
              /\ Cardinality(DOMAIN inflight \union {t}) = Cardinality(DOMAIN inflight) + 1
          BY <3>2, <4>2, FS_AddElement
        <5> QED BY <2>2, <3>2, <4>2, <5>1, Bounds
      <4> QED BY <4>1, <4>2
    <3>4. DOMAIN inflight' = DOMAIN inflight \union {t}
      BY <3>1
    <3>5. inflight' \in [DOMAIN inflight' -> Socks] /\ DOMAIN inflight' \subseteq Threads
      BY <3>1 DEF KernelInv, KernelTypes
    <3> QED BY <2>2, <3>1, <3>3, <3>4, <3>5
  <2> QED BY <2>1, <2>2
<1>9. orphans' = IF IsUp(ConnectEntry) THEN orphans \ {t} ELSE orphans
  BY DEF Connect, Key
<1>10. KernelTypes'
  BY <1>1, <1>3, <1>4, <1>5, <1>8, <1>9 DEF KernelInv, KernelTypes
<1>11. CallsOwnSockets'
  BY <1>1, <1>2, <1>3, <1>5, <1>6 DEF KernelInv, CallsOwnSockets
<1>12. HookedAreTracked'
  <2>1. h => IsUp(ConnectEntry)
    BY <1>4 DEF IsUp, ConnectExit, ConnectEntry, KernelInv, KernelTypes
  <2> QED BY <2>1, <1>5, <1>9 DEF KernelInv, HookedAreTracked
<1>13. EntriesInFlight'
  <2>1. ASSUME NEW u \in DOMAIN inflight', u \notin orphans' PROVE call'[u].at = inflight'[u]
    <3>1. CASE u # t
      BY <2>1, <3>1, <1>5, <1>8, <1>9 DEF KernelInv, EntriesInFlight, KernelTypes
    <3>2. CASE u = t /\ IsUp(ConnectEntry)
      BY <2>1, <3>2, <1>5, <1>8
    <3>3. CASE u = t /\ ~IsUp(ConnectEntry)
      <4>1. t \in DOMAIN inflight /\ t \notin orphans
        BY <2>1, <3>3, <1>8, <1>9
      <4>2. call[t].at = inflight[t] /\ inflight[t] \in Socks
        BY <4>1 DEF KernelInv, EntriesInFlight, KernelTypes
      <4> QED BY <4>2, <1>1, ProbesConstants DEF NoCall
    <3> QED BY <3>1, <3>2, <3>3
  <2> QED BY <2>1 DEF EntriesInFlight
<1>14. FillingHasNoEntry'
  BY <1>1, <1>5, <1>7, <1>8 DEF KernelInv, FillingHasNoEntry
<1>15. ASSUME NEW i \in DOMAIN ring' PROVE ConnectRecord(ring[i])'
  <2>1. ConnectRecord(ring[i]) /\ ring' = ring /\ ring[i].by # t
    BY <1>1, <1>7 DEF KernelInv, ConnectRecords
  <2>2. ring[i].by \in Threads /\ call[ring[i].by] # NoCall =>
          call'[ring[i].by] = call[ring[i].by] /\ sock'[call[ring[i].by].at] = sock[call[ring[i].by].at]
    BY <2>1, <1>5, <1>6
  <2> QED BY <2>1, <2>2 DEF ConnectRecord
<1> QED BY <1>10, <1>11, <1>12, <1>13, <1>14, <1>15 DEF KernelInv, ConnectRecords

(* The return of connect: the exit program finds the socket of this very call. *)
LEMMA ReturnSafe ==
  ASSUME KernelInv, NEW t \in Threads, ConnectReturns(t)
  PROVE  KernelInv'
<1> DEFINE s == call[t].at
<1>1. /\ call[t] # NoCall /\ ~Filling(t) /\ UNCHANGED <<attached, made, missed>>
      /\ s \in Socks /\ sock[s] \in Conn
  BY DEF ConnectReturns, KernelInv, KernelTypes, Call, CallsOwnSockets
<1>2. PICK ok \in BOOLEAN :
        /\ sock' = [sock EXCEPT ![s].failed = ~ok]
        /\ IF call[t].hooked /\ IsUp(ConnectExit)
             THEN tcp_v4_connect_exit(t, ok) /\ UNCHANGED orphans
             ELSE orphans' = orphans \union ({t} \intersect DOMAIN inflight) /\ UNCHANGED <<inflight, ring>>
  BY DEF ConnectReturns, Key
<1>3. call' = IF ring' = ring THEN [call EXCEPT ![t] = NoCall] ELSE call
  BY DEF ConnectReturns
<1> DEFINE c == [sock[s] EXCEPT !.failed = ~ok]
<1>4. c \in Conn /\ c # NoConn
  BY <1>1, <1>2, Bounds DEF Conn, NoConn
<1>5. sock' = [sock EXCEPT ![s] = c] /\ sock'[s] = c /\ sock' \in [Socks -> Conn \union {NoConn}]
  BY <1>1, <1>2, <1>4 DEF KernelInv, KernelTypes
<1> HIDE DEF c
<1>6. \A u \in Threads \ {t} : call[u] # NoCall => call[u].at \in Socks /\ sock'[call[u].at] = sock[call[u].at]
  BY <1>1, <1>5 DEF KernelInv, CallsOwnSockets, KernelTypes, Call
<1>7. \A u \in Threads : call[u] # NoCall => sock'[call[u].at] # NoConn
  BY <1>4, <1>5, <1>6 DEF KernelInv, CallsOwnSockets
<1>8. /\ call' \in [Threads -> {NoCall} \union Call]
      /\ \A u \in Threads \ {t} : call'[u] = call[u]
      /\ IF ring' = ring THEN call'[t] = NoCall ELSE call'[t] = call[t]
  BY <1>3 DEF KernelInv, KernelTypes
<1>9. \A i \in DOMAIN ring : ring[i].by # t
  BY <1>1 DEF Filling
<1>10. CallsOwnSockets'
  <2>1. \A u \in Threads : call'[u] = call[u] \/ call'[u] = NoCall
    BY <1>8
  <2>2. ASSUME NEW u \in Threads, NEW v \in Threads, call'[u] # NoCall, call'[u].at = call'[v].at
        PROVE  u = v
    <3>1. call'[u] = call[u] /\ call[u].at \in Socks
      BY <2>1, <2>2 DEF KernelInv, KernelTypes, Call
    <3>2. call'[v] # NoCall
      BY <2>2, <3>1, ProbesConstants DEF NoCall
    <3> QED BY <2>1, <2>2, <3>1, <3>2 DEF KernelInv, CallsOwnSockets
  <2> QED BY <1>7, <2>1, <2>2 DEF CallsOwnSockets
<1>11. CASE ring' = ring /\ inflight' = inflight /\ (t \in DOMAIN inflight => t \in orphans')
            /\ orphans \subseteq orphans' /\ orphans' \subseteq orphans \union {t}
  <2>1. KernelTypes'
    BY <1>1, <1>5, <1>8, <1>11 DEF KernelInv, KernelTypes
  <2>2. HookedAreTracked' /\ EntriesInFlight' /\ FillingHasNoEntry'
    BY <1>8, <1>9, <1>11 DEF KernelInv, HookedAreTracked, EntriesInFlight, FillingHasNoEntry, KernelTypes
  <2>3. ASSUME NEW i \in DOMAIN ring' PROVE ConnectRecord(ring[i])'
    BY <1>6, <1>8, <1>9, <1>11 DEF KernelInv, ConnectRecords, ConnectRecord
  <2> QED BY <1>10, <2>1, <2>2, <2>3 DEF KernelInv, ConnectRecords
<1>12. CASE call[t].hooked /\ t \in DOMAIN inflight /\ tcp_v4_connect_exit(t, ok) /\ UNCHANGED orphans
  <2> DEFINE evt == tcp_event("CONNECT", t, c, 0, ok)
             r == [by |-> t, evt |-> evt]
  <2>1. t \notin orphans /\ inflight[t] = s
    BY <1>1, <1>12 DEF KernelInv, HookedAreTracked, EntriesInFlight
  <2>2. ring' = Reserve(t, evt) /\ inflight' = Without(inflight, t)
    BY <1>5, <1>12, <2>1 DEF tcp_v4_connect_exit, Key
  <2>3. evt \in Event /\ evt.event_type = "CONNECT" /\ evt.saddr = LocalEnd(c) /\ evt.daddr = RemoteEnd(c)
    <3>1. "CONNECT" \in EventTypes /\ t \in Threads \union {idle}
      BY DEF EventTypes
    <3>2. evt \in Event
      BY <1>4, <3>1, EventType, Bounds
    <3> QED BY <3>2 DEF tcp_event
  <2> HIDE DEF evt
  <2>4. r \in Record /\ t \in Contexts
    BY <2>3 DEF Record, Contexts
  <2>5. /\ ring' \in Seq(Record) /\ Len(ring') <= RingSlots
        /\ ring' = ring \/ (ring' = Append(ring, r) /\ ring' # ring)
    BY <2>2, <2>3, <2>4, ReserveAppends DEF KernelInv
  <2>6. \A i \in DOMAIN ring' : (i \in DOMAIN ring /\ ring'[i] = ring[i]) \/ (ring'[i] = r /\ ring' # ring)
    <3> HIDE DEF r
    <3>1. CASE ring' = ring
      BY <3>1
    <3>2. CASE ring' = Append(ring, r) /\ ring' # ring
      <4>1. ring \in Seq(Record)
        BY DEF KernelInv, KernelTypes
      <4> QED BY <3>2, <4>1, <2>4, AppendedRecords
    <3> QED BY <2>5, <3>1, <3>2
  <2>7. /\ DOMAIN inflight' = DOMAIN inflight \ {t}
        /\ \A u \in DOMAIN inflight' : inflight'[u] = inflight[u]
        /\ inflight' \in [DOMAIN inflight' -> Socks]
    BY <2>2 DEF Without, KernelInv, KernelTypes
  <2>8. IsFiniteSet(DOMAIN inflight') /\ Cardinality(DOMAIN inflight') <= MapSize
    <3>1. IsFiniteSet(DOMAIN inflight) /\ Cardinality(DOMAIN inflight) <= MapSize
      BY DEF KernelInv, KernelTypes
    <3>2. /\ IsFiniteSet(DOMAIN inflight \ {t})
          /\ Cardinality(DOMAIN inflight \ {t}) <= Cardinality(DOMAIN inflight)
      BY <3>1, FS_Subset
    <3>3. Cardinality(DOMAIN inflight) \in Nat /\ Cardinality(DOMAIN inflight \ {t}) \in Nat
      BY <3>1, <3>2, FS_CardinalityType
    <3> QED BY <2>7, <3>1, <3>2, <3>3, Bounds
  <2>9. KernelTypes'
    BY <1>1, <1>5, <1>8, <1>12, <2>5, <2>7, <2>8 DEF KernelInv, KernelTypes
  <2>10. HookedAreTracked' /\ EntriesInFlight'
    BY <1>8, <1>12, <2>1, <2>7 DEF KernelInv, HookedAreTracked, EntriesInFlight, KernelTypes
  <2>11. FillingHasNoEntry'
    BY <1>8, <2>6, <2>7 DEF KernelInv, FillingHasNoEntry
  <2>12. ASSUME NEW i \in DOMAIN ring' PROVE ConnectRecord(ring[i])'
    <3>1. CASE i \in DOMAIN ring /\ ring'[i] = ring[i]
      <4>1. ConnectRecord(ring[i]) /\ ring[i].by # t
        BY <3>1, <1>9 DEF KernelInv, ConnectRecords
      <4> QED BY <3>1, <4>1, <1>6, <1>8 DEF ConnectRecord
    <3>2. CASE ring'[i] = r /\ ring' # ring
      <4>1. call'[t] = call[t]
        BY <3>2, <1>8
      <4> QED BY <3>2, <4>1, <1>1, <1>5, <2>3 DEF ConnectRecord
    <3> QED BY <2>6, <3>1, <3>2
  <2> QED BY <1>10, <2>9, <2>10, <2>11, <2>12 DEF KernelInv, ConnectRecords
<1>13. \/ ring' = ring /\ inflight' = inflight /\ (t \in DOMAIN inflight => t \in orphans')
            /\ orphans \subseteq orphans' /\ orphans' \subseteq orphans \union {t}
       \/ call[t].hooked /\ t \in DOMAIN inflight /\ tcp_v4_connect_exit(t, ok) /\ UNCHANGED orphans
  <2>1. CASE call[t].hooked /\ IsUp(ConnectExit) /\ t \in DOMAIN inflight
    BY <2>1, <1>2
  <2>2. CASE call[t].hooked /\ IsUp(ConnectExit) /\ t \notin DOMAIN inflight
    BY <2>2, <1>2 DEF tcp_v4_connect_exit, Key
  <2>3. CASE ~(call[t].hooked /\ IsUp(ConnectExit))
    BY <2>3, <1>2
  <2> QED BY <2>1, <2>2, <2>3
<1> QED BY <1>11, <1>12, <1>13

-----------------------------------------------------------------------------
LEMMA KernelInitSafe == InitKernel => KernelInv
<1> SUFFICES ASSUME InitKernel PROVE KernelInv
  OBVIOUS
<1>1. DOMAIN inflight = {} /\ ring = << >> /\ DOMAIN ring = {}
  BY DEF InitKernel
<1>2. KernelTypes
  <2>1. IsFiniteSet({}) /\ Cardinality({}) = 0
    BY FS_EmptySet
  <2>2. inflight \in [DOMAIN inflight -> Socks]
    BY DEF InitKernel
  <2> QED BY <1>1, <2>1, <2>2, Bounds DEF InitKernel, KernelTypes
<1> QED BY <1>1, <1>2 DEF InitKernel, KernelInv, CallsOwnSockets, HookedAreTracked, EntriesInFlight,
                          FillingHasNoEntry, ConnectRecords

LEMMA KernelSafe ==
  ASSUME KernelInv, Kernel
  PROVE  KernelInv'
<1>1. CASE Traffic
  BY <1>1, ConnectSafe, AcceptSafe, CloseSafe, RetransmitSafe DEF Traffic
<1>2. CASE \E t \in Threads : ConnectReturns(t)
  BY <1>2, ReturnSafe
<1>3. CASE \E ctx \in Contexts : Submit(ctx)
  BY <1>3, SubmitSafe
<1> QED BY <1>1, <1>2, <1>3 DEF Kernel

LEMMA AttachSafe ==
  ASSUME KernelInv, attached < RetransmitPoint, Attach
  PROVE  KernelInv'
BY DEF Attach, RetransmitPoint, KernelInv, KernelTypes, CallsOwnSockets, HookedAreTracked,
       EntriesInFlight, FillingHasNoEntry, ConnectRecords, ConnectRecord

LEMMA KernelStutterSafe ==
  ASSUME KernelInv, UNCHANGED kernelVars
  PROVE  KernelInv'
BY DEF kernelVars, KernelInv, KernelTypes, CallsOwnSockets, HookedAreTracked, EntriesInFlight,
       FillingHasNoEntry, ConnectRecords, ConnectRecord

LEMMA KernelStepSafe == KernelInv /\ [KernelNext]_kernelVars => KernelInv'
BY KernelSafe, AttachSafe, ReadRingSafe, KernelStutterSafe DEF KernelNext

(* The invariant that carries the three properties below: what probes.c keeps   *)
(* between its map, its ring buffer and the calls in progress.                  *)
THEOREM KernelInvariance == KernelSpec => []KernelInv
BY KernelInitSafe, KernelStepSafe, PTL DEF KernelSpec

LEMMA KernelTypesHold == KernelInv => KernelTypeOK
<1> SUFFICES ASSUME KernelInv PROVE KernelTypeOK
  OBVIOUS
<1>1. \A i \in DOMAIN ring : ring[i] \in Record
  BY DEF KernelInv, KernelTypes
<1> QED BY <1>1 DEF KernelInv, KernelTypes, KernelTypeOK, Record, Call

(* Every record in the ring buffer is an event and neither map outgrows its     *)
(* max_entries (probes.c:40-63), whatever is attached.                          *)
THEOREM KernelTypeCorrect == KernelSpec => []KernelTypeOK
BY KernelTypesHold, KernelInvariance, PTL

LEMMA RecordsName == KernelInv => ConnectNamesItsSocket
<1> SUFFICES ASSUME KernelInv, NEW i \in DOMAIN ring, ring[i].by # None, ring[i].evt.event_type = "CONNECT"
             PROVE  LET s == call[ring[i].by].at
                    IN  s \in Socks /\ ring[i].evt.saddr = LocalEnd(sock[s])
                                    /\ ring[i].evt.daddr = RemoteEnd(sock[s])
  BY DEF ConnectNamesItsSocket
<1>1. ConnectRecord(ring[i])
  BY DEF KernelInv, ConnectRecords
<1> QED BY <1>1 DEF ConnectRecord, KernelInv, KernelTypes, Call

(* The program on the return of connect, which is not given the socket, writes  *)
(* the two ends of the socket its thread is connecting (probes.c:121-165).      *)
THEOREM ConnectsNamed == KernelSpec => []ConnectNamesItsSocket
BY RecordsName, KernelInvariance, PTL

(* The map of calls in flight holds nothing else, but for one entry per thread  *)
(* whose last return the kretprobe missed (probes.c:58-63, 143-145).            *)
THEOREM MapHoldsCalls == KernelSpec => []InflightIsInFlight
<1>1. KernelInv => InflightIsInFlight
  BY DEF KernelInv, KernelTypes, EntriesInFlight, InflightIsInFlight, Key
<1> QED BY <1>1, KernelInvariance, PTL

-----------------------------------------------------------------------------
(* The pipeline: types. *)

(* ... and that the goroutines are started once the informers have synchronized.*)
UserTypes ==
  /\ phase \in {"attaching", "syncing"} => reader = "off"
  /\ phase \in Phases /\ cancelled \in BOOLEAN
  /\ reader \in {"off", "reading", "done"}
  /\ hand \in Seq(Event) /\ Len(hand) <= 1
  /\ work \in Seq(Event) /\ Len(work) <= 1
  /\ events \in Seq(Event) /\ Len(events) <= ChanSize
  /\ turn \in {1, 2}
  /\ boxes \in [{1, 2} -> Seq(Event)]
  /\ \A c \in {1, 2} : Len(boxes[c]) <= ChanSize

IInv == KernelInv /\ UserTypes

LEMMA TwoConsumers == DOMAIN Consumers = {1, 2} /\ Len(Consumers) = 2
BY DEF Consumers

(* A queue that loses its head or gains an element is still a queue.            *)
LEMMA QueueSteps ==
  ASSUME NEW S, NEW q \in Seq(S)
  PROVE  /\ \A x \in S : Append(q, x) \in Seq(S) /\ Len(Append(q, x)) = Len(q) + 1
         /\ q # << >> => /\ Head(q) \in S /\ Tail(q) \in Seq(S) /\ Len(Tail(q)) = Len(q) - 1
                        /\ Len(q) \in Nat \ {0} /\ q[1] = Head(q)
<1>1. \A x \in S : Append(q, x) \in Seq(S) /\ Len(Append(q, x)) = Len(q) + 1
  OBVIOUS
<1>2. q # << >> => Head(q) \in S /\ Tail(q) \in Seq(S) /\ Len(Tail(q)) = Len(q) - 1
  OBVIOUS
<1>3. q # << >> => Len(q) \in Nat \ {0} /\ q[1] = Head(q)
  OBVIOUS
<1> QED BY <1>1, <1>2, <1>3

LEMMA FunctionIsQueue ==
  ASSUME NEW S, NEW n \in Nat, NEW f \in [1 .. n -> S]
  PROVE  f \in Seq(S) /\ Len(f) = n
OBVIOUS

(* What waits in a ring buffer, without the marks. *)
LEMMA EventsOfRecords ==
  ASSUME NEW r \in Seq(Record)
  PROVE  /\ [i \in DOMAIN r |-> r[i].evt] \in Seq(Event)
         /\ Len([i \in DOMAIN r |-> r[i].evt]) = Len(r)
<1>1. \A i \in DOMAIN r : r[i].evt \in Event
  <2>1. \A i \in DOMAIN r : r[i] \in Record
    OBVIOUS
  <2> QED BY <2>1 DEF Record
<1>2. DOMAIN r = 1 .. Len(r) /\ Len(r) \in Nat
  OBVIOUS
<1> DEFINE q == [i \in DOMAIN r |-> r[i].evt]
<1>3. q \in [1 .. Len(r) -> Event]
  BY <1>1, <1>2
<1> HIDE DEF q
<1>4. q \in Seq(Event) /\ Len(q) = Len(r)
  BY <1>2, <1>3, FunctionIsQueue
<1> QED BY <1>4 DEF q

LEMMA UnreadType ==
  /\ KernelInv => /\ Unread \in Seq(Event) /\ Len(Unread) = Len(ring)
                  /\ ring \in Seq(Record) /\ Len(ring) \in 0 .. RingSlots
  /\ KernelInv' => /\ Unread' \in Seq(Event) /\ Len(Unread') = Len(ring')
                   /\ ring' \in Seq(Record) /\ Len(ring') \in 0 .. RingSlots
<1>1. ASSUME KernelInv
      PROVE  /\ Unread \in Seq(Event) /\ Len(Unread) = Len(ring)
             /\ ring \in Seq(Record) /\ Len(ring) \in 0 .. RingSlots
  <2>1. ring \in Seq(Record) /\ Len(ring) \in 0 .. RingSlots
    BY <1>1, Bounds DEF KernelInv, KernelTypes
  <2> QED BY <2>1, EventsOfRecords DEF Unread
<1>2. ASSUME KernelInv'
      PROVE  /\ Unread' \in Seq(Event) /\ Len(Unread') = Len(ring')
             /\ ring' \in Seq(Record) /\ Len(ring') \in 0 .. RingSlots
  <2>1. ring' \in Seq(Record) /\ Len(ring') \in 0 .. RingSlots
    BY <1>2, Bounds DEF KernelInv, KernelTypes
  <2> QED BY <2>1, EventsOfRecords DEF Unread
<1> QED BY <1>1, <1>2

LEMMA InitSafe == Init => IInv
<1> SUFFICES ASSUME Init PROVE IInv
  OBVIOUS
<1>1. KernelInv
  BY KernelInitSafe DEF Init
<1>2. boxes \in [{1, 2} -> Seq(Event)] /\ \A c \in {1, 2} : boxes[c] = << >>
  BY TwoConsumers DEF Init
<1>3. UserTypes
  <2>1. \A c \in {1, 2} : Len(boxes[c]) <= ChanSize
    BY <1>2, PipelineConstants
  <2>2. /\ hand = << >> /\ work = << >> /\ events = << >> /\ Len(events) <= ChanSize
        /\ phase = "attaching" /\ cancelled = FALSE /\ reader = "off" /\ turn = 1
    BY PipelineConstants DEF Init
  <2>3. hand \in Seq(Event) /\ Len(hand) <= 1 /\ work \in Seq(Event) /\ Len(work) <= 1
        /\ events \in Seq(Event)
    BY <2>2
  <2> QED BY <1>2, <2>1, <2>2, <2>3 DEF UserTypes, Phases
<1> QED BY <1>1, <1>3 DEF IInv

LEMMA MainSafe ==
  ASSUME IInv, Main
  PROVE  IInv'
<1> USE DEF IInv
<1>1. CASE AttachNext
  <2>1. KernelInv'
    BY <1>1, AttachSafe DEF AttachNext
  <2> QED BY <1>1, <2>1 DEF AttachNext, UserTypes, Phases
<1>2. CASE AttachFails \/ Synced \/ MainReturns
  <2>1. KernelInv'
    BY <1>2, KernelStutterSafe DEF AttachFails, Synced, MainReturns
  <2> QED BY <1>2, <2>1 DEF AttachFails, Synced, MainReturns, UserTypes, Phases
<1>3. CASE MainTakes
  <2>1. KernelInv'
    BY <1>3, KernelStutterSafe DEF MainTakes
  <2>2. events \in Seq(Event) /\ events # << >>
    BY <1>3 DEF MainTakes, UserTypes
  <2>3. Head(events) \in Event /\ Tail(events) \in Seq(Event) /\ Len(Tail(events)) = Len(events) - 1
    BY <2>2, QueueSteps
  <2>4. Len(events) \in Nat
    BY <2>2
  <2> QED BY <1>3, <2>1, <2>3, <2>4, PipelineConstants DEF MainTakes, UserTypes
<1>4. CASE MainOffers
  <2>1. KernelInv'
    BY <1>4, KernelStutterSafe DEF MainOffers
  <2>2. work[1] \in Event /\ work' \in {work, << >>} /\ turn' \in {1, 2}
    BY <1>4, TwoConsumers DEF MainOffers, UserTypes
  <2>3. boxes' \in [{1, 2} -> Seq(Event)] /\ \A c \in {1, 2} : Len(boxes'[c]) <= ChanSize
    BY <1>4, <2>2, PipelineConstants DEF MainOffers, UserTypes
  <2>4. work' \in Seq(Event) /\ Len(work') <= 1
    <3>1. CASE work' = work
      BY <3>1 DEF UserTypes
    <3>2. CASE work' = << >>
      BY <3>2
    <3> QED BY <2>2, <3>1, <3>2
  <2>5. UNCHANGED <<phase, cancelled, reader, hand, events>>
    BY <1>4 DEF MainOffers
  <2> QED BY <2>1, <2>2, <2>3, <2>4, <2>5 DEF UserTypes
<1>5. CASE Exit
  <2>1. KernelInv'
    <3>1. /\ attached' = 0 /\ DOMAIN inflight' = {} /\ inflight' = << >>
          /\ ring' = << >> /\ DOMAIN ring' = {} /\ orphans' = {}
          /\ call' = [t \in Threads |-> NoCall] /\ UNCHANGED <<sock, made, missed>>
      BY <1>5 DEF Exit, CloseProbes
    <3>2. IsFiniteSet({}) /\ Cardinality({}) = 0
      BY FS_EmptySet
    <3>3. inflight' \in [DOMAIN inflight' -> Socks]
      BY <3>1
    <3>4. KernelTypes'
      BY <3>1, <3>2, <3>3, Bounds DEF KernelInv, KernelTypes
    <3> QED BY <3>1, <3>4 DEF KernelInv, CallsOwnSockets, HookedAreTracked, EntriesInFlight,
                              FillingHasNoEntry, ConnectRecords
  <2> QED BY <1>5, <2>1, PipelineConstants DEF Exit, UserTypes, Phases
<1> QED BY <1>1, <1>2, <1>3, <1>4, <1>5 DEF Main

LEMMA ReaderSafe ==
  ASSUME IInv, ReaderReads \/ ReaderSends \/ ReaderReturns
  PROVE  IInv'
<1> USE DEF IInv
<1>1. CASE ReaderReads
  <2>1. KernelInv'
    BY <1>1, ReadRingSafe DEF ReaderReads
  <2>2. Head(ring).evt \in Event
    <3>1. ring \in Seq(Record) /\ ring # << >>
      BY <1>1 DEF ReaderReads, ReadRing, KernelInv, KernelTypes
    <3>2. Head(ring) \in Record
      BY <3>1, QueueSteps
    <3> QED BY <3>2 DEF Record
  <2> QED BY <1>1, <2>1, <2>2 DEF ReaderReads, UserTypes
<1>2. CASE ReaderSends
  <2>1. KernelInv'
    BY <1>2, KernelStutterSafe DEF ReaderSends
  <2>2. hand[1] \in Event /\ events' = Append(events, hand[1]) /\ Len(events) < ChanSize
    BY <1>2 DEF ReaderSends, UserTypes
  <2>3. events' \in Seq(Event) /\ Len(events') <= ChanSize
    BY <2>2, PipelineConstants DEF UserTypes
  <2> QED BY <1>2, <2>1, <2>3 DEF ReaderSends, UserTypes
<1>3. CASE ReaderReturns
  <2>1. KernelInv'
    BY <1>3, KernelStutterSafe DEF ReaderReturns
  <2> QED BY <1>3, <2>1 DEF ReaderReturns, UserTypes
<1> QED BY <1>1, <1>2, <1>3

LEMMA StepSafe == IInv /\ [Next]_vars => IInv'
<1> SUFFICES ASSUME IInv, [Next]_vars PROVE IInv'
  OBVIOUS
<1>1. CASE KernelSteps
  BY <1>1, KernelSafe DEF KernelSteps, IInv, UserTypes, userVars
<1>2. CASE Main
  BY <1>2, MainSafe
<1>3. CASE Cancel
  BY <1>3, KernelStutterSafe DEF Cancel, IInv, UserTypes
<1>4. CASE ReaderReads \/ ReaderSends \/ ReaderReturns
  BY <1>4, ReaderSafe
<1>5. ASSUME NEW c \in DOMAIN Consumers, Receive(c) PROVE IInv'
  <2>1. KernelInv'
    BY <1>5, KernelStutterSafe DEF Receive, IInv
  <2>2. boxes[c] \in Seq(Event) /\ boxes[c] # << >> /\ Len(boxes[c]) <= ChanSize /\ c \in {1, 2}
    BY <1>5, TwoConsumers DEF Receive, IInv, UserTypes
  <2>3. Tail(boxes[c]) \in Seq(Event) /\ Len(Tail(boxes[c])) <= ChanSize
    BY <2>2, QueueSteps, PipelineConstants
  <2>4. boxes' \in [{1, 2} -> Seq(Event)] /\ \A d \in {1, 2} : Len(boxes'[d]) <= ChanSize
    BY <1>5, <2>2, <2>3 DEF Receive, IInv, UserTypes
  <2> QED BY <1>5, <2>1, <2>4 DEF Receive, IInv, UserTypes
<1>6. CASE UNCHANGED vars
  BY <1>6, KernelStutterSafe DEF vars, userVars, IInv, UserTypes
<1> QED BY <1>1, <1>2, <1>3, <1>4, <1>5, <1>6 DEF Next

(* What the kernel side keeps it keeps under the program that attaches, reads   *)
(* and detaches it at any moment (loader.go:168-190).                           *)
THEOREM Invariance == Spec => []IInv
BY InitSafe, StepSafe, PTL DEF Spec

(* Queues hold events and none is longer than its bound, on the whole way from  *)
(* the programs of probes.c to the two channels of main (main.go:292-328).      *)
THEOREM TypeCorrect == Spec => []TypeOK
<1>1. KernelInv => KernelTypeOK
  BY KernelTypesHold
<1>2. IInv => TypeOK
  <2> SUFFICES ASSUME IInv PROVE TypeOK
    OBVIOUS
  <2>1. /\ \A q \in Seq(Event) : AreEvents(q)
    BY DEF AreEvents
  <2> QED BY <1>1, <2>1, TwoConsumers DEF IInv, UserTypes, TypeOK
<1> QED BY <1>2, Invariance, PTL
-----------------------------------------------------------------------------
(* The pipeline implements EventStream.  Its backlog is what lies in the five   *)
(* places an event passes, and its end is asked for once nobody can wait for    *)
(* the reader any more.                                                         *)

Behind == IF reader = "done" THEN << >> ELSE hand \o Unread

Held == (work \o events) \o Behind

Ended == cancelled \/ phase = "detaching" \/ phase = "exited"

(* Sequences: what moving an element from one queue into the next, adding one   *)
(* at the end and cutting the end off do to queues laid end to end.             *)
LEMMA MovedElement ==
  ASSUME NEW S, NEW a \in Seq(S), NEW b \in Seq(S), NEW x \in S
  PROVE  /\ Append(a, x) \o b = a \o (<<x>> \o b)
         /\ a \o Append(b, x) = Append(a \o b, x)
         /\ Head(<<x>> \o b) = x /\ Tail(<<x>> \o b) = b /\ <<x>> \o b # << >>
         /\ a # << >> => <<Head(a)>> \o Tail(a) = a
<1>1. Append(a, x) \o b = a \o (<<x>> \o b)
  OBVIOUS
<1>2. a \o Append(b, x) = Append(a \o b, x)
  OBVIOUS
<1>3. Head(<<x>> \o b) = x /\ Tail(<<x>> \o b) = b /\ <<x>> \o b # << >>
  OBVIOUS
<1>4. a # << >> => <<Head(a)>> \o Tail(a) = a
  OBVIOUS
<1> QED BY <1>1, <1>2, <1>3, <1>4

LEMMA TailIs ==
  ASSUME NEW S, NEW q \in Seq(S), q # << >>
  PROVE  Tail(q) = [i \in 1 .. Len(q) - 1 |-> q[i + 1]]
<1> DEFINE r == [i \in 1 .. Len(q) - 1 |-> q[i + 1]]
<1>1. Len(q) \in Nat \ {0} /\ \A i \in 1 .. Len(q) : q[i] \in S
  OBVIOUS
<1>2. r \in Seq(S) /\ Len(r) = Len(q) - 1
  BY <1>1
<1>3. Tail(q) \in Seq(S) /\ Len(Tail(q)) = Len(q) - 1
  OBVIOUS
<1>4. \A i \in 1 .. Len(q) - 1 : Tail(q)[i] = q[i + 1]
  OBVIOUS
<1> QED BY <1>2, <1>3, <1>4, SeqEqual

LEMMA AtMostOne ==
  ASSUME NEW S, NEW q \in Seq(S), q # << >>, Len(q) <= 1
  PROVE  q[1] \in S /\ q = <<q[1]>>
<1>1. Len(q) = 1 /\ q[1] \in S
  <2>1. Len(q) \in Nat /\ Len(q) # 0
    BY EmptySeq
  <2>2. Len(q) = 1
    BY <2>1
  <2> QED BY <2>2
<1> DEFINE x == q[1]
           r == <<x>>
<1>2. r \in Seq(S) /\ Len(r) = 1 /\ r[1] = x
  BY <1>1
<1>3. \A i \in 1 .. Len(q) : q[i] = r[i]
  BY <1>1, <1>2
<1>4. q = r
  <2> HIDE DEF r
  <2> QED BY <1>1, <1>2, <1>3, SeqEqual
<1> QED BY <1>1, <1>4

LEMMA CutOff ==
  ASSUME NEW S, NEW a \in Seq(S), NEW b \in Seq(S)
  PROVE  /\ a = SubSeq(a \o b, 1, Len(a))
         /\ a \o b # a => Len(a) \in 0 .. Len(a \o b) - 1
<1>1. a = SubSeq(a \o b, 1, Len(a))
  OBVIOUS
<1>2. CASE b = << >>
  <2>1. a \o b = a
    BY <1>2, ConcatEmptySeq
  <2> QED BY <1>1, <2>1
<1>3. CASE b # << >>
  <2>1. Len(a \o b) = Len(a) + Len(b) /\ Len(a) \in Nat /\ Len(b) \in Nat /\ Len(b) # 0
    BY <1>3, ConcatProperties
  <2>2. Len(a) \in 0 .. Len(a \o b) - 1
    BY <2>1
  <2> QED BY <1>1, <2>2
<1> QED BY <1>2, <1>3

LEMMA HeldType ==
  ASSUME IInv
  PROVE  /\ hand \in Seq(Event) /\ work \in Seq(Event) /\ events \in Seq(Event)
         /\ Unread \in Seq(Event) /\ Behind \in Seq(Event) /\ Held \in Seq(Event)
         /\ Len(Held) <= Len(ring) + ChanSize + 2 /\ Len(ring) \in 0 .. RingSlots
<1>1. /\ hand \in Seq(Event) /\ work \in Seq(Event) /\ events \in Seq(Event)
      /\ Unread \in Seq(Event) /\ Len(Unread) = Len(ring) /\ Len(ring) \in 0 .. RingSlots
      /\ Len(hand) <= 1 /\ Len(work) <= 1 /\ Len(events) <= ChanSize
  BY UnreadType DEF IInv, UserTypes
<1>2. Behind \in Seq(Event) /\ Len(Behind) <= 1 + Len(ring)
  <2>1. hand \o Unread \in Seq(Event) /\ Len(hand \o Unread) = Len(hand) + Len(Unread)
    BY <1>1, ConcatProperties
  <2> QED BY <1>1, <2>1 DEF Behind
<1>3. /\ work \o events \in Seq(Event) /\ Len(work \o events) = Len(work) + Len(events)
      /\ Held \in Seq(Event) /\ Len(Held) = Len(work \o events) + Len(Behind)
  BY <1>1, <1>2, ConcatProperties DEF Held
<1>4. /\ Len(work) \in Nat /\ Len(events) \in Nat /\ Len(Behind) \in Nat
  BY <1>1, <1>2
<1> QED BY <1>1, <1>2, <1>3, <1>4, PipelineConstants

(* What a kernel step does to the unread events: at most one more at their end, *)
(* while the ring buffer has a slot.                                            *)
LEMMA ReserveUnread ==
  ASSUME KernelInv, KernelInv', NEW ctx, NEW evt, ring' \in {ring, Reserve(ctx, evt)}
  PROVE  Unread' = Unread
         \/ (Len(ring) < RingSlots /\ \E e \in Event : Unread' = Append(Unread, e))
<1>1. CASE ring' = ring
  BY <1>1 DEF Unread
<1>2. CASE ring' # ring
  <2>1. Len(ring) < RingSlots /\ ring' = Append(ring, [by |-> ctx, evt |-> evt])
    BY <1>2 DEF Reserve
  <2>2. /\ ring \in Seq(Record) /\ Len(ring) \in Nat
        /\ DOMAIN ring' = 1 .. Len(ring) + 1 /\ DOMAIN ring = 1 .. Len(ring)
        /\ \A i \in 1 .. Len(ring) : ring'[i] = ring[i]
    BY <2>1 DEF KernelInv, KernelTypes
  <2>3. Unread \in Seq(Event) /\ Len(Unread) = Len(ring)
    BY UnreadType
  <2>4. Unread' \in Seq(Event) /\ Len(Unread') = Len(ring) + 1
    <3>1. Unread' \in Seq(Event) /\ Len(Unread') = Len(ring') /\ ring' \in Seq(Record)
      BY UnreadType
    <3>2. Len(ring') = Len(ring) + 1
      <4>1. DOMAIN ring' = 1 .. Len(ring') /\ Len(ring') \in Nat
        BY <3>1
      <4>2. Len(ring) + 1 \in 1 .. Len(ring') /\ Len(ring) + 2 \notin 1 .. Len(ring')
        BY <2>2, <4>1
      <4> QED BY <2>2, <4>1, <4>2
    <3> QED BY <3>1, <3>2
  <2>5. \A i \in 1 .. Len(ring) : Unread'[i] = Unread[i]
    BY <2>2 DEF Unread
  <2> DEFINE e == Unread'[Len(ring) + 1]
  <2>6. e \in Event
    BY <2>2, <2>4
  <2>7. Unread' = Append(Unread, e)
    <3>1. /\ Append(Unread, e) \in Seq(Event) /\ Len(Append(Unread, e)) = Len(ring) + 1
          /\ \A i \in 1 .. Len(ring) : Append(Unread, e)[i] = Unread[i]
          /\ Append(Unread, e)[Len(ring) + 1] = e
      <4> HIDE DEF e
      <4> QED BY <2>2, <2>3, <2>6, AppendProperties
    <3>2. \A i \in 1 .. Len(ring) + 1 : Unread'[i] = Append(Unread, e)[i]
      BY <2>2, <2>5, <3>1
    <3> HIDE DEF e
    <3> QED BY <2>4, <3>1, <3>2, SeqEqual
  <2> QED BY <2>1, <2>6, <2>7
<1> QED BY <1>1, <1>2
LEMMA KernelUnread ==
  ASSUME KernelInv, KernelInv', Kernel
  PROVE  Unread' = Unread
         \/ (Len(ring) < RingSlots /\ \E e \in Event : Unread' = Append(Unread, e))
<1>1. ASSUME NEW t \in Threads, NEW s \in Socks, Connect(t, s) PROVE Unread' = Unread
  BY <1>1 DEF Connect, Unread
<1>2. ASSUME NEW t \in Threads, NEW s \in Socks, Accept(t, s)
      PROVE  \E evt : ring' \in {ring, Reserve(t, evt)}
  BY <1>2 DEF Accept, inet_csk_accept_exit
<1>3. ASSUME NEW t \in Threads, NEW s \in Socks, Close(t, s)
      PROVE  \E evt : ring' \in {ring, Reserve(t, evt)}
  BY <1>3 DEF Close, tcp_close_entry
<1>4. ASSUME NEW s \in Socks, NEW task \in Interrupted, Retransmit(s, task)
      PROVE  \E evt : ring' \in {ring, Reserve(NetRx, evt)}
  BY <1>4 DEF Retransmit, handle_tcp_retransmit
<1>5. ASSUME NEW t \in Threads, ConnectReturns(t)
      PROVE  \E evt : ring' \in {ring, Reserve(t, evt)}
  BY <1>5 DEF ConnectReturns, tcp_v4_connect_exit
<1>6. ASSUME NEW ctx \in Contexts, Submit(ctx) PROVE Unread' = Unread
  <2>1. DOMAIN ring' = DOMAIN ring
        /\ \A i \in DOMAIN ring :
             ring'[i] = IF ring[i].by = ctx THEN [ring[i] EXCEPT !.by = None] ELSE ring[i]
    BY <1>6 DEF Submit
  <2>2. \A i \in DOMAIN ring : ring[i] \in Record
    BY DEF KernelInv, KernelTypes
  <2>3. \A r \in Record : [r EXCEPT !.by = None].evt = r.evt
    BY DEF Record
  <2>4. \A i \in DOMAIN ring : ring'[i].evt = ring[i].evt
    BY <2>1, <2>2, <2>3
  <2> QED BY <2>1, <2>4 DEF Unread
<1> QED BY <1>1, <1>2, <1>3, <1>4, <1>5, <1>6, ReserveUnread DEF Kernel, Traffic

(* A step of the pipeline in the terms of EventStream.                          *)
LEMMA Stutters ==
  ASSUME UNCHANGED <<Held, turn, boxes, Ended>>
  PROVE  UNCHANGED Promise!vars
BY DEF Promise!vars, Held, Behind, Ended

LEMMA Accepts ==
  ASSUME Held \in Seq(Event), Len(Held) < RingSlots + ChanSize + 2,
         NEW e \in Event, Held' = Append(Held, e), UNCHANGED <<turn, boxes, Ended>>
  PROVE  Promise!Accept
<1>1. Len(Held') = Len(Held) + 1 /\ SubSeq(Held', 1, Len(Held)) = Held
  OBVIOUS
<1> QED BY <1>1 DEF Promise!Accept, Held, Behind, Ended

LEMMA Ends ==
  ASSUME Ended', UNCHANGED <<Held, turn, boxes>>
  PROVE  Promise!End
BY DEF Promise!End, Held, Behind, Ended

LEMMA GivesUp ==
  ASSUME NEW a \in Seq(Event), NEW b \in Seq(Event), Held = a \o b, Held' = a,
         Ended, UNCHANGED <<turn, boxes, Ended>>
  PROVE  Promise!GiveUp \/ UNCHANGED Promise!vars
<1>1. CASE a \o b = a
  BY <1>1, Stutters
<1>2. CASE a \o b # a
  <2>1. a = SubSeq(Held, 1, Len(a)) /\ Len(a) \in 0 .. Len(Held) - 1
    BY <1>2, CutOff
  <2> QED BY <2>1 DEF Promise!GiveUp, Held, Behind, Ended
<1> QED BY <1>1, <1>2

LEMMA KernelRefines ==
  ASSUME IInv, IInv', KernelSteps
  PROVE  Promise!Next \/ UNCHANGED Promise!vars
<1>1. UNCHANGED <<phase, cancelled, reader, hand, events, work, turn, boxes>>
      /\ Ended' = Ended /\ Kernel
  BY DEF KernelSteps, userVars, Ended
<1>2. CASE Held' = Held
  BY <1>1, <1>2, Stutters
<1>3. CASE Held' # Held
  <2>1. reader # "done"
    BY <1>1, <1>3 DEF Held, Behind
  <2>2. Unread' # Unread
    BY <1>1, <1>3 DEF Held, Behind
  <2>3. PICK e \in Event : Unread' = Append(Unread, e) /\ Len(ring) < RingSlots
    BY <1>1, <2>2, KernelUnread DEF IInv
  <2>4. Behind' = Append(Behind, e)
    BY <1>1, <2>1, <2>3, HeldType, MovedElement DEF Behind
  <2>5. Held' = Append(Held, e)
    <3>1. work \o events \in Seq(Event) /\ Behind \in Seq(Event)
      BY HeldType, ConcatProperties
    <3> QED BY <1>1, <2>4, <3>1, MovedElement DEF Held
  <2>6. Len(Held) < RingSlots + ChanSize + 2
    <3>1. Len(Held) \in Nat
      BY HeldType
    <3> QED BY <2>3, <3>1, HeldType, Bounds, PipelineConstants
  <2> QED BY <1>1, <2>5, <2>6, HeldType, Accepts DEF Promise!Next
<1> QED BY <1>2, <1>3
LEMMA ReaderRefines ==
  ASSUME IInv, ReaderReads \/ ReaderSends \/ ReaderReturns
  PROVE  Promise!Next \/ UNCHANGED Promise!vars
<1>1. CASE ReaderReads
  <2>1. /\ reader = "reading" /\ hand = << >> /\ ring # << >>
        /\ ring' = Tail(ring) /\ hand' = <<Head(ring).evt>>
        /\ UNCHANGED <<phase, cancelled, reader, events, work, turn, boxes>>
    BY <1>1 DEF ReaderReads, ReadRing
  <2>2. ring \in Seq(Record) /\ Len(ring) \in Nat \ {0} /\ Unread \in Seq(Event) /\ Len(Unread) = Len(ring)
    BY <2>1, UnreadType DEF IInv, KernelInv, KernelTypes
  <2>3. Unread # << >> /\ Head(Unread) = Head(ring).evt /\ Head(Unread) \in Event
    BY <2>2 DEF Unread
  <2>4. Unread' = Tail(Unread)
    <3>1. /\ Tail(ring) \in Seq(Record) /\ DOMAIN Tail(ring) = 1 .. Len(ring) - 1
          /\ \A i \in 1 .. Len(ring) - 1 : Tail(ring)[i] = ring[i + 1] /\ i + 1 \in DOMAIN ring
      BY <2>1, <2>2
    <3>2. DOMAIN Unread' = 1 .. Len(ring) - 1
          /\ \A i \in 1 .. Len(ring) - 1 : Unread'[i] = ring[i + 1].evt
      BY <2>1, <3>1 DEF Unread
    <3>3. Unread' = [i \in 1 .. Len(ring) - 1 |-> Unread[i + 1]]
      BY <3>1, <3>2 DEF Unread
    <3> QED BY <2>2, <2>3, <3>3, TailIs
  <2>5. Behind' = Behind
    <3>1. Behind = Unread
      BY <2>1, <2>2, ConcatEmptySeq DEF Behind
    <3>2. Behind' = <<Head(Unread)>> \o Tail(Unread)
      BY <2>1, <2>3, <2>4 DEF Behind
    <3> QED BY <2>2, <2>3, <3>1, <3>2, MovedElement
  <2> QED BY <2>1, <2>5, Stutters DEF Held, Ended
<1>2. CASE ReaderSends
  <2>1. /\ reader = "reading" /\ hand # << >> /\ hand' = << >> /\ events' = Append(events, hand[1])
        /\ UNCHANGED <<kernelVars, phase, cancelled, reader, work, turn, boxes>>
    BY <1>2 DEF ReaderSends
  <2>2. hand[1] \in Event /\ hand = <<hand[1]>> /\ Unread \in Seq(Event)
    BY <2>1, HeldType, AtMostOne DEF IInv, UserTypes
  <2>3. Unread' = Unread
    BY <2>1 DEF kernelVars, Unread
  <2>4. Behind = <<hand[1]>> \o Unread /\ Behind' = Unread
    BY <2>1, <2>2, <2>3, ConcatEmptySeq DEF Behind
  <2>5. Held' = Held
    <3> DEFINE x == hand[1]
    <3>1. work \in Seq(Event) /\ events \in Seq(Event) /\ work \o events \in Seq(Event) /\ x \in Event
      BY <2>2, HeldType, ConcatProperties
    <3>2. Held' = (work \o Append(events, x)) \o Unread /\ Held = (work \o events) \o (<<x>> \o Unread)
      BY <2>1, <2>4 DEF Held
    <3> HIDE DEF x
    <3>3. work \o Append(events, x) = Append(work \o events, x)
      BY <3>1, MovedElement
    <3> QED BY <2>2, <3>1, <3>2, <3>3, MovedElement
  <2> QED BY <2>1, <2>5, Stutters DEF Ended
<1>3. CASE ReaderReturns
  <2>1. /\ cancelled /\ reader' = "done"
        /\ UNCHANGED <<phase, cancelled, events, work, turn, boxes>>
    BY <1>3 DEF ReaderReturns
  <2>2. /\ work \o events \in Seq(Event) /\ Behind \in Seq(Event)
        /\ Held = (work \o events) \o Behind
    BY HeldType, ConcatProperties DEF Held
  <2>3. Held' = work \o events
    BY <2>1, <2>2, ConcatEmptySeq DEF Held, Behind
  <2>4. Ended /\ Ended' = Ended
    BY <2>1 DEF Ended
  <2> QED BY <2>1, <2>2, <2>3, <2>4, GivesUp DEF Promise!Next
<1> QED BY <1>1, <1>2, <1>3

LEMMA MainRefines ==
  ASSUME IInv, Main
  PROVE  Promise!Next \/ UNCHANGED Promise!vars
<1>1. CASE AttachNext \/ Synced
  <2>1. UNCHANGED <<ring, cancelled, hand, events, work, turn, boxes>>
    BY <1>1 DEF AttachNext, Attach, Synced, kernelVars
  <2>2. Ended' = Ended
    BY <1>1 DEF AttachNext, Synced, Ended
  <2>3. Held' = Held
    <3>1. (reader = "done") <=> (reader' = "done")
      BY <1>1 DEF AttachNext, Synced, IInv, UserTypes
    <3> QED BY <2>1, <3>1 DEF Held, Behind, Unread
  <2> QED BY <2>1, <2>2, <2>3, Stutters
<1>2. CASE AttachFails \/ MainReturns
  <2>1. UNCHANGED <<ring, reader, hand, events, work, turn, boxes>> /\ phase' = "detaching"
    BY <1>2 DEF AttachFails, MainReturns, kernelVars
  <2> QED BY <2>1, Ends DEF Held, Behind, Unread, Ended, Promise!Next
<1>3. CASE MainTakes
  <2>1. /\ work = << >> /\ events # << >> /\ work' = <<Head(events)>> /\ events' = Tail(events)
        /\ UNCHANGED <<ring, phase, cancelled, reader, hand, turn, boxes>>
    BY <1>3 DEF MainTakes, kernelVars
  <2>2. events \in Seq(Event) /\ Head(events) \in Event
    BY <2>1, HeldType, QueueSteps
  <2>3. work' \o events' = work \o events
    BY <2>1, <2>2, MovedElement, ConcatEmptySeq
  <2>4. Held' = Held
    BY <2>1, <2>3 DEF Held, Behind, Unread
  <2> QED BY <2>1, <2>4, Stutters DEF Ended
<1>4. CASE MainOffers
  <2>1. /\ work # << >>
        /\ boxes' = IF Len(boxes[turn]) < ChanSize
                      THEN [boxes EXCEPT ![turn] = Append(@, work[1])] ELSE boxes
        /\ IF turn < Len(Consumers) THEN turn' = turn + 1 /\ work' = work
                                    ELSE turn' = 1 /\ work' = << >>
        /\ UNCHANGED <<ring, phase, cancelled, reader, hand, events>>
    BY <1>4 DEF MainOffers, kernelVars
  <2> DEFINE w == work[1]
             rest == events \o Behind
  <2>2. /\ w \in Event /\ work = <<w>> /\ events \in Seq(Event) /\ Behind \in Seq(Event)
        /\ Behind' = Behind /\ Ended' = Ended
    <3>1. w \in Event /\ work = <<w>>
      BY <2>1, AtMostOne DEF IInv, UserTypes
    <3>2. Behind' = Behind /\ Ended' = Ended
      BY <2>1 DEF Behind, Unread, Ended
    <3> QED BY <3>1, <3>2, HeldType
  <2>3. rest \in Seq(Event) /\ Held = <<w>> \o rest
    <3> HIDE DEF w
    <3>1. <<w>> \in Seq(Event)
      BY <2>2
    <3> QED BY <2>2, <3>1, ConcatProperties, ConcatAssociative DEF Held
  <2>4. Held # << >> /\ Head(Held) = w /\ Tail(Held) = rest
    <3> HIDE DEF w, rest
    <3> QED BY <2>2, <2>3, MovedElement
  <2>5. IF turn < Len(Consumers) THEN turn' = turn + 1 /\ Held' = Held
                                 ELSE turn' = 1 /\ Held' = Tail(Held)
    <3>1. CASE work' = work
      BY <2>1, <2>2, <3>1, TwoConsumers DEF Held
    <3>2. CASE work' = << >>
      <4>1. Held' = rest
        BY <2>1, <2>2, <3>2, ConcatEmptySeq DEF Held
      <4> QED BY <2>1, <2>4, <3>2, <4>1
    <3> QED BY <2>1, <3>1, <3>2
  <2> HIDE DEF rest
  <2>6. Promise!Offer
    BY <2>1, <2>2, <2>4, <2>5 DEF Promise!Offer, Held, Behind, Ended
  <2> QED BY <2>6 DEF Promise!Next
<1>5. CASE Exit
  <2>1. /\ reader' = "done" /\ events' = << >> /\ phase' = "exited" /\ phase = "detaching"
        /\ UNCHANGED <<cancelled, work, turn, boxes>>
    BY <1>5 DEF Exit
  <2>2. /\ work \in Seq(Event) /\ events \o Behind \in Seq(Event)
        /\ Held = work \o (events \o Behind)
    <3>1. work \in Seq(Event) /\ events \in Seq(Event) /\ Behind \in Seq(Event)
      BY HeldType
    <3> HIDE DEF Behind
    <3>2. (work \o events) \o Behind = work \o (events \o Behind)
      BY <3>1, ConcatAssociative
    <3> QED BY <3>1, <3>2, ConcatProperties DEF Held
  <2>3. Held' = work
    BY <2>1, <2>2, ConcatEmptySeq DEF Held, Behind
  <2>4. Ended /\ Ended' = Ended
    BY <2>1 DEF Ended
  <2> QED BY <2>1, <2>2, <2>3, <2>4, GivesUp DEF Promise!Next
<1> QED BY <1>1, <1>2, <1>3, <1>4, <1>5 DEF Main

(* A consumer that receives does so as EventStream lets it.                     *)
LEMMA ReceiveRefines ==
  ASSUME NEW c \in DOMAIN Consumers, Receive(c)
  PROVE  Promise!Next
<1>1. /\ boxes[c] # << >> /\ boxes' = [boxes EXCEPT ![c] = Tail(@)]
      /\ UNCHANGED <<ring, phase, cancelled, reader, hand, events, work, turn>>
  BY DEF Receive, kernelVars
<1>2. Promise!Take(c)
  BY <1>1 DEF Promise!Take, Unread
<1> QED BY <1>2 DEF Promise!Next

LEMMA InitRefines ==
  ASSUME Init
  PROVE  Promise!Init
<1>1. /\ ring = << >> /\ phase = "attaching" /\ cancelled = FALSE /\ reader = "off"
      /\ hand = << >> /\ events = << >> /\ work = << >> /\ turn = 1
      /\ boxes = [c \in DOMAIN Consumers |-> << >>]
  BY DEF Init, InitKernel
<1>2. Unread = << >>
  BY <1>1 DEF Unread
<1>3. Held = << >>
  BY <1>1, <1>2 DEF Held, Behind
<1>4. ~Ended
  BY <1>1 DEF Ended
<1> QED BY <1>1, <1>3, <1>4 DEF Promise!Init, Held, Behind, Ended

LEMMA StepRefines ==
  ASSUME IInv, IInv', [Next]_vars
  PROVE  [Promise!Next]_(Promise!vars)
<1>1. CASE KernelSteps
  BY <1>1, KernelRefines
<1>2. CASE Main
  BY <1>2, MainRefines
<1>3. CASE Cancel
  <2>1. /\ cancelled' = TRUE
        /\ UNCHANGED <<ring, phase, reader, hand, events, work, turn, boxes>>
    BY <1>3 DEF Cancel, kernelVars
  <2> QED BY <2>1, Ends DEF Held, Behind, Unread, Ended, Promise!Next
<1>4. CASE ReaderReads \/ ReaderSends \/ ReaderReturns
  BY <1>4, ReaderRefines
<1>5. ASSUME NEW c \in DOMAIN Consumers, Receive(c) PROVE Promise!Next
  BY <1>5, ReceiveRefines
<1>6. CASE UNCHANGED vars
  <2>1. UNCHANGED <<ring, phase, cancelled, reader, hand, events, work, turn, boxes>>
    BY <1>6 DEF vars, kernelVars, userVars
  <2> QED BY <2>1, Stutters DEF Held, Behind, Unread, Ended
<1> QED BY <1>1, <1>2, <1>3, <1>4, <1>5, <1>6 DEF Next

(* Nothing accepted into the ring buffer is lost, doubled or overtaken on its   *)
(* way to the two channels, whatever blocks, until the end has been asked for   *)
(* (reader.go:116-124, main.go:309-327).                                        *)
THEOREM PromiseKept == Spec => StreamPromise
<1>1. Init => Promise!Init
  BY InitRefines
<1>2. IInv /\ IInv' /\ [Next]_vars => [Promise!Next]_(Promise!vars)
  BY StepRefines
<1> QED BY <1>1, <1>2, Invariance, PTL DEF Spec, StreamPromise, Promise!Spec
-----------------------------------------------------------------------------
(* The program around them changes nothing of what the kernel's programs keep:  *)
(* under every schedule of main, the reader and the consumers an event names    *)
(* the socket it is about (probes.c:118-148, 208-215) and an entry of           *)
(* inflight_connects is a call in flight (probes.c:94-111).                     *)
THEOREM PipelineKeepsTheMap == Spec => [](InflightIsInFlight /\ ConnectNamesItsSocket)
<1>1. KernelInv => InflightIsInFlight
  BY DEF KernelInv, KernelTypes, EntriesInFlight, InflightIsInFlight, Key
<1>2. IInv => InflightIsInFlight /\ ConnectNamesItsSocket
  BY <1>1, RecordsName DEF IInv
<1> QED BY <1>2, Invariance, PTL
=============================================================================
