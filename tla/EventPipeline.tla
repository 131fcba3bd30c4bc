--------------------------- MODULE EventPipeline ---------------------------
(***************************************************************************)
(* The way of an event from the kernel to the graph builder and the        *)
(* annotator: the probes, the ring buffer reader (pkg/probe/reader.go),    *)
(* the loop of main that resolves an event and offers it to both           *)
(* (cmd/cascadeshield/main.go), and the life of the program around them:   *)
(* attaching, waiting for Kubernetes, running, detaching.                  *)
(***************************************************************************)
EXTENDS Probes

CONSTANTS
  ChanSize     (* EventChannelSize, of all three channels                        *)

ASSUME PipelineConstants == ChanSize \in Nat \ {0}

VARIABLES
  phase,       (* where main is                                                  *)
  cancelled,   (* ctx is done                                                    *)
  reader,      (* off, reading or done                                           *)
  hand,        (* the event the reader is sending: at most one                   *)
  events,      (* the channel from the reader to main                            *)
  work,        (* the event main is at: at most one                              *)
  turn,        (* which of the consumers main offers it to next                  *)
  boxes        (* the channels builderEvents and metricsEvents                   *)

userVars == <<phase, cancelled, reader, hand, events, work, turn, boxes>>
vars == <<kernelVars, userVars>>

Consumers == <<"builder", "annotator">>

Phases == {"attaching", "syncing", "running", "detaching", "exited"}

Init ==
  /\ InitKernel
  /\ phase = "attaching"
  /\ cancelled = FALSE
  /\ reader = "off"
  /\ hand = << >>
  /\ events = << >>
  /\ work = << >>
  /\ turn = 1
  /\ boxes = [c \in DOMAIN Consumers |-> << >>]

-----------------------------------------------------------------------------
(* main, from its start to its loop and from there to its end. *)

AttachNext ==
  /\ phase = "attaching" /\ attached < RetransmitPoint
  /\ Attach
  /\ phase' = IF attached' = RetransmitPoint THEN "syncing" ELSE phase
  /\ UNCHANGED <<cancelled, reader, hand, events, work, turn, boxes>>

(* A link that cannot be attached: New closes the others and main exits.       *)
AttachFails ==
  /\ phase = "attaching"
  /\ phase' = "detaching"
  /\ UNCHANGED <<kernelVars, cancelled, reader, hand, events, work, turn, boxes>>

(* Resolver.Start returns: the informers have synchronized.  Nothing but the   *)
(* API server ends this wait.  Then the goroutines start.                      *)
Synced ==
  /\ phase = "syncing"
  /\ phase' = "running"
  /\ reader' = "reading"
  /\ UNCHANGED <<kernelVars, cancelled, hand, events, work, turn, boxes>>

Cancel ==
  /\ ~cancelled
  /\ cancelled' = TRUE
  /\ UNCHANGED <<kernelVars, phase, reader, hand, events, work, turn, boxes>>

(* select in main's loop: an event, or the end.                                *)
MainTakes ==
  /\ phase = "running" /\ work = << >> /\ events # << >>
  /\ work' = <<Head(events)>>
  /\ events' = Tail(events)
  /\ UNCHANGED <<kernelVars, phase, cancelled, reader, hand, turn, boxes>>

(* Fault: a send that blocks. *)
OfferBlocking ==
  /\ work # << >>
  /\ Len(boxes[turn]) < ChanSize
  /\ boxes' = [boxes EXCEPT ![turn] = Append(@, work[1])]
  /\ IF turn < Len(Consumers)
       THEN turn' = turn + 1 /\ work' = work
       ELSE turn' = 1 /\ work' = << >>
  /\ UNCHANGED <<kernelVars, phase, cancelled, reader, hand, events>>

(* The two sends with a default: a full channel drops the event for this       *)
(* consumer alone.                                                             *)
MainOffers ==
  /\ work # << >>
  /\ boxes' = IF Len(boxes[turn]) < ChanSize
                THEN [boxes EXCEPT ![turn] = Append(@, work[1])] ELSE boxes
  /\ IF turn < Len(Consumers)
       THEN turn' = turn + 1 /\ work' = work
       ELSE turn' = 1 /\ work' = << >>
  /\ UNCHANGED <<kernelVars, phase, cancelled, reader, hand, events>>

MainReturns ==
  /\ phase = "running" /\ work = << >> /\ cancelled
  /\ phase' = "detaching"
  /\ UNCHANGED <<kernelVars, cancelled, reader, hand, events, work, turn, boxes>>

(* Probe.Close, deferred, and the end of the process, whatever its goroutines  *)
(* are doing.                                                                  *)
Exit ==
  /\ phase = "detaching"
  /\ CloseProbes
  /\ phase' = "exited"
  /\ reader' = "done" /\ hand' = << >> /\ events' = << >>
  /\ UNCHANGED <<cancelled, work, turn, boxes>>

-----------------------------------------------------------------------------
(* Reader.Run. *)

(* Read blocks while the oldest record is not submitted.                       *)
ReaderReads ==
  /\ reader = "reading" /\ hand = << >>
  /\ ReadRing
  /\ hand' = <<Head(ring).evt>>
  /\ UNCHANGED <<phase, cancelled, reader, events, work, turn, boxes>>

(* Faults: a full channel makes the reader drop the event; or return. *)
SendOrDrop ==
  /\ reader = "reading" /\ hand # << >>
  /\ events' = IF Len(events) < ChanSize THEN Append(events, hand[1]) ELSE events
  /\ hand' = << >>
  /\ UNCHANGED <<kernelVars, phase, cancelled, reader, work, turn, boxes>>

SendOrReturn ==
  /\ reader = "reading" /\ hand # << >>
  /\ IF Len(events) < ChanSize
       THEN events' = Append(events, hand[1]) /\ hand' = << >> /\ reader' = reader
       ELSE reader' = "done" /\ UNCHANGED <<hand, events>>
  /\ UNCHANGED <<kernelVars, phase, cancelled, work, turn, boxes>>

(* A full channel blocks the reader.                                           *)
ReaderSends ==
  /\ reader = "reading" /\ hand # << >> /\ Len(events) < ChanSize
  /\ events' = Append(events, hand[1])
  /\ hand' = << >>
  /\ UNCHANGED <<kernelVars, phase, cancelled, reader, work, turn, boxes>>

(* The end: Read returns ErrClosed, or the select of the send finds ctx done   *)
(* and the event in hand is lost.                                              *)
ReaderReturns ==
  /\ reader = "reading" /\ cancelled
  /\ reader' = "done"
  /\ hand' = << >>
  /\ UNCHANGED <<kernelVars, phase, cancelled, events, work, turn, boxes>>

(* Builder.Run and Annotator.Run receive.  Both return when ctx is done.       *)
Receive(c) ==
  /\ phase # "exited" /\ boxes[c] # << >>
  /\ boxes' = [boxes EXCEPT ![c] = Tail(@)]
  /\ UNCHANGED <<kernelVars, phase, cancelled, reader, hand, events, work, turn>>

-----------------------------------------------------------------------------
KernelSteps == phase # "exited" /\ Kernel /\ UNCHANGED userVars

Main == AttachNext \/ AttachFails \/ Synced \/ MainTakes \/ MainOffers \/ MainReturns
          \/ Exit

Next ==
  \/ KernelSteps
  \/ Main
  \/ Cancel
  \/ ReaderReads \/ ReaderSends \/ ReaderReturns
  \/ \E c \in DOMAIN Consumers : Receive(c)

Spec == Init /\ [][Next]_vars

(***************************************************************************)
(* Code that has started goes on.  Traffic, signals and the API server owe *)
(* nothing, and the consumers owe nothing once they may have returned.     *)
(* `select` takes a random one of the ready cases, so that the loop of     *)
(* main does not pass a done context over for ever.                        *)
(***************************************************************************)
FairSpec ==
  /\ Spec
  /\ \A t \in Threads : WF_vars(phase # "exited" /\ ConnectReturns(t) /\ UNCHANGED userVars)
  /\ \A ctx \in Contexts : WF_vars(phase # "exited" /\ Submit(ctx) /\ UNCHANGED userVars)
  /\ WF_vars(AttachNext) /\ WF_vars(Exit)
  /\ WF_vars(MainTakes) /\ WF_vars(MainOffers) /\ SF_vars(MainReturns)
  /\ WF_vars(ReaderReads) /\ WF_vars(ReaderSends) /\ WF_vars(ReaderReturns)
  /\ \A c \in DOMAIN Consumers : WF_vars(~cancelled /\ Receive(c))

-----------------------------------------------------------------------------
AreEvents(q) == \A i \in DOMAIN q : q[i] \in Event

TypeOK ==
  /\ KernelTypeOK
  /\ phase \in Phases /\ cancelled \in BOOLEAN
  /\ reader \in {"off", "reading", "done"}
  /\ Len(hand) <= 1 /\ Len(work) <= 1 /\ Len(events) <= ChanSize
  /\ AreEvents(hand) /\ AreEvents(work) /\ AreEvents(events)
  /\ turn \in DOMAIN Consumers
  /\ \A c \in DOMAIN Consumers : Len(boxes[c]) <= ChanSize /\ AreEvents(boxes[c])

Unread == [i \in DOMAIN ring |-> ring[i].evt]

(* The pipeline keeps the promise of EventStream (reader.go:116-124,           *)
(* main.go:309-327): nothing accepted into the ring buffer is lost, doubled or *)
(* overtaken on its way to the two channels, whatever blocks.                  *)
Promise == INSTANCE EventStream WITH
  backlog <- work \o events \o (IF reader = "done" THEN << >> ELSE hand \o Unread),
  ending <- cancelled \/ phase = "detaching" \/ phase = "exited",
  BoxSize <- ChanSize,
  Backlog <- RingSlots + ChanSize + 2

StreamPromise == Promise!Spec

ClosePending(n) ==
  \E i \in DOMAIN ring :
    ring[i].evt.event_type = "CLOSE" /\ n \in {ring[i].evt.saddr[2], ring[i].evt.daddr[2]}

(* The ring buffer drains: while the reader reads, the CLOSE of a connection,  *)
(* and with it all that was reserved before, leaves the ring buffer, though    *)
(* the channel behind it fills up and records before it are still being        *)
(* written (reader.go:72-125).                                                 *)
RingDrains == \A n \in 1 .. MaxConns : ClosePending(n) /\ reader = "reading" ~> ~ClosePending(n)

(* Once the program runs, a signal ends it and leaves no probe in the kernel,  *)
(* whatever channels are full and whoever has stopped receiving                *)
(* (main.go:333-351, loader.go:168-190).                                       *)
CancelEndsTheRun == cancelled /\ phase = "running" ~> phase = "exited" /\ attached = 0

-----------------------------------------------------------------------------
(* What a comment says. *)

(* Resolve: the end of the connection it calls the source of an ACCEPT.        *)
SourceOfAccept(evt) == evt.saddr

(* "Source = Remote (SAddr:SPort)" (resolver.go:95): the source service of an  *)
(* ACCEPT is the client.                                                       *)
DocAcceptSourceIsRemote ==
  \A i \in DOMAIN work : work[i].event_type = "ACCEPT" => SourceOfAccept(work[i])[1] = Peer
=============================================================================
