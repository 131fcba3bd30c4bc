---------------------------- MODULE EventStream ----------------------------
(***************************************************************************)
(* What the pipeline promises of the events it has accepted, whatever      *)
(* stages they go through: they are handed over one by one in the order in *)
(* which they were accepted, each to every consumer in turn; a consumer    *)
(* misses an event only when its box is full at that moment; and nothing   *)
(* that was accepted is given up before the end of the program has been    *)
(* asked for.                                                              *)
(***************************************************************************)
EXTENDS Integers, Sequences

CONSTANTS
  Consumers,   (* a sequence: who is offered an event first, second ...          *)
  BoxSize,
  Backlog      (* accepted events at once                                        *)

VARIABLES
  backlog,     (* accepted and not yet offered to everybody, oldest first        *)
  turn,        (* who is offered the oldest one next                             *)
  boxes,       (* what each consumer has yet to take                             *)
  ending       (* the end has been asked for                                     *)

vars == <<backlog, turn, boxes, ending>>

Init ==
  /\ backlog = << >>
  /\ turn = 1
  /\ boxes = [c \in DOMAIN Consumers |-> << >>]
  /\ ending = FALSE

Accept ==
  /\ Len(backlog) < Backlog
  /\ Len(backlog') = Len(backlog) + 1 /\ SubSeq(backlog', 1, Len(backlog)) = backlog
  /\ UNCHANGED <<turn, boxes, ending>>

Offer ==
  /\ backlog # << >>
  /\ boxes' = IF Len(boxes[turn]) < BoxSize
                THEN [boxes EXCEPT ![turn] = Append(@, Head(backlog))] ELSE boxes
  /\ IF turn < Len(Consumers)
       THEN turn' = turn + 1 /\ backlog' = backlog
       ELSE turn' = 1 /\ backlog' = Tail(backlog)
  /\ UNCHANGED ending

Take(c) ==
  /\ boxes[c] # << >>
  /\ boxes' = [boxes EXCEPT ![c] = Tail(@)]
  /\ UNCHANGED <<backlog, turn, ending>>

End == ending' = TRUE /\ UNCHANGED <<backlog, turn, boxes>>

(* Given up are always the latest.                                              *)
GiveUp ==
  /\ ending
  /\ \E n \in 0 .. Len(backlog) - 1 : backlog' = SubSeq(backlog, 1, n)
  /\ UNCHANGED <<turn, boxes, ending>>

Next == Accept \/ Offer \/ (\E c \in DOMAIN Consumers : Take(c)) \/ End \/ GiveUp

Spec == Init /\ [][Next]_vars
=============================================================================
