---------------------------- MODULE GnssAdapter -----------------------------
(***************************************************************************)
(* The status path of the canonical GNSS adapter (AdapterState): which     *)
(* statuses of Universal GNSS carry a new position, how long a position    *)
(* keeps the published status valid, and what a restarted source resets.   *)
(*                                                                         *)
(* An age beyond AdapterTimeout is a position too old or none yet.  Of a   *)
(* mapped status only its identity, sequence and validity are kept.        *)
(***************************************************************************)
EXTENDS Integers

CONSTANTS
  AdapterTimeout,     \* timeout_ns_, in ticks
  Incarnations,       \* source_id/source_incarnation of the source's runs
  MaxSequence         \* bound: the sequence numbers of positions

ASSUME AdapterAssumption ==
  /\ AdapterTimeout \in Nat
  /\ MaxSequence \in Nat \ {0}
  /\ "none" \notin Incarnations

PositionAges == 0..AdapterTimeout + 1

Adapters ==
  [identity : Incarnations \cup {"none"}, sequence : 0..MaxSequence, age : PositionAges,
   said : 0..MaxSequence, fix_valid : BOOLEAN]

AdapterInitial ==
  [identity |-> "none", sequence |-> 0, age |-> AdapterTimeout + 1,
   said |-> 0, fix_valid |-> FALSE]

PositionFresh(a) == a.sequence # 0 /\ a.age <= AdapterTimeout

Invalidate(a) == [a EXCEPT !.fix_valid = FALSE]

\* map_status: "other" is no fix, or a fix type the adapter does not know and takes for none.
FixTypes == {"fix", "other"}
Statuses ==
  [incarnation : Incarnations, sequence : 0..MaxSequence, fix_valid : BOOLEAN, fix_type : FixTypes]

MappedValid(status) == status.fix_valid /\ status.fix_type # "other"

\* A replaced source starts from nothing, its sequence from whatever it says.
Identified(a, incarnation) ==
  IF a.identity = incarnation THEN a
  ELSE [a EXCEPT !.identity = incarnation, !.sequence = 0, !.age = AdapterTimeout + 1]

PositionedByAnyStatus(a, sequence) == [a EXCEPT !.sequence = sequence, !.age = 0]

\* Only a new sequence is a new position; the rest refreshes what is said of the last one.
Positioned(a, sequence) ==
  IF sequence = a.sequence THEN a ELSE [a EXCEPT !.sequence = sequence, !.age = 0]

ObserveStatus(a, status) ==
  LET known == Identified(a, status.incarnation)
      placed == Positioned(known, status.sequence)
  IN IF status.sequence < known.sequence THEN Invalidate(known)
     ELSE [placed EXCEPT !.said = status.sequence,
                         !.fix_valid = MappedValid(status) /\ PositionFresh(placed)]

\* expire() says once that the position is too old.
Expires(a) == ~PositionFresh(a) /\ a.fix_valid

StatusMessage(a) == [sequence |-> a.said, valid |-> a.fix_valid]

AdapterAged(a) == [a EXCEPT !.age = IF @ <= AdapterTimeout THEN @ + 1 ELSE @]
=============================================================================
