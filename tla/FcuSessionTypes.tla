-------------------------- MODULE FcuSessionTypes --------------------------
(***************************************************************************)
(* Typing of the methods of FcuSession, for every module that drives it.   *)
(***************************************************************************)
EXTENDS FcuSession, TLAPS

LEMMA ConfirmInNat ==
  ConfirmTimeout \in Nat /\ ConfirmTimeout > 0 /\ 0 \in 0..ConfirmTimeout
<1>1. ConfirmTimeout \in Nat \ {0}
  BY SessionAssumption
<1>2. QED
  BY <1>1

LEMMA SessionConstants ==
  /\ NoPending \in Pendings
  /\ "HOLD" \in Modes /\ "" \in Modes
  /\ ArmCommands \cap Modes = {} /\ ArmCommands \subseteq Commands
  /\ Modes \subseteq Commands /\ "none" \notin Commands
  /\ 0 \notin Serials
  /\ \A arm \in BOOLEAN : ArmCommand(arm) \in ArmCommands
<1>2. NoPending \in Pendings
  BY ConfirmInNat DEF NoPending, Pendings
<1>3. "HOLD" \in Modes /\ "" \in Modes /\ 0 \notin Serials
  BY SessionAssumption
<1>4. ArmCommands \cap Modes = {} /\ "none" \notin Commands
  BY SessionAssumption DEF ArmCommands, Commands
<1>5. \A arm \in BOOLEAN : ArmCommand(arm) \in ArmCommands
  BY DEF ArmCommand, ArmCommands
<1>6. QED
  BY <1>2, <1>3, <1>4, <1>5 DEF Commands

LEMMA FailType ==
  ASSUME NEW s \in SessionRecords
  PROVE  Fail(s) \in SessionRecords
<1>1. /\ (s.mode_failed \/ s.pending.command = s.wanted_mode) \in BOOLEAN
      /\ (s.arm_failed \/ s.pending.command = ArmCommand(s.wanted_arm)) \in BOOLEAN
  OBVIOUS
<1>2. QED
  BY <1>1, SessionConstants DEF Fail, SessionRecords

LEMMA SettleType ==
  ASSUME NEW s \in SessionRecords
  PROVE  Settle(s) \in SessionRecords
  BY SessionConstants DEF Settle, SessionRecords

LEMMA DemandType ==
  ASSUME NEW s \in SessionRecords, NEW mode \in Modes,
         NEW arm \in BOOLEAN, NEW safety \in BOOLEAN
  PROVE  Demand(s, mode, arm, safety) \in SessionRecords
<1>1. /\ (s.force_disarm \/ (safety /\ ~s.safety_disarm)) \in BOOLEAN
      /\ (IF safety /\ ~s.safety_disarm THEN NoPending ELSE s.pending) \in Pendings
  BY SessionConstants DEF SessionRecords
<1> DEFINE pending == IF safety /\ ~s.safety_disarm THEN NoPending ELSE s.pending
           force == s.force_disarm \/ (safety /\ ~s.safety_disarm)
           r == [s EXCEPT !.wanted_mode = mode, !.wanted_arm = arm,
                          !.safety_disarm = safety,
                          !.mode_failed = FALSE, !.arm_failed = FALSE,
                          !.pending = pending, !.force_disarm = force]
<1>2. Demand(s, mode, arm, safety) = r \/ Demand(s, mode, arm, safety) = s
  BY DEF Demand
<1>3. r \in SessionRecords
  <2> HIDE DEF pending, force
  <2>1. pending \in Pendings /\ force \in BOOLEAN
    BY <1>1 DEF pending, force
  <2>2. QED
    BY <2>1 DEF SessionRecords
<1>4. QED
  BY <1>2, <1>3

LEMMA ObserveType ==
  ASSUME NEW s \in SessionRecords, NEW connected \in BOOLEAN,
         NEW armed \in BOOLEAN, NEW mode \in Modes
  PROVE  Observe(s, connected, armed, mode) \in SessionRecords
<1> DEFINE late == s.safety_disarm /\ armed /\ ~s.armed
           pending == IF connected THEN s.pending ELSE NoPending
           force == s.force_disarm \/ late
           af == s.arm_failed /\ ~late /\ ~(connected /\ armed = s.wanted_arm)
           mf == s.mode_failed /\ ~(connected /\ mode = s.wanted_mode)
           r == [s EXCEPT !.pending = pending, !.force_disarm = force,
                          !.arm_failed = af, !.mode_failed = mf,
                          !.connected = connected, !.armed = armed, !.mode = mode]
<1>1. pending \in Pendings /\ force \in BOOLEAN /\ af \in BOOLEAN /\ mf \in BOOLEAN
  BY SessionConstants DEF SessionRecords
<1>2. Observe(s, connected, armed, mode) = Settle(r)
  BY DEF Observe
<1>3. r \in SessionRecords
  <2> HIDE DEF late, pending, force, af, mf
  <2>1. QED
    BY <1>1 DEF SessionRecords
<1>4. QED
  BY <1>2, <1>3, SettleType

LEMMA TickedType ==
  ASSUME NEW s \in SessionRecords
  PROVE  Ticked(s) \in SessionRecords
  BY FailType DEF Ticked

LEMMA NextCommandType ==
  ASSUME NEW s \in SessionRecords, NEW m \in BOOLEAN, NEW a \in BOOLEAN, NEW r \in BOOLEAN
  PROVE  NextCommand(s, m, a, r) \in Commands \cup {"none"}
  BY SessionConstants DEF NextCommand, SessionRecords, ArmCommands

LEMMA EmittedType ==
  ASSUME NEW s \in SessionRecords, NEW command \in Commands, NEW serial \in Serials
  PROVE  Emitted(s, command, serial) \in SessionRecords
<1>1. [serial |-> serial, command |-> command, age |-> 0] \in Pendings
  BY ConfirmInNat DEF Pendings
<1>2. (s.force_disarm /\ ~DisarmFirst(s)) \in BOOLEAN
  OBVIOUS
<1>3. QED
  BY <1>1, <1>2 DEF Emitted, SessionRecords

LEMMA CompletedType ==
  ASSUME NEW s \in SessionRecords, NEW serial, NEW accepted \in BOOLEAN
  PROVE  Completed(s, serial, accepted) \in SessionRecords
<1>1. [Ticked(s) EXCEPT !.acked = TRUE] \in SessionRecords
  BY TickedType DEF SessionRecords
<1>2. QED
  BY <1>1, TickedType, FailType, SettleType DEF Completed

LEMMA AgedType ==
  ASSUME NEW s \in SessionRecords
  PROVE  Aged(s) \in SessionRecords
<1>1. s.pending \in Pendings
  BY DEF SessionRecords
<1>2. s.pending.age < ConfirmTimeout =>
        [s.pending EXCEPT !.age = s.pending.age + 1] \in Pendings
  <2>1. s.pending.age < ConfirmTimeout => s.pending.age + 1 \in 0..ConfirmTimeout
    BY <1>1, ConfirmInNat DEF Pendings
  <2>2. QED
    BY <1>1, <2>1 DEF Pendings
<1>3. QED
  BY <1>2 DEF Aged, SessionRecords
=============================================================================
