----------------------------- MODULE FcuSession -----------------------------
(***************************************************************************)
(* The MODE/ARM command sequencer (class FcuSessionController of           *)
(* mowgli_mavros_bridge/fcu_session_controller.hpp) as one record and one  *)
(* operator per method.                                                    *)
(*                                                                         *)
(* A Command is its meaning: the mode it asks for, "ARM" or "DISARM".  The *)
(* serial of an emitted one is an identifier its caller supplies, where    *)
(* the code counts; sent_at_ is kept as an age.  error_ is only logged.    *)
(*                                                                         *)
(* As in BladeControl, an operator that carries the name of its successor  *)
(* with a suffix is a mistake the experiments of README.md put there.      *)
(***************************************************************************)
EXTENDS Integers

CONSTANTS
  Modes,           \* mode names, "" (nothing observed yet) among them
  Serials,         \* identifiers of emitted commands
  ConfirmTimeout   \* the 3000 ms of tick(), in ticks of the model's clock

ASSUME SessionAssumption ==
  /\ {"", "HOLD"} \subseteq Modes
  /\ {"ARM", "DISARM", "none"} \cap Modes = {}
  /\ Serials \subseteq Nat \ {0}
  /\ ConfirmTimeout \in Nat \ {0}

ArmCommands == {"ARM", "DISARM"}
Commands == Modes \cup ArmCommands

ArmCommand(arm) == IF arm THEN "ARM" ELSE "DISARM"

\* std::optional<Command> pending_ (with sent_at_): serial 0 is nullopt.
Pendings  == [serial : Serials \cup {0}, command : Commands \cup {"none"},
              age : 0..ConfirmTimeout]
NoPending == [serial |-> 0, command |-> "none", age |-> 0]

SessionRecords ==
  [wanted_mode : Modes, wanted_arm : BOOLEAN, safety_disarm : BOOLEAN,
   connected : BOOLEAN, mode : Modes, armed : BOOLEAN,
   force_disarm : BOOLEAN, mode_failed : BOOLEAN, arm_failed : BOOLEAN,
   acked : BOOLEAN, pending : Pendings]

SessionInitial ==
  [wanted_mode |-> "HOLD", wanted_arm |-> FALSE, safety_disarm |-> FALSE,
   connected |-> FALSE, mode |-> "", armed |-> FALSE,
   force_disarm |-> FALSE, mode_failed |-> FALSE, arm_failed |-> FALSE,
   acked |-> FALSE, pending |-> NoPending]

(***************************************************************************)
(* Observers.                                                              *)
(***************************************************************************)
Pending(s) == s.pending.serial # 0

Current(s, serial) == Pending(s) /\ s.pending.serial = serial

Failed(s) == s.mode_failed \/ s.arm_failed

DisarmPending(s) == Pending(s) /\ s.pending.command = "DISARM"

Ready(s) ==
  /\ s.connected
  /\ ~Pending(s)
  /\ s.mode = s.wanted_mode
  /\ s.armed = s.wanted_arm

\* The FCU is observed in the state the command asks for.
Confirms(s, command) ==
  IF command \in ArmCommands THEN command = ArmCommand(s.armed)
  ELSE command = s.mode

(***************************************************************************)
(* Methods.                                                                *)
(***************************************************************************)
\* Only the failure of what is still wanted is remembered.
FailAny(s) ==
  IF ~Pending(s) THEN s
  ELSE [s EXCEPT
          !.mode_failed = @ \/ s.pending.command \notin ArmCommands,
          !.arm_failed  = @ \/ s.pending.command \in ArmCommands,
          !.pending = NoPending]

Fail(s) ==
  IF ~Pending(s) THEN s
  ELSE [s EXCEPT
          !.mode_failed = @ \/ s.pending.command = s.wanted_mode,
          !.arm_failed  = @ \/ s.pending.command = ArmCommand(s.wanted_arm),
          !.pending = NoPending]

Settle(s) ==
  IF Pending(s) /\ s.acked /\ Confirms(s, s.pending.command)
  THEN [s EXCEPT !.pending = NoPending] ELSE s

DemandWaiting(s, mode, arm, safety) ==
  [s EXCEPT !.wanted_mode = mode, !.wanted_arm = arm, !.safety_disarm = safety,
            !.mode_failed = FALSE, !.arm_failed = FALSE]

\* A safety DISARM does not wait for an unrelated transaction.
Demand(s, mode, arm, safety) ==
  IF <<mode, arm, safety>> = <<s.wanted_mode, s.wanted_arm, s.safety_disarm>> THEN s
  ELSE LET rising == safety /\ ~s.safety_disarm IN
    [s EXCEPT !.wanted_mode = mode, !.wanted_arm = arm, !.safety_disarm = safety,
              !.mode_failed = FALSE, !.arm_failed = FALSE,
              !.pending = IF rising THEN NoPending ELSE @,
              !.force_disarm = @ \/ rising]

\* An ARM seen during a safety DISARM is answered once; what the FCU confirms late
\* counts as done.
Observe(s, connected, armed, mode) ==
  LET late_arm == s.safety_disarm /\ armed /\ ~s.armed IN
  Settle([s EXCEPT
    !.pending = IF connected THEN @ ELSE NoPending,
    !.force_disarm = @ \/ late_arm,
    !.arm_failed = @ /\ ~late_arm /\ ~(connected /\ armed = s.wanted_arm),
    !.mode_failed = @ /\ ~(connected /\ mode = s.wanted_mode),
    !.connected = connected, !.armed = armed, !.mode = mode])

\* NoPending has age 0.
Expired(s) == s.pending.age >= ConfirmTimeout

TickedNever(s) == s

Ticked(s) == IF Expired(s) THEN Fail(s) ELSE s

\* What next() emits after its tick; "none" is nullopt.
DisarmFirst(s) ==
  s.safety_disarm /\ (s.force_disarm \/ s.armed) /\ ~s.arm_failed

NextCommandAlways(s, mode_service, arm_service, allow_arm) ==
  IF ~s.connected \/ Pending(s) THEN "none"
  ELSE IF s.safety_disarm /\ (s.force_disarm \/ s.armed)
       THEN IF arm_service THEN "DISARM" ELSE "none"
  ELSE IF s.mode # s.wanted_mode
       THEN IF mode_service THEN s.wanted_mode ELSE "none"
  ELSE IF s.armed # s.wanted_arm /\ arm_service /\ (s.wanted_arm => allow_arm)
       THEN ArmCommand(s.wanted_arm) ELSE "none"

NextCommand(s, mode_service, arm_service, allow_arm) ==
  IF ~s.connected \/ Pending(s) THEN "none"
  ELSE IF DisarmFirst(s) THEN IF arm_service THEN "DISARM" ELSE "none"
  ELSE IF s.mode # s.wanted_mode /\ ~s.mode_failed
       THEN IF mode_service THEN s.wanted_mode
            ELSE IF ~s.wanted_arm /\ s.armed /\ ~s.arm_failed /\ arm_service
            THEN "DISARM" ELSE "none"
  ELSE IF /\ s.armed # s.wanted_arm /\ ~s.arm_failed /\ arm_service
          /\ s.wanted_arm => s.mode = s.wanted_mode /\ allow_arm
       THEN ArmCommand(s.wanted_arm) ELSE "none"

Emitted(s, command, serial) ==
  [s EXCEPT !.force_disarm = @ /\ ~DisarmFirst(s), !.acked = FALSE,
            !.pending = [serial |-> serial, command |-> command, age |-> 0]]

Completed(s, serial, accepted) ==
  LET t == Ticked(s) IN
  IF ~Current(t, serial) THEN t
  ELSE IF ~accepted THEN Fail(t)
  ELSE Settle([t EXCEPT !.acked = TRUE])

\* One tick of the clock.
AgedForever(s) ==
  IF Pending(s)
  THEN [s EXCEPT !.pending = [s.pending EXCEPT !.age = s.pending.age + 1]] ELSE s

Aged(s) ==
  IF Pending(s) /\ s.pending.age < ConfirmTimeout
  THEN [s EXCEPT !.pending = [s.pending EXCEPT !.age = s.pending.age + 1]] ELSE s
=============================================================================
