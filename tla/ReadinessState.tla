--------------------------- MODULE ReadinessState ---------------------------
(***************************************************************************)
(* What the bridge knows of the streams MowgliNext needs (ReadinessState): *)
(* the age of the last accepted observation of each, counted from its      *)
(* receipt, what the last GNSS status and the last power message said, and *)
(* the readiness projected from it.                                        *)
(*                                                                         *)
(* An age beyond ReadinessTimeout is an observation too old to count, or   *)
(* none at all: the code tells the two apart only for GNSS, and there by   *)
(* the sequence.  last_status_ns_ is the smallest of the four ages.        *)
(***************************************************************************)
EXTENDS Integers

CONSTANTS
  ReadinessTimeout,           \* readiness_observation_timeout_s, in ticks
  gnss_required, wheel_odometry_required

ASSUME ReadinessAssumption ==
  /\ ReadinessTimeout \in Nat
  /\ gnss_required \in BOOLEAN /\ wheel_odometry_required \in BOOLEAN

Streams == {"imu", "gnss", "wheel", "traction"}
StreamAges == 0..ReadinessTimeout + 1

Readiness ==
  [connected : BOOLEAN, age : [Streams -> StreamAges],
   gnss_valid : BOOLEAN, gnss_sequence : Nat,
   traction_valid : BOOLEAN]

Unheard(connected) ==
  [connected |-> connected, age |-> [s \in Streams |-> ReadinessTimeout + 1],
   gnss_valid |-> FALSE, gnss_sequence |-> 0, traction_valid |-> FALSE]

\* connection(): a change of the link forgets every observation.
Connection(r, connected) == IF r.connected = connected THEN r ELSE Unheard(connected)

\* imu() and wheel()
Received(r, stream) == IF r.connected THEN [r EXCEPT !.age[stream] = 0] ELSE r

Traction(r, valid) ==
  IF r.connected THEN [r EXCEPT !.age["traction"] = 0, !.traction_valid = valid] ELSE r

StreamFresh(r, stream) == r.age[stream] <= ReadinessTimeout

GnssNewerOnly(r, sequence, valid) ==
  IF ~r.connected \/ sequence = 0 \/ sequence <= r.gnss_sequence THEN r
  ELSE [r EXCEPT !.age["gnss"] = 0, !.gnss_sequence = sequence, !.gnss_valid = valid]

\* gnss(): a sequence that does not advance is taken for a repetition, unless what it would
\* repeat has expired: then the source was restarted.  (The incarnation is constant: the
\* bridge passes the backend's name, and connection() clears it with the sequence.)
Gnss(r, sequence, valid) ==
  IF \/ ~r.connected \/ sequence = 0
     \/ sequence <= r.gnss_sequence /\ StreamFresh(r, "gnss")
  THEN r
  ELSE [r EXCEPT !.age["gnss"] = 0, !.gnss_sequence = sequence,
                 !.gnss_valid = valid]

Ready(r) ==
  /\ r.connected
  /\ StreamFresh(r, "imu")
  /\ StreamFresh(r, "traction") /\ r.traction_valid
  /\ gnss_required => StreamFresh(r, "gnss") /\ r.gnss_valid
  /\ wheel_odometry_required => StreamFresh(r, "wheel")

ReadinessAged(r) ==
  [r EXCEPT !.age = [s \in Streams |-> IF r.age[s] <= ReadinessTimeout THEN r.age[s] + 1
                                       ELSE r.age[s]]]
=============================================================================
