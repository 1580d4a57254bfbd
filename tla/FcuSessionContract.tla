------------------------- MODULE FcuSessionContract -------------------------
(***************************************************************************)
(* What MowgliNext and the FCU may rely on of the MODE/ARM sequencer,      *)
(* without its queue, its deadlines or its failure flags: every command is *)
(* one the current target calls for, an ARM is never emitted in an         *)
(* emergency or in a mode the FCU has not confirmed, and the same command  *)
(* is never emitted twice unless the target or the observed state changed  *)
(* in between, or an emergency was declared again.                         *)
(***************************************************************************)
CONSTANT Modes

VARIABLES
  target,    \* [mode, arm, safety]
  observed,  \* [connected, armed, mode]
  spent      \* how often each command was emitted since the last such change

vars == <<target, observed, spent>>

Commands == Modes \cup {"ARM", "DISARM"}
Targets == [mode : Modes, arm : BOOLEAN, safety : BOOLEAN]
Observations == [connected : BOOLEAN, armed : BOOLEAN, mode : Modes]

Init ==
  /\ target = [mode |-> "HOLD", arm |-> FALSE, safety |-> FALSE]
  /\ observed = [connected |-> FALSE, armed |-> FALSE, mode |-> ""]
  /\ spent = [c \in Commands |-> 0]

CalledFor(command) ==
  \/ command = target'.mode /\ observed'.mode # target'.mode
  \/ command = "DISARM" /\ ~target'.arm /\ (target'.safety \/ observed'.armed)
  \/ /\ command = "ARM" /\ target'.arm /\ ~target'.safety
     /\ ~observed'.armed /\ observed'.mode = target'.mode

\* A new target, a new observation, an emergency declared again, or none of these;
\* then at most one command.
Forgotten(again) == again \/ target' # target \/ observed' # observed

Left(again) == IF Forgotten(again) THEN [c \in Commands |-> 0] ELSE spent

Handle(again) ==
  /\ target' \in Targets
  /\ observed' \in Observations
  /\ again => target'.safety
  /\ \/ spent' = Left(again)
     \/ /\ observed'.connected
        /\ \E command \in Commands \ {""} :
             /\ CalledFor(command) /\ Left(again)[command] = 0
             /\ spent' = [Left(again) EXCEPT ![command] = 1]

Next == \E again \in BOOLEAN : Handle(again)

Spec == Init /\ [][Next]_vars
=============================================================================
