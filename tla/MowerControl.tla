---------------------------- MODULE MowerControl ----------------------------
(***************************************************************************)
(* The mower_control service of the bridge (on_mower_control,              *)
(* drive_blade_locked, end_failed_blade_test_locked): callers who ask for  *)
(* a blade direction, wait for the FCU session and then for the blade, and *)
(* get one deferred answer each; the temporary arming of an isolated blade *)
(* test; and everything that may supersede them.                           *)
(*                                                                         *)
(* node is the bridge object.  Of its two controllers it keeps what this   *)
(* code reads: the blade controller by its demand, satisfied(), failed()   *)
(* and revision(); the session by requested_arm(), ready() and failed().   *)
(* How they come to be ready, satisfied or failed is an input here and the *)
(* subject of BladeActuation and FcuSessionActuation.                      *)
(*                                                                         *)
(* A revision only serves to be compared with the current one, so each     *)
(* handler starts from revision 0 (Renumbered); a deadline is a flag that  *)
(* DeadlinePasses raises; clocks stand still within a handler.             *)
(* ValidByDemand and the other operators that stand just before            *)
(* the one whose name they extend are the mistakes README.md describes.    *)
(***************************************************************************)
EXTENDS Integers, FiniteSets

CONSTANTS
  Callers,          \* request headers
  Capacity,         \* the 32 of both lists
  Troubles,         \* what may go wrong in one handler, see Mishaps
  SessionOutcomes   \* what a drive of the session may find and leave

Rotations == {"Forward", "Reverse"}
Demands == Rotations \cup {"Off"}

\* Heartbeat or switch report too old; no fresh ESC sample; an acknowledgement or a stop
\* that did not come in time; a send that throws; CommandLong not discovered.
Mishaps == {"silent", "esc", "timeout", "throw", "down"}

ASSUME MowerControlAssumption ==
  /\ IsFiniteSet(Callers)
  /\ Capacity \in Nat \ {0}
  /\ Troubles \subseteq SUBSET Mishaps
  /\ {} \in Troubles
  /\ SessionOutcomes \subseteq [broken : BOOLEAN, ready : BOOLEAN, failed : BOOLEAN]

VARIABLES
  node,      \* the bridge; node.told are the answers the last handler sent
  clients    \* what each caller asked, and whether an ON was called off since

vars == <<node, clients>>

Blades == [requested : Demands, satisfied : BOOLEAN, failed : BOOLEAN,
           allowed : BOOLEAN, revision : Nat]
Sessions == [arm : BOOLEAN, ready : BOOLEAN, failed : BOOLEAN]
Starts == [caller : Callers, direction : Rotations, late : BOOLEAN]
Replies == [caller : Callers, direction : Demands, revision : Int, late : BOOLEAN]
\* achieved is history: was the blade demanded and confirmed as asked when a success was told?
Responses == [caller : Callers, direction : Demands, success : BOOLEAN, achieved : BOOLEAN]

Nodes ==
  [connected : BOOLEAN, motion : BOOLEAN, emergency : BOOLEAN, released : BOOLEAN,
   test : BOOLEAN, session : Sessions, blade : Blades,
   starts : SUBSET Starts, replies : SUBSET Replies, told : SUBSET Responses]

Calls == [direction : Demands \cup {"None"}, off : BOOLEAN]
NoCall == [direction |-> "None", off |-> FALSE]

Init ==
  /\ clients = [c \in Callers |-> NoCall]
  /\ node =
       [connected |-> FALSE, motion |-> FALSE, emergency |-> FALSE, released |-> FALSE,
        test |-> FALSE, session |-> [arm |-> FALSE, ready |-> FALSE, failed |-> FALSE],
        blade |-> [requested |-> "Off", satisfied |-> FALSE, failed |-> FALSE,
                   allowed |-> FALSE, revision |-> 0],
        starts |-> {}, replies |-> {}, told |-> {}]

Waiting(n) == {s.caller : s \in n.starts} \cup {r.caller : r \in n.replies}
Answered(n) == {t.caller : t \in n.told}

-----------------------------------------------------------------------------
(* The blade controller, seen from here. *)

ForceOff(b) ==
  [b EXCEPT !.revision = @ + 1, !.requested = "Off", !.satisfied = FALSE, !.failed = FALSE]

Fail(b) ==
  [b EXCEPT !.revision = @ + 1, !.requested = "Off", !.satisfied = FALSE, !.failed = TRUE]

Permission(b, allowed) ==
  [(IF b.allowed /\ ~allowed THEN ForceOff(b) ELSE b) EXCEPT !.allowed = allowed]

\* Stale samples end an ON; anything unsettled may run into its time limit.
Ticked(b, trouble) ==
  IF \/ "esc" \in trouble /\ b.requested # "Off"
     \/ "timeout" \in trouble /\ ~b.satisfied
  THEN Fail(b) ELSE b

RequestResultOffAtOnce(n, d, trouble) ==
  IF ~n.connected \/ n.blade.failed \/ (d # "Off" /\ (~n.blade.allowed \/ "esc" \in trouble))
  THEN "Rejected"
  ELSE IF d = n.blade.requested /\ (n.blade.satisfied \/ d = "Off") THEN "Confirmed"
  ELSE "Pending"

RequestResult(n, d, trouble) ==
  IF \/ ~n.connected
     \/ d # "Off" /\ (~n.blade.allowed \/ "esc" \in trouble)
     \/ n.blade.failed
  THEN "Rejected"
  ELSE IF d = n.blade.requested /\ n.blade.satisfied THEN "Confirmed" ELSE "Pending"

Requested(n, d, trouble) ==
  IF RequestResult(n, d, trouble) = "Rejected" \/ d = n.blade.requested THEN n.blade
  ELSE [n.blade EXCEPT !.revision = @ + 1, !.requested = d, !.satisfied = FALSE]

-----------------------------------------------------------------------------
(* Methods of the bridge. *)

\* satisfied() is about the direction that is demanded.
Achieved(b, d) == b.requested = d /\ b.satisfied

Response(c, d, success, achieved) ==
  [caller |-> c, direction |-> d, success |-> success, achieved |-> success /\ achieved]

Refusals(waiting) == {Response(w.caller, w.direction, FALSE, FALSE) : w \in waiting}

CancelPendingStartsKept(n) == [n EXCEPT !.told = @ \cup Refusals(n.starts)]

CancelPendingStarts(n) == [n EXCEPT !.told = @ \cup Refusals(n.starts), !.starts = {}]

\* demand("HOLD", false, ...): a failure goes with the target it belonged to.
DemandIdle(n, outcome) ==
  [n EXCEPT !.session = [arm |-> FALSE, ready |-> outcome.ready /\ n.connected,
                         failed |-> n.session.failed /\ outcome.failed]]

EndFailedBladeTest(n, outcome) ==
  IF ~n.test \/ n.motion THEN n
  ELSE DemandIdle([CancelPendingStarts(n) EXCEPT
                     !.test = FALSE, !.blade = ForceOff(n.blade)], outcome)

DriveSession(n, outcome) ==
  LET driven == [n EXCEPT
                   !.session = [arm |-> ~n.emergency /\ (n.motion \/ n.test),
                                ready |-> outcome.ready /\ n.connected,
                                failed |-> outcome.failed]]
  IN IF outcome.broken THEN EndFailedBladeTest(driven, outcome) ELSE driven

BladeAllowedUnreleased(n, trouble) ==
  /\ n.session.ready /\ n.session.arm
  /\ n.connected /\ ~n.emergency
  /\ "silent" \notin trouble

BladeAllowed(n, trouble) ==
  /\ n.session.ready /\ n.session.arm
  /\ n.connected /\ n.released /\ ~n.emergency
  /\ "silent" \notin trouble

\* Those of the entries for whom the list of replies has room.
KeptUnlimited(n, entries) == entries

Kept(n, entries) ==
  LET room == Capacity - Cardinality(n.replies)
  IN IF Cardinality(entries) <= room THEN entries
     ELSE CHOOSE k \in SUBSET entries : Cardinality(k) = room

Queued(e, d, revision) ==
  [caller |-> e.caller, direction |-> d, revision |-> revision, late |-> e.late]

\* What a decision of the blade controller means for the callers who asked for it.
Push(n, entries, d, result) ==
  LET kept == IF result = "Pending" THEN Kept(n, entries) ELSE {}
  IN [n EXCEPT
        !.replies = @ \cup {Queued(e, d, n.blade.revision) : e \in kept},
        !.told = @ \cup {Response(e.caller, d, result = "Confirmed", Achieved(n.blade, d)) :
                             e \in entries \ kept}]

LostWithoutDeadline(n, s) == n.session.failed \/ ~n.connected \/ n.emergency

Lost(n, s) == n.session.failed \/ ~n.connected \/ n.emergency \/ s.late

RefuseLost(n) ==
  LET lost == {s \in n.starts : Lost(n, s)}
  IN [n EXCEPT !.starts = @ \ lost, !.told = @ \cup Refusals(lost)]

\* All of them ask for the same direction (CallersAgree).
RequestStarts(n, trouble) ==
  LET d == (CHOOSE s \in n.starts : TRUE).direction
  IN Push([n EXCEPT !.starts = {}, !.blade = Requested(n, d, trouble)],
          n.starts, d, RequestResult(n, d, trouble))

ServeStarts(n, trouble) ==
  LET left == RefuseLost(n)
  IN IF ~left.session.ready \/ left.starts = {} THEN left ELSE RequestStarts(left, trouble)

\* A caller's deadline ends an unsettled transition.
ServeDeadline(n) ==
  IF ~n.blade.satisfied /\ \E r \in n.replies : r.revision = n.blade.revision /\ r.late
  THEN [n EXCEPT !.blade = Fail(@)] ELSE n

ValidByDemand(n, r) == ~n.blade.failed /\ ~r.late
ValidAtAnyAge(n, r) == r.revision = n.blade.revision /\ ~n.blade.failed

Valid(n, r) == r.revision = n.blade.revision /\ ~n.blade.failed /\ ~r.late

ServeReplies(n) ==
  LET done == {r \in n.replies : ~Valid(n, r) \/ n.blade.satisfied}
  IN [n EXCEPT
        !.replies = @ \ done,
        !.told = @ \cup {Response(r.caller, r.direction, Valid(n, r),
                                   Achieved(n.blade, r.direction)) : r \in done}]

\* A send that throws is completed as refused.
Dispatch(n, trouble) ==
  IF "throw" \in trouble /\ "down" \notin trouble /\ ~n.blade.satisfied
  THEN [n EXCEPT !.blade = Fail(@)] ELSE n

EndIf(condition, n, outcome) == IF condition THEN EndFailedBladeTest(n, outcome) ELSE n

\* The stages of drive_blade_locked.
Aged(n, trouble, outcome) ==
  LET alive == EndIf(n.session.failed \/ ~n.connected, n, outcome)
  IN [alive EXCEPT !.blade = Ticked(Permission(@, BladeAllowed(alive, trouble)), trouble)]

Expired(n, outcome) == EndIf(\E s \in n.starts : s.late, n, outcome)

OwnedForever(n, outcome) == n

Owned(n, outcome) == EndIf(n.starts = {} /\ n.blade.requested = "Off", n, outcome)

DriveBlade(n, trouble, outcome) ==
  LET timely == Expired(Aged(n, trouble, outcome), outcome)
      served == ServeReplies(ServeDeadline(ServeStarts(timely, trouble)))
  IN Dispatch(Owned(served, outcome), trouble)

\* request_safety_disarm, where n already has the emergency.
SafetyDisarm(n, trouble, outcome) ==
  LET off == CancelPendingStarts([n EXCEPT !.test = FALSE, !.blade = ForceOff(@)])
  IN DriveSession(DriveBlade(DemandIdle(off, outcome), trouble, outcome), outcome)

TurnOff(n, caller, trouble, outcome) ==
  LET cancelled == [CancelPendingStarts(n) EXCEPT !.test = FALSE]
      idle == DemandIdle(cancelled, outcome)
      settled == IF n.motion THEN cancelled
                 ELSE [idle EXCEPT !.blade = Permission(@, BladeAllowed(idle, trouble))]
      taken == [settled EXCEPT !.blade = Requested(settled, "Off", trouble)]
      result == IF "down" \in trouble THEN "Rejected"
                ELSE RequestResult(settled, "Off", trouble)
      queued == Push(taken, {[caller |-> caller, late |-> FALSE]}, "Off", result)
  IN DriveSession(DriveBlade(queued, trouble, outcome), outcome)

\* A second drive in one handler finds what the first left, unless its demand is new: then
\* no failure can be latched before its command is sent.
SecondDrive(n) ==
  IF n.session.arm
  THEN {[broken |-> n.session.failed, ready |-> n.session.ready, failed |-> n.session.failed]}
  ELSE {o \in SessionOutcomes : ~o.broken}

Refuse(n, caller, d) ==
  [n EXCEPT !.told = @ \cup {Response(caller, d, FALSE, FALSE)}]

PreparedTogether(n, d, trouble, outcome) ==
  DriveBlade(DriveSession(n, outcome), trouble, outcome)

\* The first drive of a request for ON.
Prepared(n, d, trouble, outcome) ==
  LET same == IF \E s \in n.starts : s.direction # d THEN CancelPendingStarts(n) ELSE n
  IN DriveBlade(DriveSession(same, outcome), trouble, outcome)

TurnOn(driven, caller, d, trouble, second) ==
  LET opened == DriveSession([driven EXCEPT !.test = @ \/ ~driven.motion], second)
      permitted == [opened EXCEPT !.blade = Permission(@, BladeAllowed(opened, trouble))]
      taken == [permitted EXCEPT !.blade = Requested(permitted, d, trouble)]
  IN IF \/ "down" \in trouble \/ ~driven.connected \/ driven.emergency
        \/ ~driven.released \/ driven.blade.failed
     THEN Refuse(driven, caller, d)
     ELSE IF opened.session.failed \/ ~(opened.motion \/ opened.test)
     THEN Refuse(EndFailedBladeTest(opened, second), caller, d)
     ELSE IF ~opened.session.ready
     THEN IF Cardinality(opened.starts) >= Capacity THEN Refuse(opened, caller, d)
          ELSE [opened EXCEPT
                  !.starts = @ \cup {[caller |-> caller, direction |-> d, late |-> FALSE]}]
     ELSE DriveBlade(Push(taken, {[caller |-> caller, late |-> FALSE]}, d,
                          RequestResult(permitted, d, trouble)),
                     trouble, second)

-----------------------------------------------------------------------------
(* Handlers. *)

\* A new handler has told nobody anything, and only tells current revisions from old.
Renumbered(n) ==
  [n EXCEPT !.blade.revision = 0,
            !.replies = {[r EXCEPT !.revision = IF @ = n.blade.revision THEN 0 ELSE -1] :
                           r \in n.replies}]

\* calledOff: every ON asked before this handler is void.
Later(calledOff) ==
  [c \in Callers |->
     IF c \in Answered(node) THEN NoCall
     ELSE [clients[c] EXCEPT !.off = @ \/ (calledOff /\ clients[c].direction \in Rotations)]]

Handler(after, calledOff) ==
  node' = Renumbered(after) /\ clients' = Later(calledOff)

Request(caller, d, after) ==
  /\ node' = Renumbered(after)
  /\ clients' = [c \in Callers |->
       IF c = caller THEN [direction |-> d, off |-> FALSE]
       ELSE IF c \in Answered(node) THEN NoCall
       ELSE [clients[c] EXCEPT !.off = @ \/ (d = "Off" /\ clients[c].direction \in Rotations)]]

Fresh == [node EXCEPT !.told = {}]

MowerRequest(caller, d, trouble, outcome) ==
  /\ caller \notin Waiting(node)
  /\ IF d = "Off" THEN Request(caller, d, TurnOff(Fresh, caller, trouble, outcome))
     ELSE \E driven \in {Prepared(Fresh, d, trouble, outcome)} :
          \E second \in SecondDrive(driven) :
            Request(caller, d, TurnOn(driven, caller, d, trouble, second))

\* The 50 ms timer, and the answer to a command of the session: DriveBlade after DriveSession.
\* (Stage by stage, because TLC also looks for steps of this fair action, and the singletons
\* make it evaluate each stage once.)
Timer(outcome) ==
  /\ clients' = Later(FALSE)
  /\ \E driven \in {DriveSession(Fresh, outcome)} :
     \E trouble \in Troubles :
     \E aged \in {Aged(driven, trouble, outcome)} :
     \E timely \in {Expired(aged, outcome)} :
     \E started \in {ServeStarts(timely, trouble)} :
     \E served \in {ServeReplies(ServeDeadline(started))} :
     \E owned \in {Owned(served, outcome)} :
       node' = Renumbered(Dispatch(owned, trouble))

CommandVelocity(outcome) == Handler(DriveSession(Fresh, outcome), FALSE)

HighLevelStatus(motion, trouble, outcome) ==
  LET ends == node.motion /\ ~motion
      status == [Fresh EXCEPT !.motion = motion]
      left == IF ends
              THEN DriveBlade([CancelPendingStarts([status EXCEPT !.test = FALSE])
                                 EXCEPT !.blade = ForceOff(@)], trouble, outcome)
              ELSE status
  IN Handler(DriveBlade(DriveSession(left, outcome), trouble, outcome), ends)

\* connection() forces OFF on every change; the link takes the switch's state with it,
\* and the emergency that was the switch's or the wheels' alone.
MavrosState(connected, emergency, trouble, outcome) ==
  LET changes == node.connected # connected
      state == [Fresh EXCEPT
                  !.connected = connected,
                  !.released = @ /\ connected,
                  !.emergency = emergency,
                  !.blade = IF changes THEN ForceOff(@) ELSE @]
      left == IF changes /\ ~connected THEN CancelPendingStarts(state) ELSE state
  IN /\ emergency # node.emergency => ~connected
     /\ emergency => node.emergency
     /\ Handler(DriveBlade(DriveSession(left, outcome), trouble, outcome), changes)

\* An emergency whose handler calls request_safety_disarm.
SafetyRequest(released, trouble, outcome) ==
  /\ released => node.released
  /\ Handler(SafetyDisarm([Fresh EXCEPT !.emergency = TRUE, !.released = released],
                          trouble, outcome), TRUE)

\* Changes of the safety inputs that no drive follows at once.
SafetyInput(emergency, released) ==
  /\ node.connected \/ ~released
  /\ Handler([Fresh EXCEPT !.emergency = emergency, !.released = released], FALSE)

\* Release of the emergency service.
EmergencyReleased(emergency, trouble, outcome) ==
  /\ emergency => node.emergency
  /\ Handler(DriveBlade(DriveSession([Fresh EXCEPT !.emergency = emergency], outcome),
                        trouble, outcome), FALSE)

\* An ESC sample, or an accepted blade command that is not the last of its transition.
BladeObserved(trouble, outcome) == Handler(DriveBlade(Fresh, trouble, outcome), FALSE)

\* An accepted blade command that completes the transition.
BladeSettles(trouble, outcome) ==
  /\ ~node.blade.failed
  /\ Handler(DriveBlade([Fresh EXCEPT !.blade.satisfied = TRUE], trouble, outcome), FALSE)

BladeRefuses(trouble, outcome) ==
  /\ ~node.blade.satisfied
  /\ Handler(DriveBlade([Fresh EXCEPT !.blade = Fail(@)], trouble, outcome), FALSE)

\* A foreign command on the wire, a servo output that is not the confirmed one, or new ESC
\* roles.
BladeDisturbed(trouble, outcome) ==
  Handler(DriveBlade([Fresh EXCEPT !.blade = ForceOff(@)], trouble, outcome), FALSE)

\* 20 s after the caller's request.
DeadlinePasses(caller) ==
  /\ \E w \in node.starts \cup node.replies : w.caller = caller /\ ~w.late
  /\ Handler([Fresh EXCEPT
                !.starts = {IF s.caller = caller THEN [s EXCEPT !.late = TRUE] ELSE s :
                              s \in node.starts},
                !.replies = {IF r.caller = caller THEN [r EXCEPT !.late = TRUE] ELSE r :
                               r \in node.replies}], FALSE)

Next ==
  \/ \E c \in Callers : DeadlinePasses(c)
  \/ \E e, r \in BOOLEAN : SafetyInput(e, r)
  \/ \E o \in SessionOutcomes :
       \/ CommandVelocity(o) \/ Timer(o)
       \/ \E t \in Troubles :
            \/ BladeObserved(t, o)
            \/ BladeSettles(t, o) \/ BladeRefuses(t, o) \/ BladeDisturbed(t, o)
            \/ \E c \in Callers, d \in Demands : MowerRequest(c, d, t, o)
            \/ \E b \in BOOLEAN : \/ HighLevelStatus(b, t, o) \/ SafetyRequest(b, t, o)
                                  \/ EmergencyReleased(b, t, o)
            \/ \E l, e \in BOOLEAN : MavrosState(l, e, t, o)

Spec == Init /\ [][Next]_vars

Overdue == \E w \in node.starts \cup node.replies : w.late

\* The wall timer runs for ever, and so does the clock; only the timer's steps that find a
\* deadline passed matter.
FairSpec ==
  /\ Spec
  /\ WF_vars(Overdue /\ \E o \in SessionOutcomes : Timer(o))
  /\ \A c \in Callers : WF_vars(DeadlinePasses(c))

-----------------------------------------------------------------------------
(* Properties. *)

\* Types, and the limit of both lists.
TypeOK ==
  /\ node \in Nodes /\ clients \in [Callers -> Calls]
  /\ Cardinality(node.starts) <= Capacity /\ Cardinality(node.replies) <= Capacity

Distinct(entries) == \A e, f \in entries : e.caller = f.caller => e = f

\* No caller has two entries.
Once(n) ==
  /\ Distinct(n.starts) /\ Distinct(n.replies) /\ Distinct(n.told)
  /\ \A s \in n.starts, r \in n.replies : s.caller # r.caller
  /\ \A t \in n.told : t.caller \notin Waiting(n)

\* Whatever happens to the request on its way through the two lists (queued, handed over to
\* the blade, cancelled, expired, superseded, refused for lack of room), the caller is in one
\* of them or was just answered, never both and never neither.
OneAnswerEach ==
  /\ Once(node)
  /\ {c \in Callers : clients[c].direction # "None"} = Waiting(node) \cup Answered(node)

\* "Success" means that, when it is told, the blade is demanded and confirmed as its caller
\* asked, an OFF by its neutral too, and that the demand stands when the handler ends.  After
\* an ON the confirmation stands too, and link, switch, session and emergency allow it.  (The
\* neutral of a confirmed OFF may be owed anew by then: what follows in the handler may force
\* OFF once more, as the end of a blade test does.)
SuccessIsTrue ==
  \A t \in node.told : t.success =>
    /\ t.direction = clients[t.caller].direction
    /\ t.achieved
    /\ t.direction = node.blade.requested
    /\ t.direction \in Rotations =>
         /\ node.blade.satisfied /\ node.blade.allowed
         /\ node.connected /\ node.released /\ ~node.emergency /\ node.session.arm

\* An ON called off by an OFF, an announced emergency, the end of the movement or a change of
\* the link never succeeds, not even when a later ON in the same direction does.
CalledOffFails == \A t \in node.told : t.success => ~clients[t.caller].off

\* The callers waiting for the session agree on a direction, and one whose transition is the
\* current one waits for what is demanded of the blade.
CallersAgree ==
  /\ \A s, u \in node.starts : s.direction = u.direction
  /\ \A r \in node.replies : r.revision = node.blade.revision
                               => r.direction = node.blade.requested

\* The temporary arming of an isolated blade test has a reason: somebody waits for the
\* session, the blade is demanded ON, or its failure is about to be noticed.
TestHasReason ==
  node.session.arm /\ ~node.motion
    => /\ node.test
       /\ node.starts # {} \/ node.blade.requested # "Off" \/ node.blade.failed

\* Past its deadline a caller gets no success, also when the blade settles just then.
LateFails ==
  [][\A w \in node.starts \cup node.replies :
       w.late => ~\E t \in node'.told : t.caller = w.caller /\ t.success]_vars

\* Every caller is answered.
CallersAnswered ==
  \A c \in Callers : clients[c].direction # "None" ~> c \in Answered(node)

\* docs/architecture/fcu-session-controller.md: a refused isolated ON "cancels the cutting
\* intent".  If it was a refused caller who switched the blade on, an ON caller is left whose
\* demand it is.
RefusedIsCancelled ==
  [][/\ node.blade.requested = "Off" /\ ~node'.motion
     /\ \E t \in node'.told : t.direction \in Rotations /\ ~t.success
     => \/ node'.blade.requested = "Off"
        \/ \E w \in node'.starts \cup node'.replies : w.direction \in Rotations
        \/ \E t \in node'.told : t.direction \in Rotations /\ t.success]_vars
=============================================================================
