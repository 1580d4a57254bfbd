-------------------------- MODULE FcuSessionProofs --------------------------
(***************************************************************************)
(* Proofs about FcuSessionActuation: the session invariant and the        *)
(* refinement of FcuSessionContract.  Each method gets one lemma for the   *)
(* invariant (FcuSessionTypes has its type); one lemma then covers Drive,  *)
(* through which every handler passes.                                     *)
(***************************************************************************)
EXTENDS FcuSessionActuation, FcuSessionTypes, TLAPS

-----------------------------------------------------------------------------
(* What the methods leave alone. *)

Zero == [c \in Commands |-> 0]

Untouched(s, t) == TargetOf(t) = TargetOf(s) /\ ObservedOf(t) = ObservedOf(s)

LEMMA FailUntouched ==
  ASSUME NEW s \in SessionRecords
  PROVE  Untouched(s, Fail(s))
  BY DEF Fail, SessionRecords, Untouched, TargetOf, ObservedOf

LEMMA SettleUntouched ==
  ASSUME NEW s \in SessionRecords
  PROVE  Untouched(s, Settle(s))
  BY DEF Settle, SessionRecords, Untouched, TargetOf, ObservedOf

LEMMA ObserveOffline ==
  ASSUME NEW s \in SessionRecords, NEW armed, NEW mode
  PROVE  ~Expired(Observe(s, FALSE, armed, mode))
<1> DEFINE o == Observe(s, FALSE, armed, mode)
<1>1. o.pending = NoPending
  BY DEF Observe, Settle, SessionRecords
<1> HIDE DEF o
<1>2. ~Expired(o)
  BY <1>1, ConfirmInNat DEF Expired, NoPending
<1>3. QED
  BY <1>2 DEF o

LEMMA TickedUntouched ==
  ASSUME NEW s \in SessionRecords
  PROVE  Untouched(s, Ticked(s))
  BY FailUntouched DEF Ticked, Untouched

LEMMA CompletedUntouched ==
  ASSUME NEW s \in SessionRecords, NEW serial, NEW accepted
  PROVE  Untouched(s, Completed(s, serial, accepted))
<1> DEFINE t == Ticked(s)
           a == [t EXCEPT !.acked = TRUE]
<1>1. t \in SessionRecords /\ Untouched(s, t)
  BY TickedType, TickedUntouched
<1>2. a \in SessionRecords /\ Untouched(s, a)
  BY <1>1 DEF SessionRecords, Untouched, TargetOf, ObservedOf
<1>3. Completed(s, serial, accepted) \in {t, Fail(t), Settle(a)}
  BY DEF Completed
<1>4. Untouched(s, Fail(t)) /\ Untouched(s, Settle(a))
  BY <1>1, <1>2, FailUntouched, SettleUntouched DEF Untouched
<1>5. QED
  BY <1>1, <1>3, <1>4

LEMMA EmittedUntouched ==
  ASSUME NEW s \in SessionRecords, NEW command, NEW serial
  PROVE  Untouched(s, Emitted(s, command, serial))
  BY DEF Emitted, SessionRecords, Untouched, TargetOf, ObservedOf

LEMMA DemandEffect ==
  ASSUME NEW s \in SessionRecords, NEW mode \in Modes,
         NEW arm \in BOOLEAN, NEW safety \in BOOLEAN,
         NEW d, d = Demand(s, mode, arm, safety)
  PROVE  /\ d.wanted_mode = mode
         /\ d.wanted_arm <=> arm
         /\ d.safety_disarm <=> safety
         /\ ObservedOf(d) = ObservedOf(s)
         /\ TargetOf(d) # TargetOf(s) => ~Failed(d) /\ (Expired(d) => Expired(s))
<1>1. CASE <<mode, arm, safety>> = <<s.wanted_mode, s.wanted_arm, s.safety_disarm>>
  BY <1>1 DEF Demand, TargetOf, ObservedOf
<1>2. CASE <<mode, arm, safety>> # <<s.wanted_mode, s.wanted_arm, s.safety_disarm>>
  <2>1. /\ d.wanted_mode = mode /\ d.wanted_arm = arm /\ d.safety_disarm = safety
        /\ d.connected = s.connected /\ d.armed = s.armed /\ d.mode = s.mode
        /\ ~d.mode_failed /\ ~d.arm_failed
        /\ d.pending \in {s.pending, NoPending}
    BY <1>2 DEF Demand, SessionRecords
  <2>2. TargetOf(d) # TargetOf(s)
    BY <1>2, <2>1 DEF TargetOf
  <2>3. ObservedOf(d) = ObservedOf(s)
    BY <2>1 DEF ObservedOf
  <2>4. ~Failed(d) /\ (Expired(d) => Expired(s))
    BY <2>1, ConfirmInNat DEF Failed, Expired, NoPending
  <2>5. QED
    BY <2>1, <2>2, <2>3, <2>4
<1>3. QED
  BY <1>1, <1>2

\* A demand that leaves the target as it was leaves everything as it was.
LEMMA DemandSame ==
  ASSUME NEW s \in SessionRecords, NEW mode \in Modes,
         NEW arm \in BOOLEAN, NEW safety \in BOOLEAN,
         NEW sp, NEW as, SessionInv(s, sp, as),
         NEW d, d = Demand(s, mode, arm, safety), TargetOf(d) = TargetOf(s)
  PROVE  SessionInv(d, sp, as)
<1>1. CASE <<mode, arm, safety>> = <<s.wanted_mode, s.wanted_arm, s.safety_disarm>>
  BY <1>1 DEF Demand
<1>2. CASE <<mode, arm, safety>> # <<s.wanted_mode, s.wanted_arm, s.safety_disarm>>
  <2>1. d.wanted_mode = mode /\ d.wanted_arm = arm /\ d.safety_disarm = safety
    BY <1>2 DEF Demand, SessionRecords
  <2>2. FALSE
    BY <1>2, <2>1 DEF TargetOf
  <2>3. QED
    BY <2>2
<1>3. QED
  BY <1>1, <1>2

-----------------------------------------------------------------------------
(* The session invariant, method by method. *)

LEMMA ZeroInv ==
  ASSUME NEW s \in SessionRecords, NEW sp \in [Commands -> Nat], NEW as,
         SessionInv(s, sp, as)
  PROVE  SessionInv(s, Zero, as)
<1>1. "DISARM" \in Commands
  BY DEF Commands, ArmCommands
<1>2. \A w \in Commands : ~(Zero[w] > 0)
  BY DEF Zero
<1>3. QED
  BY <1>1, <1>2 DEF SessionInv

LEMMA FailInv ==
  ASSUME NEW s \in SessionRecords, NEW sp \in [Commands -> Nat], NEW as,
         SessionInv(s, sp, as)
  PROVE  SessionInv(Fail(s), sp, as)
<1>1. CASE ~Pending(s)
  BY <1>1 DEF Fail
<1>2. CASE Pending(s)
  <2> DEFINE f == Fail(s)
  <2>1. /\ f.mode_failed = (s.mode_failed \/ s.pending.command = s.wanted_mode)
        /\ f.arm_failed = (s.arm_failed \/ s.pending.command = ArmCommand(s.wanted_arm))
        /\ ~Pending(f)
    BY <1>2 DEF Fail, SessionRecords, Pending, NoPending
  <2>2. /\ f.wanted_mode = s.wanted_mode /\ f.wanted_arm = s.wanted_arm
        /\ f.safety_disarm = s.safety_disarm /\ f.force_disarm = s.force_disarm
        /\ f.mode = s.mode /\ f.armed = s.armed
    BY DEF Fail, SessionRecords
  <2> HIDE DEF f
  <2>3. ASSUME NEW w \in Commands, Explained(s, w) PROVE Explained(f, w)
    BY <1>2, <2>1, <2>2, <2>3 DEF Explained, Confirms
  <2>4. QED
    BY <1>2, <2>1, <2>2, <2>3 DEF SessionInv, f
<1>3. QED
  BY <1>1, <1>2

LEMMA SettleInv ==
  ASSUME NEW s \in SessionRecords, NEW sp \in [Commands -> Nat], NEW as,
         SessionInv(s, sp, as)
  PROVE  SessionInv(Settle(s), sp, as)
<1>1. CASE Settle(s) = s
  BY <1>1
<1>2. CASE Confirms(s, s.pending.command) /\ Settle(s) = [s EXCEPT !.pending = NoPending]
  <2> DEFINE f == Settle(s)
  <2>1. ~Pending(f)
    BY <1>2 DEF SessionRecords, Pending, NoPending
  <2>2. /\ f.wanted_mode = s.wanted_mode /\ f.wanted_arm = s.wanted_arm
        /\ f.safety_disarm = s.safety_disarm /\ f.force_disarm = s.force_disarm
        /\ f.mode_failed = s.mode_failed /\ f.arm_failed = s.arm_failed
        /\ f.mode = s.mode /\ f.armed = s.armed
    BY <1>2 DEF SessionRecords
  <2> HIDE DEF f
  <2>3. ASSUME NEW w \in Commands, Explained(s, w) PROVE Explained(f, w)
    BY <1>2, <2>1, <2>2, <2>3 DEF Explained, Confirms
  <2>4. QED
    BY <2>1, <2>2, <2>3 DEF SessionInv, f
<1>3. QED
  BY <1>1, <1>2 DEF Settle

LEMMA TickedInv ==
  ASSUME NEW s \in SessionRecords, NEW sp \in [Commands -> Nat], NEW as,
         SessionInv(s, sp, as)
  PROVE  SessionInv(Ticked(s), sp, as)
  BY FailInv DEF Ticked

LEMMA CompletedInv ==
  ASSUME NEW s \in SessionRecords, NEW sp \in [Commands -> Nat], NEW as,
         NEW serial, NEW accepted, SessionInv(s, sp, as)
  PROVE  SessionInv(Completed(s, serial, accepted), sp, as)
<1> DEFINE t == Ticked(s)
           a == [t EXCEPT !.acked = TRUE]
<1>1. t \in SessionRecords /\ SessionInv(t, sp, as)
  BY TickedType, TickedInv
<1> HIDE DEF t
<1>2. a \in SessionRecords
  BY <1>1 DEF SessionRecords
<1>3. /\ a.wanted_mode = t.wanted_mode /\ a.wanted_arm = t.wanted_arm
      /\ a.safety_disarm = t.safety_disarm /\ a.force_disarm = t.force_disarm
      /\ a.mode_failed = t.mode_failed /\ a.arm_failed = t.arm_failed
      /\ a.mode = t.mode /\ a.armed = t.armed
      /\ a.connected = t.connected /\ a.pending = t.pending
  BY <1>1 DEF SessionRecords
<1> HIDE DEF a
<1>4. SessionInv(a, sp, as)
  BY <1>1, <1>3 DEF SessionInv, Explained, Confirms, Pending
<1>5. Completed(s, serial, accepted) \in {t, Fail(t), Settle(a)}
  BY DEF Completed, t, a
<1>6. QED
  BY <1>1, <1>2, <1>4, <1>5, FailInv, SettleInv

LEMMA AgedInv ==
  ASSUME NEW s \in SessionRecords, NEW sp \in [Commands -> Nat], NEW as,
         SessionInv(s, sp, as)
  PROVE  SessionInv(Aged(s), sp, as) /\ Untouched(s, Aged(s))
<1> DEFINE a == Aged(s)
<1>1. /\ a.wanted_mode = s.wanted_mode /\ a.wanted_arm = s.wanted_arm
      /\ a.safety_disarm = s.safety_disarm /\ a.force_disarm = s.force_disarm
      /\ a.mode_failed = s.mode_failed /\ a.arm_failed = s.arm_failed
      /\ a.mode = s.mode /\ a.armed = s.armed /\ a.connected = s.connected
  BY DEF Aged, SessionRecords
<1>2. a.pending.serial = s.pending.serial /\ a.pending.command = s.pending.command
  BY DEF Aged, SessionRecords, Pendings
<1> HIDE DEF a
<1>3. SessionInv(a, sp, as) /\ Untouched(s, a)
  BY <1>1, <1>2
  DEF SessionInv, Explained, Confirms, Pending, Untouched, TargetOf, ObservedOf
<1>4. QED
  BY <1>3 DEF a

LEMMA DemandInv ==
  ASSUME NEW s \in SessionRecords, NEW sp \in [Commands -> Nat], NEW as,
         NEW mode \in Modes, NEW arm \in BOOLEAN, NEW safety \in BOOLEAN,
         safety => ~arm, SessionInv(s, sp, as),
         NEW d, d = Demand(s, mode, arm, safety)
  PROVE  SessionInv(d, Zero, as)
<1>1. CASE <<mode, arm, safety>> = <<s.wanted_mode, s.wanted_arm, s.safety_disarm>>
  BY <1>1, ZeroInv DEF Demand
<1>2. CASE <<mode, arm, safety>> # <<s.wanted_mode, s.wanted_arm, s.safety_disarm>>
  <2>1. /\ d.wanted_mode = mode /\ d.wanted_arm = arm /\ d.safety_disarm = safety
        /\ d.connected = s.connected /\ ~d.mode_failed /\ ~d.arm_failed
        /\ d.pending = IF safety /\ ~s.safety_disarm THEN NoPending ELSE s.pending
    BY <1>2 DEF Demand, SessionRecords
  <2>2. ~Pending(d) \/ (d.pending = s.pending /\ Pending(s) /\ (safety => s.safety_disarm))
    BY <2>1 DEF Pending, NoPending
  <2>3. "DISARM" \in Commands /\ \A w \in Commands : ~(Zero[w] > 0)
    BY DEF Zero, Commands, ArmCommands
  <2>4. QED
    BY <2>1, <2>2, <2>3 DEF SessionInv
<1>3. QED
  BY <1>1, <1>2

LEMMA ObserveInv ==
  ASSUME NEW s \in SessionRecords, NEW sp \in [Commands -> Nat], NEW as,
         NEW connected \in BOOLEAN, NEW armed \in BOOLEAN, NEW mode \in Modes,
         SessionInv(s, sp, as)
  PROVE  LET o == Observe(s, connected, armed, mode) IN
         /\ TargetOf(o) = TargetOf(s)
         /\ SessionInv(o, Zero, as)
         /\ ObservedOf(o) = ObservedOf(s) => SessionInv(o, sp, as)
<1> DEFINE late == s.safety_disarm /\ armed /\ ~s.armed
           pending == IF connected THEN s.pending ELSE NoPending
           force == s.force_disarm \/ late
           af == s.arm_failed /\ ~late /\ ~(connected /\ armed = s.wanted_arm)
           mf == s.mode_failed /\ ~(connected /\ mode = s.wanted_mode)
           r == [s EXCEPT !.pending = pending, !.force_disarm = force,
                          !.arm_failed = af, !.mode_failed = mf,
                          !.connected = connected, !.armed = armed, !.mode = mode]
           o == Observe(s, connected, armed, mode)
<1>1. o = Settle(r)
  BY DEF Observe
<1>2. pending \in Pendings /\ force \in BOOLEAN /\ af \in BOOLEAN /\ mf \in BOOLEAN
  BY SessionConstants DEF SessionRecords
<1>3. /\ r \in SessionRecords
      /\ r.wanted_mode = s.wanted_mode /\ r.wanted_arm = s.wanted_arm
      /\ r.safety_disarm = s.safety_disarm /\ r.force_disarm = force
      /\ r.mode_failed = mf /\ r.arm_failed = af
      /\ r.mode = mode /\ r.armed = armed
      /\ r.connected = connected /\ r.pending = pending
  <2> HIDE DEF late, pending, force, af, mf
  <2>1. r \in SessionRecords
    BY <1>2 DEF SessionRecords
  <2>2. /\ r.wanted_mode = s.wanted_mode /\ r.wanted_arm = s.wanted_arm
        /\ r.safety_disarm = s.safety_disarm
        /\ r.mode = mode /\ r.armed = armed /\ r.connected = connected
    BY DEF SessionRecords
  <2>3. r.force_disarm = force /\ r.mode_failed = mf /\ r.arm_failed = af
    BY DEF SessionRecords
  <2>4. r.pending = pending
    BY DEF SessionRecords
  <2>5. QED
    BY <2>1, <2>2, <2>3, <2>4
<1> HIDE DEF r
<1>11. (r.arm_failed => s.arm_failed) /\ (r.mode_failed => s.mode_failed)
  BY <1>3
<1>13. /\ r.wanted_mode = s.wanted_mode /\ r.wanted_arm = s.wanted_arm
       /\ r.safety_disarm = s.safety_disarm /\ r.connected = connected
  BY <1>3
<1>12. ~late => force = s.force_disarm
  BY DEF SessionRecords
<1>4. Pending(r) => Pending(s) /\ r.pending = s.pending /\ connected
  BY <1>3 DEF Pending, NoPending
<1>14. /\ Pending(r) => r.connected /\ r.pending.command \in as
       /\ r.safety_disarm => ~r.wanted_arm /\ ~(Pending(r) /\ r.pending.command = "ARM")
       /\ r.mode_failed => r.wanted_mode \in as
       /\ r.arm_failed => ArmCommand(r.wanted_arm) \in as
  <2>1. Pending(r) => r.connected /\ r.pending.command \in as
    BY <1>4, <1>13 DEF SessionInv
  <2>2. r.safety_disarm => ~r.wanted_arm /\ ~(Pending(r) /\ r.pending.command = "ARM")
    BY <1>4, <1>13 DEF SessionInv
  <2>3. r.mode_failed => r.wanted_mode \in as
    BY <1>11, <1>13 DEF SessionInv
  <2>4. r.arm_failed => ArmCommand(r.wanted_arm) \in as
    BY <1>11, <1>13 DEF SessionInv
  <2>5. QED
    BY <2>1, <2>2, <2>3, <2>4
<1>5. SessionInv(r, Zero, as)
  <2>1. "DISARM" \in Commands /\ \A w \in Commands : ~(Zero[w] > 0)
    BY DEF Zero, Commands, ArmCommands
  <2>2. QED
    BY <1>14, <2>1 DEF SessionInv
<1>6. ASSUME ObservedOf(r) = ObservedOf(s) PROVE SessionInv(r, sp, as)
  <2>1. connected = s.connected /\ armed = s.armed /\ mode = s.mode
    BY <1>3, <1>6 DEF ObservedOf
  <2>2. ~late /\ r.force_disarm = s.force_disarm
    BY <1>3, <1>12, <2>1
  <2>3. Pending(s) => Pending(r) /\ r.pending = s.pending
    BY <1>3, <2>1 DEF SessionInv, Pending
  <2>4. /\ s.arm_failed => r.arm_failed \/ armed = s.wanted_arm
        /\ s.mode_failed => r.mode_failed \/ mode = s.wanted_mode
    BY <1>3, <2>2
  <2>5. ASSUME NEW w \in Commands, Explained(s, w) PROVE Explained(r, w)
    BY <1>3, <2>1, <2>3, <2>4, <2>5 DEF Explained, Confirms
  <2>6. QED
    BY <1>13, <1>14, <2>2, <2>5 DEF SessionInv
<1>7. TargetOf(r) = TargetOf(s)
  BY <1>3 DEF TargetOf
<1>8. SessionInv(o, Zero, as) /\ (ObservedOf(r) = ObservedOf(s) => SessionInv(o, sp, as))
  <2>1. Zero \in [Commands -> Nat]
    BY DEF Zero
  <2>2. QED
    BY <1>1, <1>3, <1>5, <1>6, <2>1, SettleInv
<1>9. TargetOf(o) = TargetOf(r) /\ ObservedOf(o) = ObservedOf(r)
  BY <1>1, <1>3, SettleUntouched DEF Untouched
<1>10. QED
  BY <1>7, <1>8, <1>9

-----------------------------------------------------------------------------
(* What next() may choose. *)

\* What a command that next() chooses says of the session that chooses it.
RightlyNext(s, command) ==
  /\ command \in Commands /\ s.connected /\ ~Pending(s)
  /\ command \in Modes =>
       /\ command = s.wanted_mode /\ s.mode # s.wanted_mode
       /\ ~s.mode_failed /\ ~DisarmFirst(s)
  /\ command \in ArmCommands =>
       command = ArmCommand(s.wanted_arm) /\ ~s.arm_failed
  /\ command = "ARM" =>
       s.wanted_arm /\ ~s.safety_disarm /\ ~s.armed /\ s.mode = s.wanted_mode
  /\ command = "DISARM" =>
       ~s.wanted_arm /\ (DisarmFirst(s) \/ (s.armed /\ ~s.safety_disarm))

LEMMA NextCommandFacts ==
  ASSUME NEW s \in SessionRecords, NEW sp \in [Commands -> Nat], NEW as,
         NEW m \in BOOLEAN, NEW a \in BOOLEAN, NEW r \in BOOLEAN,
         SessionInv(s, sp, as),
         NEW command, command = NextCommand(s, m, a, r), command # "none"
  PROVE  RightlyNext(s, command)
<1>1. /\ s.connected /\ ~Pending(s)
  BY DEF NextCommand
<1>2. s.wanted_mode \in Modes /\ s.wanted_arm \in BOOLEAN /\ s.armed \in BOOLEAN
      /\ s.wanted_mode \notin ArmCommands
      /\ ArmCommands = {"ARM", "DISARM"} /\ "ARM" \notin Modes /\ "DISARM" \notin Modes
  BY SessionConstants DEF SessionRecords, ArmCommands
<1>3. s.safety_disarm => ~s.wanted_arm
  BY DEF SessionInv
<1>4. CASE DisarmFirst(s)
  <2>1. command = "DISARM" /\ ~s.arm_failed /\ ~s.wanted_arm
    BY <1>1, <1>3, <1>4 DEF NextCommand, DisarmFirst
  <2>2. QED
    BY <1>1, <1>2, <1>4, <2>1 DEF RightlyNext, ArmCommand, Commands
<1>5. CASE ~DisarmFirst(s) /\ s.mode # s.wanted_mode /\ ~s.mode_failed
  <2>1. \/ command = s.wanted_mode
        \/ command = "DISARM" /\ ~s.wanted_arm /\ s.armed /\ ~s.arm_failed
    BY <1>1, <1>5 DEF NextCommand
  <2>2. QED
    BY <1>1, <1>2, <1>5, <2>1 DEF RightlyNext, ArmCommand, Commands, DisarmFirst
<1>6. CASE ~DisarmFirst(s) /\ ~(s.mode # s.wanted_mode /\ ~s.mode_failed)
  <2>1. /\ command = ArmCommand(s.wanted_arm) /\ s.armed # s.wanted_arm /\ ~s.arm_failed
        /\ s.wanted_arm => s.mode = s.wanted_mode
    BY <1>1, <1>6 DEF NextCommand
  <2>2. QED
    BY <1>1, <1>2, <1>3, <1>6, <2>1 DEF RightlyNext, ArmCommand, Commands, DisarmFirst
<1>7. QED
  BY <1>4, <1>5, <1>6

\* A command that may be chosen has not been emitted since the last change.
LEMMA NextCommandFresh ==
  ASSUME NEW s \in SessionRecords, NEW sp \in [Commands -> Nat], NEW as,
         SessionInv(s, sp, as), NEW command, RightlyNext(s, command)
  PROVE  sp[command] = 0
<1>1. /\ command \in Commands /\ s.connected /\ ~Pending(s)
      /\ command \in Modes =>
           /\ command = s.wanted_mode /\ s.mode # s.wanted_mode
           /\ ~s.mode_failed /\ ~DisarmFirst(s)
      /\ command \in ArmCommands =>
           command = ArmCommand(s.wanted_arm) /\ ~s.arm_failed
      /\ command = "ARM" =>
           s.wanted_arm /\ ~s.safety_disarm /\ ~s.armed /\ s.mode = s.wanted_mode
      /\ command = "DISARM" =>
           ~s.wanted_arm /\ (DisarmFirst(s) \/ (s.armed /\ ~s.safety_disarm))
  BY DEF RightlyNext
<1> SUFFICES ASSUME sp[command] > 0 PROVE FALSE
  BY <1>1
<1>2. Explained(s, command)
  BY <1>1 DEF SessionInv
<1>3. CASE command \in Modes
  <2>1. command \notin ArmCommands
    BY <1>3, SessionConstants
  <2>2. QED
    BY <1>1, <1>2, <1>3, <2>1 DEF Explained, Confirms
<1>4. CASE command = "ARM"
  BY <1>1, <1>2, <1>4 DEF Explained, Confirms, ArmCommands, ArmCommand
<1>5. CASE command = "DISARM"
  <2>1. ~s.armed
    BY <1>1, <1>2, <1>5 DEF Explained, Confirms, ArmCommands, ArmCommand
  <2>2. s.safety_disarm /\ s.force_disarm
    BY <1>1, <1>5, <2>1 DEF DisarmFirst
  <2>3. QED
    BY <1>5, <2>2 DEF SessionInv
<1>6. QED
  BY <1>1, <1>3, <1>4, <1>5 DEF Commands, ArmCommands

LEMMA EmittedInv ==
  ASSUME NEW s \in SessionRecords, NEW sp \in [Commands -> Nat], NEW as,
         NEW serial \in Serials, SessionInv(s, sp, as),
         NEW command, RightlyNext(s, command),
         NEW e, e = Emitted(s, command, serial),
         NEW ep, ep = [sp EXCEPT ![command] = @ + 1],
         NEW eas, eas = AskedNow(as, command)
  PROVE  SessionInv(e, ep, eas)
<1>1. /\ command \in Commands /\ s.connected /\ ~Pending(s)
      /\ command \in Modes =>
           /\ command = s.wanted_mode /\ s.mode # s.wanted_mode
           /\ ~s.mode_failed /\ ~DisarmFirst(s)
      /\ command \in ArmCommands =>
           command = ArmCommand(s.wanted_arm) /\ ~s.arm_failed
      /\ command = "ARM" =>
           s.wanted_arm /\ ~s.safety_disarm /\ ~s.armed /\ s.mode = s.wanted_mode
      /\ command = "DISARM" =>
           ~s.wanted_arm /\ (DisarmFirst(s) \/ (s.armed /\ ~s.safety_disarm))
  BY DEF RightlyNext
<1>2. /\ e.wanted_mode = s.wanted_mode /\ e.wanted_arm = s.wanted_arm
      /\ e.safety_disarm = s.safety_disarm
      /\ e.force_disarm = (s.force_disarm /\ ~DisarmFirst(s))
      /\ e.mode_failed = s.mode_failed /\ e.arm_failed = s.arm_failed
      /\ e.mode = s.mode /\ e.armed = s.armed /\ e.connected = s.connected
      /\ e.pending.serial = serial /\ e.pending.command = command
  BY DEF Emitted, SessionRecords
<1>3. Pending(e)
  BY <1>2, SessionConstants DEF Pending
<1>4. ASSUME NEW w \in Commands, ep[w] > 0 PROVE Explained(e, w)
  <2>1. CASE w = command
    <3>1. w = IF w \in ArmCommands THEN ArmCommand(s.wanted_arm) ELSE s.wanted_mode
      BY <1>1, <2>1 DEF Commands
    <3>2. QED
      BY <1>2, <1>3, <2>1, <3>1 DEF Explained
  <2>2. CASE w # command
    <3>1. Explained(s, w)
      BY <1>4, <2>2 DEF SessionInv
    <3>2. QED
      BY <1>1, <1>2, <3>1 DEF Explained, Confirms
  <2>3. QED
    BY <2>1, <2>2
<1>5. /\ s.mode_failed => s.wanted_mode \in eas
      /\ s.arm_failed => ArmCommand(s.wanted_arm) \in eas
  <2>1. s.wanted_mode \notin ArmCommands /\ ArmCommand(s.wanted_arm) \in ArmCommands
    BY SessionConstants DEF SessionRecords
  <2>2. s.mode_failed => command \in ArmCommands
    BY <1>1 DEF Commands
  <2>3. s.arm_failed => command \notin ArmCommands
    BY <1>1
  <2>4. QED
    BY <2>1, <2>2, <2>3 DEF SessionInv, AskedNow
<1>6. e.safety_disarm /\ ep["DISARM"] > 0 => ~e.force_disarm
  <2>1. "DISARM" \in Commands
    BY DEF Commands, ArmCommands
  <2>2. CASE command = "DISARM"
    BY <1>1, <1>2, <2>2
  <2>3. CASE command # "DISARM"
    BY <1>2, <2>1, <2>3 DEF SessionInv
  <2>4. QED
    BY <2>2, <2>3
<1>7. e.safety_disarm => ~e.wanted_arm /\ ~(Pending(e) /\ e.pending.command = "ARM")
  BY <1>1, <1>2 DEF SessionInv
<1>8. command \in eas
  BY DEF AskedNow
<1>9. QED
  BY <1>1, <1>2, <1>4, <1>5, <1>6, <1>7, <1>8 DEF SessionInv

-----------------------------------------------------------------------------
(* Drive, through which every handler passes. *)

LEMMA DemandWithEffect ==
  ASSUME NEW s \in SessionRecords, NEW sp, NEW as,
         NEW i \in Intents, SessionInv(s, Zero, as),
         NEW d, d = DemandWith(s, i)
  PROVE  /\ d \in SessionRecords
         /\ SessionInv(d, Zero, as)
         /\ ObservedOf(d) = ObservedOf(s)
         /\ TargetOf(d) = TargetOf(s) /\ SessionInv(s, sp, as) => SessionInv(d, sp, as)
         /\ TargetOf(d) # TargetOf(s) => ~Failed(d) /\ (Expired(d) => Expired(s))
         /\ d.safety_disarm <=> i \in Emergencies
         /\ d.wanted_arm <=> Arming(i)
         /\ d.wanted_mode \in FcuModes \cup {d.mode}
<1>1. PICK mode \in Modes, arm \in BOOLEAN, safety \in BOOLEAN :
        /\ d = Demand(s, mode, arm, safety)
        /\ safety => ~arm
        /\ safety <=> i \in Emergencies
        /\ arm <=> Arming(i)
        /\ mode \in FcuModes \cup {s.mode}
  <2> DEFINE m == IF i = "TiltStop" THEN s.mode
                  ELSE IF i \in FcuModes THEN i ELSE "HOLD"
             e == i \in Emergencies
             a == Arming(i)
  <2>1. s.mode \in Modes /\ "HOLD" \in Modes /\ FcuModes \subseteq Modes
    BY SessionConstants DEF SessionRecords, FcuModes
  <2>2. m \in Modes /\ m \in FcuModes \cup {s.mode}
    BY <2>1, SessionConstants DEF FcuModes
  <2>3. /\ a \in BOOLEAN /\ e \in BOOLEAN
        /\ e => ~a
        /\ e <=> i \in Emergencies
        /\ a <=> Arming(i)
    BY DEF Arming
  <2>4. d = Demand(s, m, a, e)
    BY DEF DemandWith
  <2> HIDE DEF m, a, e
  <2>5. QED
    BY <2>2, <2>3, <2>4, Zenon
<1>2. d \in SessionRecords
  BY <1>1, DemandType
<1>3. SessionInv(d, Zero, as)
  <2>1. Zero \in [Commands -> Nat]
    BY DEF Zero
  <2>2. QED
    BY <1>1, <2>1, DemandInv
<1>4. /\ d.wanted_mode = mode
      /\ d.wanted_arm <=> arm
      /\ d.safety_disarm <=> safety
      /\ ObservedOf(d) = ObservedOf(s)
      /\ TargetOf(d) = TargetOf(s) /\ SessionInv(s, sp, as) => SessionInv(d, sp, as)
      /\ TargetOf(d) # TargetOf(s) => ~Failed(d) /\ (Expired(d) => Expired(s))
  <2>1. /\ d.wanted_mode = mode
        /\ d.wanted_arm <=> arm
        /\ d.safety_disarm <=> safety
        /\ ObservedOf(d) = ObservedOf(s)
        /\ TargetOf(d) # TargetOf(s) => ~Failed(d) /\ (Expired(d) => Expired(s))
    BY <1>1, DemandEffect
  <2>2. ASSUME TargetOf(d) = TargetOf(s), SessionInv(s, sp, as)
        PROVE  SessionInv(d, sp, as)
    BY <1>1, <2>2, DemandSame
  <2>3. QED
    BY <2>1, <2>2
<1>5. d.mode = s.mode
  BY <1>4 DEF ObservedOf
<1>6. QED
  BY <1>1, <1>2, <1>3, <1>4, <1>5

LEMMA IdleEffect ==
  ASSUME NEW s \in SessionRecords, NEW as, SessionInv(s, Zero, as),
         NEW d, d = DemandWith(s, "Idle")
  PROVE  /\ d \in SessionRecords
         /\ SessionInv(d, Zero, as)
         /\ ObservedOf(d) = ObservedOf(s)
         /\ ~d.safety_disarm
         /\ ~d.wanted_arm
         /\ d.wanted_mode \in FcuModes \cup {d.mode}
<1>1. "Idle" \in Intents /\ "Idle" \notin Emergencies /\ ~Arming("Idle")
  BY DEF Intents, Emergencies, Arming
<1>2. QED
  BY <1>1, DemandWithEffect

\* The session that drive_session_locked asks for its next command.
LEMMA DrivenEffect ==
  ASSUME NEW left \in SessionRecords, NEW sp \in [Commands -> Nat], NEW as,
         NEW i \in Intents, SessionInv(left, Zero, as),
         Testing(i) => left.wanted_arm \/ ~Expired(left),
         NEW t, t = Ticked(DemandWith(left, i)),
         NEW s, s = IF TestFails(t, i) THEN DemandWith(t, "Idle") ELSE t,
         NEW j, j = IF TestFails(t, i) THEN "Idle" ELSE i
  PROVE  /\ s \in SessionRecords /\ j \in Intents
         /\ SessionInv(s, Zero, as)
         /\ ObservedOf(s) = ObservedOf(left)
         /\ TargetOf(s) = TargetOf(left) /\ SessionInv(left, sp, as) => SessionInv(s, sp, as)
         /\ s.safety_disarm <=> i \in Emergencies
         /\ s.wanted_arm <=> Arming(j)
         /\ s.wanted_mode \in FcuModes \cup {s.mode}
<1>1. Zero \in [Commands -> Nat]
  BY DEF Zero
<1>2. PICK d : d = DemandWith(left, i)
  OBVIOUS
<1>3. /\ d \in SessionRecords
      /\ SessionInv(d, Zero, as)
      /\ ObservedOf(d) = ObservedOf(left)
      /\ TargetOf(d) = TargetOf(left) /\ SessionInv(left, sp, as) => SessionInv(d, sp, as)
      /\ TargetOf(d) # TargetOf(left) => ~Failed(d) /\ (Expired(d) => Expired(left))
      /\ d.safety_disarm <=> i \in Emergencies
      /\ d.wanted_arm <=> Arming(i)
      /\ d.wanted_mode \in FcuModes \cup {d.mode}
  BY <1>2, DemandWithEffect
<1>4. /\ t = Ticked(d) /\ t \in SessionRecords /\ Untouched(d, t)
      /\ SessionInv(t, Zero, as)
      /\ SessionInv(d, sp, as) => SessionInv(t, sp, as)
  BY <1>1, <1>2, <1>3, TickedType, TickedInv, TickedUntouched
<1>5. /\ TargetOf(t) = TargetOf(d) /\ ObservedOf(t) = ObservedOf(d)
      /\ t.wanted_mode = d.wanted_mode /\ t.mode = d.mode
      /\ t.wanted_arm = d.wanted_arm /\ t.safety_disarm = d.safety_disarm
  BY <1>4 DEF Untouched, TargetOf, ObservedOf
<1>6. CASE ~TestFails(t, i)
  BY <1>3, <1>4, <1>5, <1>6
<1>7. CASE TestFails(t, i)
  <2>1. j \in Intents /\ ~Arming(j)
    BY <1>7 DEF Intents, Arming
  <2>2. s = DemandWith(t, "Idle")
    BY <1>7
  <2>3. /\ s \in SessionRecords
        /\ SessionInv(s, Zero, as)
        /\ ObservedOf(s) = ObservedOf(t)
        /\ ~s.safety_disarm
        /\ ~s.wanted_arm
        /\ s.wanted_mode \in FcuModes \cup {s.mode}
    BY <1>4, <2>2, IdleEffect
  <2>4. Testing(i) /\ Failed(t)
    BY <1>7 DEF TestFails
  <2>5. i \notin Emergencies /\ Arming(i)
    BY <2>4 DEF Testing, Emergencies, Arming
  <2>6. TargetOf(s) # TargetOf(left)
    <3> SUFFICES ASSUME TargetOf(s) = TargetOf(left) PROVE FALSE
      OBVIOUS
    <3>1. ~left.wanted_arm /\ ~Expired(left)
      BY <2>3, <2>4 DEF TargetOf, SessionRecords
    <3>2. TargetOf(d) # TargetOf(left)
      BY <1>3, <2>5, <3>1 DEF TargetOf
    <3>3. ~Failed(d) /\ ~Expired(d)
      BY <1>3, <3>1, <3>2
    <3>4. QED
      BY <1>4, <2>4, <3>3 DEF Ticked
  <2>7. QED
    BY <1>3, <1>5, <2>1, <2>3, <2>5, <2>6
<1>8. QED
  BY <1>6, <1>7

LEMMA DriveStep ==
  ASSUME TypeOK, NEW left \in SessionRecords, NEW i \in Intents,
         NEW again \in BOOLEAN, NEW services \in Services,
         Drive(left, i, again, services),
         SessionInv(left, Zero, asked),
         Testing(i) => left.wanted_arm \/ ~Expired(left),
         again => i \in Emergencies,
         ~again => TargetOf(left) = TargetOf(session),
         ~again /\ ObservedOf(left) = ObservedOf(session) =>
           SessionInv(left, spent, asked)
  PROVE  /\ session' \in SessionRecords
         /\ intent' \in Intents
         /\ spent' \in [Commands -> Nat]
         /\ asked' \subseteq Commands
         /\ calls' \subseteq Calls
         /\ SessionInvariant'
         /\ Contract!Handle(again)
<1> DEFINE t == Ticked(DemandWith(left, i))
           ended == TestFails(t, i)
           s == IF ended THEN DemandWith(t, "Idle") ELSE t
           j == IF ended THEN "Idle" ELSE i
           released == services.released /\ i \notin Emergencies
           command == NextCommand(s, services.mode, services.arm, released)
           serial == CHOOSE n \in FreeSerials : TRUE
           sent == Emitted(s, command, serial)
           kept == IF ~again /\ TargetOf(s) = TargetOf(session)
                             /\ ObservedOf(s) = ObservedOf(session)
                   THEN spent ELSE Zero
           eas == AskedNow(asked, command)
           esp == [kept EXCEPT ![command] = @ + 1]
<1>1. /\ Zero \in [Commands -> Nat] /\ spent \in [Commands -> Nat]
      /\ asked \subseteq Commands /\ session \in SessionRecords
      /\ calls \subseteq Calls
  BY DEF Zero, TypeOK
<1>2. /\ intent' = j
      /\ command = "none" => session' = s /\ spent' = kept /\ UNCHANGED <<asked, calls>>
      /\ command # "none" =>
           /\ FreeSerials # {}
           /\ spent' = esp /\ asked' = eas
           /\ \/ /\ session' = sent
                 /\ calls' = calls \cup {[serial |-> serial, command |-> command]}
              \/ session' = Completed(sent, serial, FALSE) /\ UNCHANGED calls
  <2>1. /\ intent' = j
        /\ IF command = "none"
           THEN session' = s /\ spent' = kept /\ UNCHANGED <<asked, calls>>
           ELSE Emit(s, command, kept)
    BY Zenon DEF Drive, Zero
  <2> HIDE DEF s, j, command, kept
  <2>2. QED
    BY <2>1 DEF Emit
<1>3. /\ services.mode \in BOOLEAN /\ services.arm \in BOOLEAN /\ released \in BOOLEAN
  BY SessionPlantAssumption
<1>4. /\ s \in SessionRecords /\ j \in Intents
      /\ SessionInv(s, Zero, asked)
      /\ ObservedOf(s) = ObservedOf(left)
      /\ s.safety_disarm <=> i \in Emergencies
      /\ s.wanted_arm <=> Arming(j)
      /\ s.wanted_mode \in FcuModes \cup {s.mode}
      /\ TargetOf(s) = TargetOf(left) /\ SessionInv(left, spent, asked) =>
           SessionInv(s, spent, asked)
  BY <1>1, DrivenEffect
<1> HIDE DEF t, ended, s, j
<1>5. kept \in [Commands -> Nat] /\ SessionInv(s, kept, asked)
  <2>1. CASE ~again /\ TargetOf(s) = TargetOf(session) /\ ObservedOf(s) = ObservedOf(session)
    BY <1>1, <1>4, <2>1
  <2>2. CASE ~(~again /\ TargetOf(s) = TargetOf(session)
               /\ ObservedOf(s) = ObservedOf(session))
    BY <1>1, <1>4, <2>2
  <2>3. QED
    BY <2>1, <2>2
<1> HIDE DEF released, kept
<1>6. command \in Commands \cup {"none"}
  BY <1>3, <1>4, NextCommandType
<1>7. CASE command = "none"
  <2>1. session' = s /\ spent' = kept /\ UNCHANGED <<asked, calls>>
    BY <1>2, <1>7
  <2>2. SessionInvariant'
    BY <1>2, <1>4, <1>5, <2>1 DEF SessionInvariant
  <2>3. Contract!Handle(again)
    <3>1. TargetOf(session)' = TargetOf(s) /\ ObservedOf(session)' = ObservedOf(s)
      BY <2>1 DEF TargetOf, ObservedOf
    <3>2. /\ TargetOf(s) \in Contract!Targets /\ ObservedOf(s) \in Contract!Observations
          /\ again => TargetOf(s).safety
      BY <1>4 DEF TargetOf, ObservedOf, Contract!Targets, Contract!Observations,
                        SessionRecords
    <3>3. kept = IF again \/ TargetOf(s) # TargetOf(session)
                        \/ ObservedOf(s) # ObservedOf(session)
                 THEN Zero ELSE spent
      BY DEF kept
    <3>4. spent' = Contract!Left(again)
      BY <2>1, <3>1, <3>3 DEF Contract!Left, Contract!Forgotten, Contract!Commands,
                              Zero, Commands, ArmCommands
    <3>5. QED
      BY <3>1, <3>2, <3>4 DEF Contract!Handle
  <2>4. QED
    BY <1>1, <1>2, <1>4, <1>5, <2>1, <2>2, <2>3
<1>8. CASE command # "none"
  <2>0. RightlyNext(s, command)
    <3>1. PICK m \in BOOLEAN : m = services.mode
      BY <1>3
    <3>2. PICK a \in BOOLEAN : a = services.arm
      BY <1>3
    <3>3. PICK r \in BOOLEAN : r = released
      BY <1>3
    <3>4. command = NextCommand(s, m, a, r)
      BY <3>1, <3>2, <3>3
    <3> HIDE DEF command
    <3>5. QED
      BY <1>4, <1>5, <1>8, <3>4, NextCommandFacts
  <2>1. /\ spent' = esp /\ asked' = eas /\ command \in Commands /\ serial \in Serials
    BY <1>2, <1>6, <1>8 DEF FreeSerials
  <2>2. sent \in SessionRecords /\ SessionInv(sent, esp, eas)
    <3>1. sent \in SessionRecords
      BY <1>4, <2>1, EmittedType
    <3> HIDE DEF serial
    <3>2. SessionInv(sent, esp, eas)
      <4>1. s \in SessionRecords /\ kept \in [Commands -> Nat] /\ SessionInv(s, kept, asked)
        BY <1>4, <1>5
      <4>2. esp = [kept EXCEPT ![command] = @ + 1]
        BY DEF esp
      <4>3. sent = Emitted(s, command, serial)
        BY DEF sent
      <4>4. eas = AskedNow(asked, command)
        BY DEF eas
      <4> HIDE DEF sent, esp, eas, command
      <4>5. QED
        BY <2>0, <2>1, <4>1, <4>2, <4>3, <4>4, EmittedInv
    <3>3. QED
      BY <3>1, <3>2
  <2>3. esp \in [Commands -> Nat] /\ eas \subseteq Commands
    BY <1>1, <1>5, <2>1 DEF AskedNow
  <2>4. /\ sent.pending.age = 0
        /\ TargetOf(sent) = TargetOf(s) /\ ObservedOf(sent) = ObservedOf(s)
    <3>1. Untouched(s, sent)
      BY <1>4, <2>1, EmittedUntouched
    <3>2. sent.pending.age = 0
      BY <1>4 DEF Emitted, SessionRecords
    <3>3. QED
      BY <3>1, <3>2 DEF Untouched
  <2>5. /\ s.connected
        /\ command \in Modes => command = s.wanted_mode /\ s.mode # s.wanted_mode
        /\ command = "ARM" =>
             s.wanted_arm /\ ~s.safety_disarm /\ ~s.armed /\ s.mode = s.wanted_mode
        /\ command = "DISARM" => ~s.wanted_arm /\ (s.safety_disarm \/ s.armed)
    BY <2>0 DEF RightlyNext, DisarmFirst
  <2>6. command \in FcuModes \cup ArmCommands
    BY <1>4, <2>1, <2>5 DEF FcuModes, Commands
  <2> HIDE DEF sent, esp, eas, serial
  <2>7. /\ session' \in SessionRecords /\ SessionInv(session', esp, eas)
        /\ TargetOf(session') = TargetOf(s) /\ ObservedOf(session') = ObservedOf(s)
        /\ calls' \subseteq Calls
    <3>1. CASE session' = sent
               /\ calls' = calls \cup {[serial |-> serial, command |-> command]}
      <4>1. [serial |-> serial, command |-> command] \in Calls
        BY <2>1, <2>6 DEF Calls
      <4>2. QED
        BY <1>1, <2>1, <2>2, <2>4, <3>1, <4>1
    <3>2. CASE session' = Completed(sent, serial, FALSE) /\ UNCHANGED calls
      BY <1>1, <2>2, <2>3, <2>4, <3>2, CompletedType, CompletedInv, CompletedUntouched
      DEF Untouched
    <3>3. QED
      BY <1>2, <1>8, <3>1, <3>2
  <2>8. SessionInvariant'
    BY <1>2, <1>4, <2>1, <2>7 DEF SessionInvariant, TargetOf
  <2>9. Contract!Handle(again)
    <3>1. TargetOf(session)' = TargetOf(s) /\ ObservedOf(session)' = ObservedOf(s)
      BY <2>7 DEF TargetOf, ObservedOf
    <3>2. /\ TargetOf(s) \in Contract!Targets /\ ObservedOf(s) \in Contract!Observations
          /\ again => TargetOf(s).safety
      BY <1>4 DEF TargetOf, ObservedOf, Contract!Targets, Contract!Observations,
                        SessionRecords
    <3>3. kept = IF again \/ TargetOf(s) # TargetOf(session)
                        \/ ObservedOf(s) # ObservedOf(session)
                 THEN Zero ELSE spent
      BY DEF kept
    <3>4. kept = Contract!Left(again)
      BY <3>1, <3>3 DEF Contract!Left, Contract!Forgotten, Contract!Commands,
                        Zero, Commands, ArmCommands
    <3>5. kept[command] = 0
      BY <1>4, <1>5, <2>0, NextCommandFresh
    <3>6. ObservedOf(session)'.connected
      BY <3>1, <2>5 DEF ObservedOf
    <3>7. Contract!CalledFor(command)
      <4>1. /\ TargetOf(s).mode = s.wanted_mode /\ TargetOf(s).arm = s.wanted_arm
            /\ TargetOf(s).safety = s.safety_disarm
            /\ ObservedOf(s).mode = s.mode /\ ObservedOf(s).armed = s.armed
        BY DEF TargetOf, ObservedOf
      <4>2. command \in Modes \/ command = "ARM" \/ command = "DISARM"
        BY <2>1 DEF Commands, ArmCommands
      <4>3. QED
        BY <3>1, <2>5, <4>1, <4>2 DEF Contract!CalledFor
    <3>8. command \in Contract!Commands \ {""}
      BY <2>6 DEF Contract!Commands, ArmCommands, FcuModes
    <3>9. spent' = [Contract!Left(again) EXCEPT ![command] = 1]
      BY <1>5, <2>1, <3>4, <3>5 DEF esp
    <3> HIDE DEF command
    <3>10. QED
      BY <3>1, <3>2, <3>4, <3>5, <3>6, <3>7, <3>8, <3>9 DEF Contract!Handle
  <2>10. QED
    BY <1>2, <1>4, <2>1, <2>3, <2>7, <2>8, <2>9
<1>9. QED
  BY <1>7, <1>8

-----------------------------------------------------------------------------
(* The handlers and the environment. *)

\* What a handler does, whatever it found; again says that the contract forgets.
Handled(again) ==
  /\ session' \in SessionRecords
  /\ intent' \in Intents
  /\ spent' \in [Commands -> Nat]
  /\ asked' \subseteq Commands
  /\ calls' \subseteq Calls
  /\ SessionInvariant'
  /\ Contract!Handle(again)

LEMMA HandledStep ==
  ASSUME TypeOK, NEW again \in BOOLEAN, Handled(again), UNCHANGED vehicle,
         answer' \in {answer, "none"}
  PROVE  TypeOK' /\ SessionInvariant' /\ Contract!Next
  BY DEF TypeOK, Handled, vehicle, Contract!Next

\* A blade test that goes on has its demand.
LEMMA TestingArms ==
  ASSUME SessionInvariant, Testing(intent)
  PROVE  session.wanted_arm
  BY DEF SessionInvariant, Testing, Arming, Emergencies

LEMMA SameSessionHandled ==
  ASSUME TypeOK, SessionInvariant, NEW i \in Intents, NEW services \in Services,
         Testing(i) => session.wanted_arm \/ ~Expired(session),
         Drive(session, i, FALSE, services)
  PROVE  Handled(FALSE)
<1>1. session \in SessionRecords /\ SessionInv(session, spent, asked)
  BY DEF TypeOK, SessionInvariant
<1>2. SessionInv(session, Zero, asked)
  BY <1>1, ZeroInv DEF TypeOK
<1>3. QED
  BY <1>1, <1>2, DriveStep DEF Handled

LEMMA ObservedHandled ==
  ASSUME TypeOK, SessionInvariant, NEW i \in Intents, NEW services \in Services,
         NEW connected \in BOOLEAN, NEW armed \in BOOLEAN, NEW mode \in Modes,
         i = intent \/ ~connected,
         Drive(Observe(session, connected, armed, mode), i, FALSE, services)
  PROVE  Handled(FALSE)
<1>1. session \in SessionRecords /\ SessionInv(session, spent, asked)
  BY DEF TypeOK, SessionInvariant
<1>2. PICK o : o = Observe(session, connected, armed, mode)
  OBVIOUS
<1>3. /\ o \in SessionRecords
      /\ TargetOf(o) = TargetOf(session)
      /\ SessionInv(o, Zero, asked)
      /\ ObservedOf(o) = ObservedOf(session) => SessionInv(o, spent, asked)
  BY <1>1, <1>2, ObserveType, ObserveInv DEF TypeOK
<1>4. Testing(i) => o.wanted_arm \/ ~Expired(o)
  <2>1. CASE i = intent
    BY <1>3, <2>1, TestingArms DEF TargetOf
  <2>2. CASE ~connected
    BY <1>1, <1>2, <2>2, ObserveOffline
  <2>3. QED
    BY <2>1, <2>2
<1>5. Drive(o, i, FALSE, services)
  BY <1>2
<1>6. QED
  BY <1>3, <1>4, <1>5, DriveStep DEF Handled

LEMMA SetIntentHandled ==
  ASSUME TypeOK, SessionInvariant, NEW i \in Intents, NEW services \in Services,
         SetIntent(i, services)
  PROVE  Handled(FALSE)
  BY SameSessionHandled DEF SetIntent

LEMMA TimerHandled ==
  ASSUME TypeOK, SessionInvariant, NEW services \in Services, Timer(services)
  PROVE  Handled(FALSE)
<1>1. intent \in Intents /\ (Testing(intent) => session.wanted_arm)
  BY TestingArms DEF TypeOK
<1>2. QED
  BY <1>1, SameSessionHandled DEF Timer

LEMMA SafetyRequestHandled ==
  ASSUME TypeOK, SessionInvariant, NEW hold \in BOOLEAN, NEW i \in Emergencies,
         NEW services \in Services, SafetyRequest(hold, i, services)
  PROVE  Handled(TRUE)
<1>1. /\ session \in SessionRecords /\ SessionInv(session, spent, asked)
      /\ spent \in [Commands -> Nat]
  BY DEF TypeOK, SessionInvariant
<1>2. PICK mode \in Modes : mode = IF hold THEN "HOLD" ELSE session.mode
  BY <1>1, SessionConstants DEF SessionRecords
<1>3. PICK d : d = Demand(session, mode, FALSE, TRUE)
  OBVIOUS
<1>4. d \in SessionRecords /\ SessionInv(d, Zero, asked)
  BY <1>1, <1>3, DemandType, DemandInv
<1>5. Drive(d, i, TRUE, services) /\ i \in Intents
  BY <1>2, <1>3 DEF SafetyRequest, Intents
<1>6. ~Testing(i)
  BY DEF Testing, Emergencies
<1>7. QED
  BY <1>4, <1>5, <1>6, DriveStep DEF Handled

LEMMA HeardHandled ==
  ASSUME TypeOK, SessionInvariant, NEW services \in Services, Heard(services)
  PROVE  Handled(FALSE)
<1>1. heartbeat.armed \in BOOLEAN /\ heartbeat.mode \in Modes /\ intent \in Intents
  BY DEF TypeOK, FcuStates, FcuModes
<1>2. Drive(Observe(session, TRUE, heartbeat.armed, heartbeat.mode), intent, FALSE, services)
  BY DEF Heard
<1>3. QED
  BY <1>1, <1>2, ObservedHandled

LEMMA LinkLostHandled ==
  ASSUME TypeOK, SessionInvariant, NEW blank \in BOOLEAN, NEW i \in Intents,
         LinkLost(blank, i)
  PROVE  Handled(FALSE)
<1>1. Everything \in Services
  BY SessionPlantAssumption
<1>2. CASE blank
  <2>1. Drive(Observe(session, FALSE, FALSE, ""), i, FALSE, Everything)
    BY <1>2 DEF LinkLost
  <2>2. "" \in Modes
    BY SessionConstants
  <2>3. QED
    BY <1>1, <2>1, <2>2, ObservedHandled
<1>3. CASE ~blank
  <2>1. Drive(Observe(session, FALSE, session.armed, session.mode), i, FALSE, Everything)
    BY <1>3 DEF LinkLost
  <2>2. session.armed \in BOOLEAN /\ session.mode \in Modes
    BY DEF TypeOK, SessionRecords
  <2>3. QED
    BY <1>1, <2>1, <2>2, ObservedHandled
<1>4. QED
  BY <1>2, <1>3

LEMMA CompleteHandled ==
  ASSUME TypeOK, SessionInvariant, NEW services \in Services, Complete(services)
  PROVE  Handled(FALSE)
<1>1. /\ session \in SessionRecords /\ SessionInv(session, spent, asked)
      /\ spent \in [Commands -> Nat] /\ intent \in Intents
  BY DEF TypeOK, SessionInvariant
<1>2. PICK accepted \in BOOLEAN : accepted = (answer = "accepted")
  OBVIOUS
<1>3. PICK c : c = Completed(session, session.pending.serial, accepted)
  OBVIOUS
<1>4. /\ c \in SessionRecords /\ SessionInv(c, spent, asked)
      /\ TargetOf(c) = TargetOf(session)
  BY <1>1, <1>3, CompletedType, CompletedInv, CompletedUntouched DEF Untouched
<1>5. SessionInv(c, Zero, asked)
  BY <1>1, <1>4, ZeroInv
<1>6. Drive(c, intent, FALSE, services)
  BY <1>2, <1>3 DEF Complete
<1>7. Testing(intent) => c.wanted_arm
  BY <1>4, TestingArms DEF TargetOf
<1>8. QED
  BY <1>1, <1>4, <1>5, <1>6, <1>7, DriveStep DEF Handled

LEMMA BladeTestEndsHandled ==
  ASSUME TypeOK, SessionInvariant, BladeTestEnds
  PROVE  Handled(FALSE)
<1>1. /\ session \in SessionRecords /\ SessionInv(session, spent, asked)
      /\ spent \in [Commands -> Nat] /\ asked \subseteq Commands /\ calls \subseteq Calls
      /\ session.wanted_arm
  BY TestingArms DEF TypeOK, SessionInvariant, BladeTestEnds
<1>2. SessionInv(session, Zero, asked)
  BY <1>1, ZeroInv
<1>3. PICK d : d = DemandWith(session, "Idle")
  OBVIOUS
<1>4. /\ d \in SessionRecords
      /\ SessionInv(d, Zero, asked)
      /\ ObservedOf(d) = ObservedOf(session)
      /\ ~d.safety_disarm
      /\ ~d.wanted_arm
  BY <1>1, <1>2, <1>3, IdleEffect
<1>5. session' = d /\ spent' = Zero /\ UNCHANGED <<asked, calls>> /\ intent' = "Idle"
  BY <1>3 DEF BladeTestEnds, Zero
<1>6. spent' \in [Commands -> Nat] /\ intent' \in Intents /\ ~Arming(intent')
  BY <1>5 DEF Zero, Intents, Arming
<1>7. SessionInvariant'
  BY <1>4, <1>5, <1>6 DEF SessionInvariant
<1>8. Contract!Handle(FALSE)
  <2>1. TargetOf(session)' = TargetOf(d) /\ ObservedOf(session)' = ObservedOf(d)
    BY <1>5 DEF TargetOf, ObservedOf
  <2>2. TargetOf(d) \in Contract!Targets /\ ObservedOf(d) \in Contract!Observations
    BY <1>4 DEF TargetOf, ObservedOf, Contract!Targets, Contract!Observations, SessionRecords
  <2>3. TargetOf(d) # TargetOf(session)
    BY <1>1, <1>4 DEF TargetOf
  <2>4. spent' = Contract!Left(FALSE)
    BY <1>5, <2>1, <2>3 DEF Contract!Left, Contract!Forgotten, Contract!Commands,
                            Zero, Commands, ArmCommands
  <2>5. QED
    BY <2>1, <2>2, <2>4 DEF Contract!Handle
<1>9. QED
  BY <1>1, <1>4, <1>5, <1>6, <1>7, <1>8 DEF Handled

LEMMA EnvironmentStep ==
  ASSUME TypeOK, SessionInvariant,
         \/ \E c \in calls : FcuApplies(c) \/ CommandFails(c) \/ ModeSent(c)
         \/ FcuReports \/ Pilot \/ ClockTick
  PROVE  TypeOK' /\ SessionInvariant' /\ UNCHANGED Contract!vars
<1>1. ASSUME NEW c \in calls, FcuApplies(c)
      PROVE  TypeOK' /\ UNCHANGED bridge
  <2>1. c.command \in FcuModes \cup ArmCommands
    BY <1>1 DEF TypeOK, Calls
  <2>2. fcu' \in FcuStates
    BY <1>1, <2>1 DEF FcuApplies, TypeOK, FcuStates
  <2>3. QED
    BY <1>1, <2>2 DEF FcuApplies, Answer, TypeOK, bridge
<1>2. ASSUME NEW c \in calls, CommandFails(c)
      PROVE  TypeOK' /\ UNCHANGED bridge
  BY <1>2 DEF CommandFails, Answer, TypeOK, bridge, vehicle
<1>3. ASSUME NEW c \in calls, ModeSent(c)
      PROVE  TypeOK' /\ UNCHANGED bridge
  BY <1>3 DEF ModeSent, TypeOK, bridge, vehicle
<1>4. ASSUME FcuReports
      PROVE  TypeOK' /\ UNCHANGED bridge
  BY <1>4 DEF FcuReports, TypeOK, bridge
<1>5. ASSUME Pilot
      PROVE  TypeOK' /\ UNCHANGED bridge
  BY <1>5 DEF Pilot, TypeOK, bridge
<1>6. ASSUME UNCHANGED bridge
      PROVE  SessionInvariant' /\ UNCHANGED Contract!vars
  BY <1>6 DEF bridge, SessionInvariant, Contract!vars
<1>7. ASSUME ClockTick
      PROVE  TypeOK' /\ SessionInvariant' /\ UNCHANGED Contract!vars
  <2>1. session \in SessionRecords /\ SessionInv(session, spent, asked)
    BY DEF TypeOK, SessionInvariant
  <2>2. /\ session' \in SessionRecords /\ SessionInv(session', spent, asked)
        /\ TargetOf(session') = TargetOf(session)
        /\ ObservedOf(session') = ObservedOf(session)
    BY <1>7, <2>1, AgedType, AgedInv DEF ClockTick, TypeOK, Untouched
  <2>3. QED
    BY <1>7, <2>2
    DEF ClockTick, vehicle, TypeOK, SessionInvariant, Contract!vars, TargetOf, ObservedOf
<1>8. QED
  BY <1>1, <1>2, <1>3, <1>4, <1>5, <1>6, <1>7

LEMMA KeptAnswer ==
  ASSUME KeepAnswer
  PROVE  answer' \in {answer, "none"}
  BY DEF KeepAnswer

\* Every step keeps the invariant, and is a step of the contract or a stutter of it.
LEMMA SessionStep ==
  ASSUME TypeOK, SessionInvariant, [Next]_vars
  PROVE  /\ TypeOK' /\ SessionInvariant'
         /\ Contract!Next \/ UNCHANGED Contract!vars
<1>1. ASSUME InputChanges
      PROVE  TypeOK' /\ SessionInvariant' /\ Contract!Next
  <2>1. ASSUME NEW blank \in BOOLEAN, NEW i \in Intents, LinkLost(blank, i)
        PROVE  TypeOK' /\ SessionInvariant' /\ Contract!Next
    BY <2>1, LinkLostHandled, HandledStep, KeptAnswer DEF LinkLost
  <2>2. ASSUME NEW services \in Services, NEW i \in Intents, SetIntent(i, services)
        PROVE  TypeOK' /\ SessionInvariant' /\ Contract!Next
    BY <2>2, SetIntentHandled, HandledStep, KeptAnswer DEF SetIntent
  <2>3. ASSUME NEW services \in Services, NEW hold \in BOOLEAN, NEW i \in Emergencies,
               SafetyRequest(hold, i, services)
        PROVE  TypeOK' /\ SessionInvariant' /\ Contract!Next
    BY <2>3, SafetyRequestHandled, HandledStep, KeptAnswer DEF SafetyRequest
  <2>4. ASSUME BladeTestEnds
        PROVE  TypeOK' /\ SessionInvariant' /\ Contract!Next
    BY <2>4, BladeTestEndsHandled, HandledStep DEF BladeTestEnds
  <2>5. QED
    BY <1>1, <2>1, <2>2, <2>3, <2>4 DEF InputChanges
<1>2. ASSUME NEW services \in Services, Timer(services)
      PROVE  TypeOK' /\ SessionInvariant' /\ Contract!Next
  BY <1>2, TimerHandled, HandledStep, KeptAnswer DEF Timer
<1>3. ASSUME NEW services \in Services, Heard(services)
      PROVE  TypeOK' /\ SessionInvariant' /\ Contract!Next
  BY <1>3, HeardHandled, HandledStep, KeptAnswer DEF Heard
<1>4. ASSUME NEW services \in Services, Complete(services)
      PROVE  TypeOK' /\ SessionInvariant' /\ Contract!Next
  BY <1>4, CompleteHandled, HandledStep DEF Complete
<1>5. CASE UNCHANGED vars
  BY <1>5 DEF vars, TypeOK, SessionInvariant, Contract!vars
<1>6. QED
  BY <1>1, <1>2, <1>3, <1>4, <1>5, EnvironmentStep DEF Next, NextAlone, FcuProcesses

LEMMA SessionStart ==
  ASSUME Init
  PROVE  TypeOK /\ SessionInvariant /\ Contract!Init
<1>1. SessionInitial \in SessionRecords
  BY SessionConstants DEF SessionInitial, SessionRecords
<1>2. spent \in [Commands -> Nat] /\ \A w \in Commands : ~(spent[w] > 0)
  BY DEF Init
<1>3. TypeOK
  BY <1>1, <1>2 DEF Init, TypeOK, Intents
<1>4. SessionInvariant
  BY <1>2, SessionConstants
  DEF Init, SessionInvariant, SessionInv, SessionInitial, NoPending, Pending, Commands,
      ArmCommands, Arming
<1>5. Contract!Init
  BY DEF Init, Contract!Init, SessionInitial, TargetOf, ObservedOf, Contract!Commands,
         Commands, ArmCommands
<1>6. QED
  BY <1>3, <1>4, <1>5

-----------------------------------------------------------------------------
(* Theorems. *)

\* The records of the sequencer and the bridge's bookkeeping keep their types for any
\* modes, any supply of serials and any confirmation time.
THEOREM SessionInvariance == Spec => [](TypeOK /\ SessionInvariant)
<1>1. Init => TypeOK /\ SessionInvariant
  BY SessionStart
<1>2. TypeOK /\ SessionInvariant /\ [Next]_vars => (TypeOK /\ SessionInvariant)'
  BY SessionStep
<1>3. QED
  BY <1>1, <1>2, PTL DEF Spec

\* TypeOK alone, as the run checks it.
THEOREM SessionTypeCorrect == Spec => []TypeOK
  BY SessionInvariance, PTL

\* A latched failure is the failure of the command that the current target calls for.
THEOREM FailureStaysOwn == Spec => []FailureIsOwn
<1>1. TypeOK /\ SessionInvariant => FailureIsOwn
  BY DEF SessionInvariant, SessionInv, FailureIsOwn
<1>2. QED
  BY <1>1, SessionInvariance, PTL

\* No ARM is pending from the first step of an emergency to its last.
THEOREM EmergencyLeavesNoArm == Spec => []EmergencyRetiresArm
<1>1. TypeOK /\ SessionInvariant => EmergencyRetiresArm
  BY DEF SessionInvariant, SessionInv, EmergencyRetiresArm
<1>2. QED
  BY <1>1, SessionInvariance, PTL

\* The sequencer, driven by the bridge against an FCU that loses, delays and reorders
\* what it is given, implements the contract: commands that are called for, and none
\* repeated without a change.
THEOREM ImplementsContract == Spec => KeepsContract
<1>1. Init => Contract!Init
  BY SessionStart
<1>2. TypeOK /\ SessionInvariant /\ [Next]_vars => [Contract!Next]_(Contract!vars)
  BY SessionStep
<1>3. QED
  BY <1>1, <1>2, SessionInvariance, PTL DEF Spec, KeepsContract, Contract!Spec
=============================================================================
