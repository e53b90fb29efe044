--------------------------- MODULE StageAgentsProofs ---------------------------
(***************************************************************************)
(* Proofs about StageAgents for any slots, any parallelism, every          *)
(* configuration of containers, grace and continuation, and all bounds:    *)
(* the Tracker's interval covers the turns' processes and containers, and  *)
(* every turn has exactly one result.                                      *)
(***************************************************************************)
EXTENDS StageAgents, FiniteSetTheorems, SequenceTheorems, TLAPS

\* Where a call blocks for an acknowledgment.
Waiting == {"opening", "closing", "ending"}
Living == {"running", "rootless", "quiet"}
LastIsBegin == log # <<>> /\ log[Len(log)] = "begin"

Calls == [op : {"none", "start", "stop", "wait"}, slot : Slots, at : Places,
          todo : SUBSET Slots, cur : Slots, flag : BOOLEAN]

Types ==
  /\ call \in Calls
  /\ active \subseteq Slots
  /\ turn \in [Slots -> {"none", "running", "rootless", "quiet", "gone"}]
  /\ box \subseteq Slots
  /\ log \in Seq({"begin", "end"})
  /\ exhausted \in BOOLEAN

\* The Tracker's interval is what its last frame said.
TrackInv ==
  /\ applied \in 0 .. Len(log)
  /\ wire \subseteq 1 .. Len(log)
  /\ open = (applied # 0 /\ log[applied] = "begin")

\* Only active turns have processes and containers.
AliveInv ==
  /\ \A s \in Slots : turn[s] \in Living => s \in active
  /\ box \subseteq active

\* What holds where the call is.
PlaceInv ==
  /\ call.at \notin Waiting => applied = Len(log)
  /\ call.at \in Waiting => active = {}
  /\ (active # {} \/ call.at \in {"opening", "launching"}) => LastIsBegin
  /\ call.at = "launching" /\ call.flag => active = {}
  /\ call.todo \subseteq active
  /\ call.at \in {"reaping", "removing"} => call.cur \in active \ call.todo
  /\ call.at = "removing" => turn[call.cur] = "gone" \/ call.cur \in dead
  /\ call.at = "grace" => call.slot \in active

SInv == Types /\ TrackInv /\ AliveInv /\ PlaceInv
-----------------------------------------------------------------------------
\* A new frame leaves what the Tracker knows as it is.
LEMMA ReportStep ==
  ASSUME log \in Seq({"begin", "end"}), TrackInv,
         NEW event \in {"begin", "end"}, Report(event), UNCHANGED <<applied, open>>
  PROVE  TrackInv' /\ log' \in Seq({"begin", "end"}) /\ (LastIsBegin' <=> event = "begin")
<1>1. log' = Append(log, event) /\ wire' = wire \cup {Len(log) + 1}
  BY DEF Report
<1>2. /\ log' \in Seq({"begin", "end"})
      /\ Len(log') = Len(log) + 1 /\ Len(log) \in Nat
      /\ log'[Len(log) + 1] = event
      /\ \A i \in 1 .. Len(log) : log'[i] = log[i]
  BY <1>1
<1>3. open' = (applied' # 0 /\ log'[applied'] = "begin")
  BY <1>2 DEF TrackInv
<1>4. applied' \in 0 .. Len(log')
  BY <1>2 DEF TrackInv
<1>5. wire' \subseteq 1 .. Len(log')
  <2>1. 1 .. Len(log') = 1 .. Len(log) \cup {Len(log) + 1}
    BY <1>2
  <2> QED
    BY <1>1, <2>1 DEF TrackInv
<1>6. LastIsBegin' <=> event = "begin"
  BY <1>2 DEF LastIsBegin
<1> QED
  BY <1>2, <1>3, <1>4, <1>5, <1>6 DEF TrackInv

\* A step of the call that leaves everything around it alone.
LEMMA MoveOn ==
  ASSUME SInv, call' \in Calls, PlaceInv', box' \subseteq box,
         UNCHANGED <<active, turn, dead, log, wire, applied, open, exhausted>>
  PROVE  SInv'
<1>1. Types'
  BY DEF SInv, Types
<1>2. TrackInv'
  BY DEF SInv, TrackInv
<1>3. AliveInv'
  BY DEF SInv, AliveInv
<1> QED
  BY <1>1, <1>2, <1>3 DEF SInv

LEMMA IdleCall == Idle \in Calls /\ Idle.at = "idle" /\ Idle.todo = {}
<1>1. PICK s \in Slots : TRUE
  BY StageAssumption
<1>2. (CHOOSE t \in Slots : TRUE) \in Slots
  BY <1>1
<1> QED
  BY <1>2 DEF Idle, Calls, Places

LEMMA InitSInv == Init => SInv
<1> SUFFICES ASSUME Init PROVE SInv
  OBVIOUS
<1>3. Types
  <2>1. call \in Calls
    BY IdleCall DEF Init
  <2>2. turn \in [Slots -> {"none", "running", "rootless", "quiet", "gone"}]
    BY DEF Init
  <2>3. log \in Seq({"begin", "end"})
    BY DEF Init
  <2> QED
    BY <2>1, <2>2, <2>3 DEF Init, Types
<1>4. TrackInv
  <2>1. Len(log) = 0 /\ applied = 0 /\ wire = {} /\ open = FALSE
    BY DEF Init
  <2>2. applied \in 0 .. Len(log) /\ wire \subseteq 1 .. Len(log)
    BY <2>1
  <2> QED
    BY <2>1, <2>2 DEF TrackInv
<1>5. AliveInv
  BY DEF Init, AliveInv, Living
<1>6. PlaceInv
  BY DEF Init, PlaceInv, Idle, Waiting, LastIsBegin
<1> QED
  BY <1>3, <1>4, <1>5, <1>6 DEF SInv

\* A call may return wherever nothing is unacknowledged.
LEMMA MayReturn ==
  ASSUME SInv, call.at \notin Waiting \/ Acknowledged,
         Return,
         box' \subseteq box,
         UNCHANGED <<active, turn, dead, log, wire, applied, open, exhausted>>
  PROVE  SInv'
<1>1. call' = Idle
  BY DEF Return
<1>2. call' \in Calls /\ call'.at = "idle" /\ call'.todo = {}
  BY <1>1, IdleCall
<1>3. PlaceInv'
  BY <1>2 DEF PlaceInv, SInv, Waiting, Acknowledged, LastIsBegin
<1> QED
  BY <1>2, <1>3, MoveOn

\* The call goes to a place at which it holds no turn and awaits no frame.
LEMMA MayGo ==
  ASSUME SInv, NEW place \in {"sweep", "decide", "taking"},
         call.at \notin Waiting \cup {"opening", "launching"},
         Go(place),
         UNCHANGED <<active, turn, dead, box, log, wire, applied, open, exhausted>>
  PROVE  SInv'
<1>1. call' = [call EXCEPT !.at = place]
  BY DEF Go
<1>2. /\ call' \in Calls /\ call'.at = place
      /\ call'.todo = call.todo /\ call'.slot = call.slot
  BY <1>1 DEF SInv, Types, Calls, Places
<1>3. PlaceInv'
  BY <1>2 DEF PlaceInv, SInv, Waiting, LastIsBegin
<1> QED
  BY <1>2, <1>3, MoveOn

\* The loop of _exhaust_all, or of the collection, over the active slots.
LEMMA SweepAll ==
  ASSUME SInv, call.at \notin Waiting \cup {"opening", "launching"},
         call' = [call EXCEPT !.at = "sweep", !.todo = active],
         UNCHANGED <<active, turn, dead, box, log, wire, applied, open, exhausted>>
  PROVE  SInv'
<1>1. call' \in Calls /\ call'.at = "sweep" /\ call'.todo = active
  BY DEF SInv, Types, Calls, Places
<1>2. PlaceInv'
  BY <1>1 DEF PlaceInv, SInv, Waiting, LastIsBegin
<1> QED
  BY <1>1, <1>2, MoveOn

\* _exhaust_all, whether it goes through or raises.
LEMMA ExhaustStep ==
  ASSUME SInv, call.at \notin Waiting \cup {"opening", "launching"}, ExhaustAll,
         UNCHANGED <<active, turn, dead, box, log, wire, applied, open, exhausted>>
  PROVE  SInv'
<1>1. CASE Return
  BY <1>1, MayReturn
<1>2. CASE call' = [call EXCEPT !.at = "sweep", !.todo = active]
  BY <1>2, SweepAll
<1> QED
  BY <1>1, <1>2 DEF ExhaustAll

\* _complete is called for an active slot only.
LEMMA CompleteStep ==
  ASSUME SInv, NEW s \in active, NEW why, Complete(s, why),
         call.at \in {"sweep", "decide", "grace"},
         UNCHANGED <<active, turn, dead, box, log, wire, applied, open, exhausted>>
  PROVE  SInv'
<1>1. CASE Return
  BY <1>1, MayReturn DEF Waiting
<1>2. CASE call' = [call EXCEPT !.at = "reaping", !.cur = s, !.todo = @ \ {s}]
  <2>1. /\ call' \in Calls /\ call'.at = "reaping" /\ call'.cur = s
        /\ call'.todo = call.todo \ {s}
    BY <1>2 DEF SInv, Types, Calls, Places
  <2>2. PlaceInv'
    BY <2>1 DEF PlaceInv, SInv, Waiting, LastIsBegin
  <2> QED
    BY <2>1, <2>2, MoveOn
<1> QED
  BY <1>1, <1>2 DEF Complete
-----------------------------------------------------------------------------
\* The turns' processes, the Tracker and the frames preserve the invariant.
LEMMA WorldStep ==
  ASSUME SInv,
         \/ \E s \in Slots :
              \/ RootExits(s) \/ GroupEmpties(s) \/ OwnerDrains(s)
              \/ OwnerDies(s) \/ OrphansEnd(s) \/ BoxStarts(s)
         \/ \E n \in 1 .. Len(log) : Apply(n) \/ LoseFrame(n)
         \/ SendAgain \/ Exhaust
  PROVE  SInv'
<1>0. Types /\ TrackInv /\ AliveInv /\ PlaceInv
  BY DEF SInv
<1>1. ASSUME NEW s \in Slots,
             RootExits(s) \/ GroupEmpties(s) \/ OwnerDrains(s) \/ OrphansEnd(s)
      PROVE  SInv'
  <2>0. PICK next \in {"rootless", "quiet", "gone"} :
          /\ turn' = [turn EXCEPT ![s] = next]
          /\ next # "gone" => turn[s] \in Living
          /\ turn[s] = "gone" => next = "gone"
    BY <1>1 DEF RootExits, GroupEmpties, OwnerDrains, OrphansEnd, Living
  <2>1. UNCHANGED <<call, active, dead, box, log, wire, applied, open, exhausted>>
    BY <1>1 DEF RootExits, GroupEmpties, OwnerDrains, OrphansEnd, agentVars, trackerVars
  <2>2. turn' \in [Slots -> {"none", "running", "rootless", "quiet", "gone"}]
    BY <2>0, <1>0 DEF Types
  <2>3. Types'
    BY <1>0, <2>1, <2>2 DEF Types
  <2>4. TrackInv'
    BY <1>0, <2>1 DEF TrackInv
  <2>5. AliveInv'
    <3>1. ASSUME NEW t \in Slots, turn'[t] \in Living PROVE t \in active
      <4>1. turn[t] \in Living
        BY <3>1, <2>0, <1>0 DEF Types, Living
      <4> QED
        BY <4>1, <1>0 DEF AliveInv
    <3> QED
      BY <3>1, <2>1, <1>0 DEF AliveInv
  <2>6. call.at = "removing" => turn'[call.cur] = "gone" \/ call.cur \in dead
    <3>1. call.cur \in Slots
      BY <1>0 DEF Types, Calls
    <3> QED
      BY <3>1, <2>0, <1>0 DEF PlaceInv, Types
  <2>7. PlaceInv'
    BY <1>0, <2>1, <2>6 DEF PlaceInv, LastIsBegin
  <2> QED
    BY <2>3, <2>4, <2>5, <2>7 DEF SInv
<1>2. ASSUME NEW s \in Slots, BoxStarts(s) PROVE SInv'
  <2>1. /\ UNCHANGED <<call, active, turn, dead, stray, log, wire, applied, open, exhausted>>
        /\ box' = box \cup {s} /\ turn[s] = "running"
    BY <1>2 DEF BoxStarts, agentVars, trackerVars
  <2>2. s \in active
    BY <2>1, <1>0 DEF AliveInv, Living
  <2>3. Types' /\ AliveInv'
    BY <1>0, <2>1, <2>2 DEF Types, AliveInv
  <2>4. TrackInv' /\ PlaceInv'
    BY <1>0, <2>1 DEF TrackInv, PlaceInv, LastIsBegin
  <2> QED
    BY <2>3, <2>4 DEF SInv
<1>3. ASSUME NEW n \in 1 .. Len(log), Apply(n) PROVE SInv'
  <2>1. UNCHANGED <<call, active, turn, dead, box, log, exhausted>>
        /\ wire' = wire \ {n}
    BY <1>3 DEF Apply, agentVars, worldVars
  <2>2. applied' \in {applied, n} /\ applied' \in 0 .. Len(log)
        /\ (applied = Len(log) => applied' = Len(log))
        /\ open' = (applied' # 0 /\ log[applied'] = "begin")
    <3>1. CASE n = applied + 1
      BY <3>1, <1>3, <1>0 DEF Apply, TrackInv, Types
    <3>2. CASE n # applied + 1
      BY <3>2, <1>3, <1>0 DEF Apply, TrackInv
    <3> QED
      BY <3>1, <3>2
  <2>3. TrackInv'
    BY <1>0, <2>1, <2>2 DEF TrackInv
  <2>4. Types' /\ AliveInv'
    BY <1>0, <2>1 DEF Types, AliveInv
  <2>5. PlaceInv'
    BY <1>0, <2>1, <2>2 DEF PlaceInv, LastIsBegin
  <2> QED
    BY <2>3, <2>4, <2>5 DEF SInv
<1>4. ASSUME NEW s \in Slots, OwnerDies(s) PROVE SInv'
  <2>1. /\ UNCHANGED <<call, active, turn, box, log, wire, applied, open, exhausted>>
        /\ dead \subseteq dead'
    BY <1>4 DEF OwnerDies, agentVars, trackerVars
  <2>2. Types' /\ TrackInv' /\ AliveInv'
    BY <1>0, <2>1 DEF Types, TrackInv, AliveInv
  <2>3. PlaceInv'
    BY <1>0, <2>1 DEF PlaceInv, LastIsBegin
  <2> QED
    BY <2>2, <2>3 DEF SInv
<1>5. ASSUME \/ \E n \in 1 .. Len(log) : LoseFrame(n)
             \/ SendAgain
             \/ Exhaust
      PROVE SInv'
  <2>1. /\ UNCHANGED <<call, active, turn, dead, box, log, applied, open>>
        /\ exhausted' \in BOOLEAN /\ (exhausted => exhausted')
    BY <1>5, <1>0 DEF LoseFrame, SendAgain, Exhaust, agentVars, worldVars, Types
  <2>2. wire' \subseteq 1 .. Len(log)
    <3>1. CASE \E n \in 1 .. Len(log) : LoseFrame(n)
      BY <3>1, <1>0 DEF LoseFrame, TrackInv
    <3>2. CASE Exhaust
      BY <3>2, <1>0 DEF Exhaust, TrackInv
    <3>3. CASE SendAgain
      <4>1. wire' = wire \cup {Len(log)} /\ applied # Len(log)
        BY <3>3 DEF SendAgain, Acknowledged
      <4>2. Len(log) \in 1 .. Len(log)
        BY <4>1, <1>0 DEF TrackInv, Types
      <4> QED
        BY <4>1, <4>2, <1>0 DEF TrackInv
    <3> QED
      BY <3>1, <3>2, <3>3, <1>5
  <2>3. TrackInv'
    BY <1>0, <2>1, <2>2 DEF TrackInv
  <2>4. Types' /\ AliveInv'
    BY <1>0, <2>1 DEF Types, AliveInv
  <2>5. PlaceInv'
    BY <1>0, <2>1 DEF PlaceInv, LastIsBegin
  <2> QED
    BY <2>3, <2>4, <2>5 DEF SInv
<1> QED
  BY <1>1, <1>2, <1>3, <1>4, <1>5
-----------------------------------------------------------------------------
\* A call begins, and collects.
LEMMA CallBegins ==
  ASSUME SInv, \/ \E op \in {"start", "stop", "wait"}, s \in Slots : Call(op, s)
               \/ Collect \/ Swept
               \/ \E s \in Slots : Visit(s)
  PROVE  SInv'
<1>0. Types /\ TrackInv /\ AliveInv /\ PlaceInv
  BY DEF SInv
<1>1. ASSUME NEW op \in {"start", "stop", "wait"}, NEW s \in Slots, Call(op, s) PROVE SInv'
  <2>1. /\ UNCHANGED <<active, turn, dead, box, log, wire, applied, open, exhausted>>
        /\ call' = [Idle EXCEPT !.op = op, !.slot = s, !.at = "collect", !.flag = s \in active]
        /\ call.at = "idle"
    BY <1>1 DEF Call, At, agentVars, worldVars, trackerVars
  <2>2. call' \in Calls /\ call'.at = "collect" /\ call'.todo = {}
    <3>1. (s \in active) = TRUE \/ (s \in active) = FALSE
      OBVIOUS
    <3> DEFINE flag == s \in active
    <3>2. call' = [Idle EXCEPT !.op = op, !.slot = s, !.at = "collect", !.flag = flag]
      BY <2>1
    <3>3. flag \in BOOLEAN
      BY <3>1
    <3> HIDE DEF flag
    <3> QED
      BY <3>2, <3>3, IdleCall DEF Calls, Places
  <2>3. PlaceInv'
    BY <1>0, <2>1, <2>2 DEF PlaceInv, Waiting, LastIsBegin
  <2> QED
    BY <2>1, <2>2, <2>3, MoveOn
<1>2. CASE Collect
  <2>1. /\ UNCHANGED <<active, turn, dead, box, log, wire, applied, open, exhausted>>
        /\ ExhaustAll \/ call' = [call EXCEPT !.at = "sweep", !.todo = active]
        /\ call.at = "collect"
    BY <1>2 DEF Collect, At, worldVars, trackerVars
  <2> QED
    BY <2>1, SweepAll, ExhaustStep DEF Waiting
<1>3. CASE Swept
  <2>1. /\ UNCHANGED <<active, turn, dead, box, log, wire, applied, open, exhausted>>
        /\ Go("decide") /\ call.at = "sweep"
    BY <1>3 DEF Swept, At, agentVars, worldVars, trackerVars
  <2> QED
    BY <2>1, MayGo DEF Waiting
<1>4. ASSUME NEW s \in Slots, Visit(s) PROVE SInv'
  <2>1. /\ UNCHANGED <<active, turn, dead, box, log, wire, applied, open, exhausted>>
        /\ call.at = "sweep" /\ s \in active
    BY <1>4, <1>0 DEF Visit, At, worldVars, trackerVars, PlaceInv
  <2>2. CASE call' = [call EXCEPT !.todo = @ \ {s}]
    <3>1. /\ call' \in Calls /\ call'.at = "sweep"
          /\ call'.todo \subseteq call.todo
      BY <2>1, <2>2, <1>0 DEF Types, Calls
    <3>2. PlaceInv'
      BY <1>0, <2>1, <3>1 DEF PlaceInv, Waiting, LastIsBegin
    <3> QED
      BY <2>1, <3>1, <3>2, MoveOn
  <2>3. CASE Complete(s, "exited")
    BY <2>1, <2>3, CompleteStep
  <2>4. CASE Return
    BY <2>1, <2>4, MayReturn DEF Waiting
  <2> QED
    BY <1>4, <2>2, <2>3, <2>4 DEF Visit
<1> QED
  BY <1>1, <1>2, <1>3, <1>4

\* A turn is completed: END is reported only after its processes and its
\* container are gone, and when it was the last.
LEMMA Completes ==
  ASSUME SInv, Reap \/ Remove \/ RemovalFails \/ Ended \/ Copy \/ CopyFails
  PROVE  SInv'
<1>0. Types /\ TrackInv /\ AliveInv /\ PlaceInv
  BY DEF SInv
<1>1. CASE Reap
  <2>1. /\ UNCHANGED <<active, turn, dead, box, log, wire, applied, open, exhausted>>
        /\ call' = [call EXCEPT !.at = "removing"]
        /\ call.at = "reaping" /\ (turn[call.cur] = "gone" \/ call.cur \in dead)
    BY <1>1 DEF Reap, At, Go, agentVars, worldVars, trackerVars
  <2>2. /\ call' \in Calls /\ call'.at = "removing"
        /\ call'.todo = call.todo /\ call'.cur = call.cur
    BY <2>1, <1>0 DEF Types, Calls, Places
  <2>3. PlaceInv'
    BY <1>0, <2>1, <2>2 DEF PlaceInv, Waiting, LastIsBegin
  <2> QED
    BY <2>1, <2>2, <2>3, MoveOn
<1>2. CASE Remove /\ call.cur \in dead
  <2>1. /\ UNCHANGED <<active, turn, dead, log, wire, applied, open, exhausted>>
        /\ box' \subseteq box /\ Return /\ call.at = "removing"
    BY <1>2 DEF Remove, At, agentVars
  <2> QED
    BY <2>1, MayReturn DEF Waiting
<1>3. CASE Remove /\ call.cur \notin dead
  <2>1. /\ UNCHANGED <<turn, applied, open, exhausted>>
        /\ box' = box \ {call.cur} /\ active' = active \ {call.cur}
        /\ call.at = "removing"
    BY <1>3 DEF Remove, Deactivate, At
  <2>2. /\ call.cur \in active \ call.todo /\ turn[call.cur] = "gone"
        /\ applied = Len(log) /\ LastIsBegin
    BY <1>3, <2>1, <1>0 DEF PlaceInv, Waiting
  <2>3. AliveInv'
    <3>1. ASSUME NEW s \in Slots, turn'[s] \in Living PROVE s \in active'
      BY <3>1, <2>1, <2>2, <1>0 DEF AliveInv, Living
    <3> QED
      BY <3>1, <2>1, <1>0 DEF AliveInv
  <2>4. CASE active' = {}
    <3>1. Report("end") /\ call' = [call EXCEPT !.at = "ending"]
      BY <1>3, <2>4 DEF Remove, Deactivate, Go
    <3>2. TrackInv' /\ log' \in Seq({"begin", "end"})
      BY <3>1, <2>1, <1>0, ReportStep DEF Types
    <3>3. /\ call' \in Calls /\ call'.at = "ending"
          /\ call'.todo = call.todo
      BY <3>1, <1>0 DEF Types, Calls, Places
    <3>4. Types'
      BY <3>2, <3>3, <2>1, <1>0 DEF Types
    <3>5. call.todo \subseteq active'
      BY <2>1, <2>2, <1>0 DEF PlaceInv
    <3>6. PlaceInv'
      BY <3>3, <3>5, <2>4 DEF PlaceInv, Waiting
    <3> QED
      BY <3>2, <3>4, <3>6, <2>3 DEF SInv
  <2>5. CASE active' # {}
    <3>1. UNCHANGED <<log, wire>> /\ call' = [call EXCEPT !.at = "copying"]
      BY <1>3, <2>5 DEF Remove, Deactivate, Go
    <3>2. TrackInv'
      BY <3>1, <2>1, <1>0 DEF TrackInv
    <3>3. /\ call' \in Calls /\ call'.at = "copying"
          /\ call'.todo = call.todo
      BY <3>1, <1>0 DEF Types, Calls, Places
    <3>4. Types'
      BY <3>1, <3>3, <2>1, <1>0 DEF Types
    <3>5. call.todo \subseteq active'
      BY <2>1, <2>2, <1>0 DEF PlaceInv
    <3>6. PlaceInv'
      BY <3>1, <3>3, <3>5, <2>1, <2>2 DEF PlaceInv, Waiting, LastIsBegin
    <3> QED
      BY <3>2, <3>4, <3>6, <2>3 DEF SInv
  <2> QED
    BY <2>4, <2>5
<1>4. CASE RemovalFails
  <2>1. /\ UNCHANGED <<active, turn, dead, log, wire, applied, open, exhausted>>
        /\ box' \subseteq box /\ Return /\ call.at = "removing"
    BY <1>4 DEF RemovalFails, At, agentVars, trackerVars
  <2> QED
    BY <2>1, MayReturn DEF Waiting
<1>5. CASE Ended
  <2>1. /\ UNCHANGED <<active, turn, dead, box, log, wire, applied, open, exhausted>>
        /\ call' = [call EXCEPT !.at = "copying"]
        /\ call.at = "ending" /\ applied = Len(log)
    BY <1>5 DEF Ended, At, Go, Acknowledged, agentVars, worldVars, trackerVars
  <2>2. call' \in Calls /\ call'.at = "copying" /\ call'.todo = call.todo
    BY <2>1, <1>0 DEF Types, Calls, Places
  <2>3. PlaceInv'
    BY <1>0, <2>1, <2>2 DEF PlaceInv, Waiting, LastIsBegin
  <2> QED
    BY <2>1, <2>2, <2>3, MoveOn
<1>6. CASE Copy
  <2>1. /\ UNCHANGED <<active, turn, dead, box, log, wire, applied, open, exhausted>>
        /\ Go("sweep") /\ call.at = "copying"
    BY <1>6 DEF Copy, At, worldVars, trackerVars
  <2> QED
    BY <2>1, MayGo DEF Waiting
<1>7. CASE CopyFails
  <2>1. /\ UNCHANGED <<active, turn, dead, box, log, wire, applied, open, exhausted>>
        /\ Return /\ call.at = "copying"
    BY <1>7 DEF CopyFails, At, agentVars, worldVars, trackerVars
  <2> QED
    BY <2>1, MayReturn DEF Waiting
<1> QED
  BY <1>1, <1>2, <1>3, <1>4, <1>5, <1>6, <1>7

\* The rest of start: BEGIN is reported when nothing is active, and a failed
\* launch closes only the interval it opened.
LEMMA Starts ==
  ASSUME SInv, Admit \/ Opened \/ Launch \/ LaunchFails \/ Closed \/ LaunchLost
  PROVE  SInv'
<1>0. Types /\ TrackInv /\ AliveInv /\ PlaceInv
  BY DEF SInv
<1>1. CASE Admit
  <2>0. /\ UNCHANGED <<active, turn, dead, box, applied, open, exhausted>>
        /\ call.at = "decide"
    BY <1>1 DEF Admit, At, worldVars
  <2>1. CASE ExhaustAll /\ UNCHANGED <<log, wire>>
    BY <2>0, <2>1, ExhaustStep DEF Waiting
  <2>2. CASE Return /\ UNCHANGED <<log, wire>>
    BY <2>0, <2>2, MayReturn DEF Waiting
  <2>3. CASE /\ call' = [call EXCEPT !.flag = (active = {}),
                              !.at = IF active = {} THEN "opening" ELSE "launching"]
             /\ IF active = {} THEN Report("begin") ELSE UNCHANGED <<log, wire>>
    <3>1. /\ call' \in Calls /\ call'.todo = call.todo
          /\ call'.at = IF active = {} THEN "opening" ELSE "launching"
          /\ call'.flag = (active = {})
      BY <2>3, <1>0 DEF Types, Calls, Places
    <3>2. CASE active = {}
      <4>1. TrackInv' /\ log' \in Seq({"begin", "end"}) /\ LastIsBegin'
        BY <2>0, <2>3, <3>2, <1>0, ReportStep DEF Types
      <4>2. Types' /\ AliveInv'
        BY <4>1, <2>0, <3>1, <1>0 DEF Types, AliveInv
      <4>3. PlaceInv'
        BY <4>1, <2>0, <3>1, <3>2, <1>0 DEF PlaceInv, Waiting
      <4> QED
        BY <4>1, <4>2, <4>3 DEF SInv
    <3>3. CASE active # {}
      <4>1. UNCHANGED <<log, wire>>
        BY <2>3, <3>3
      <4>2. PlaceInv'
        BY <4>1, <2>0, <3>1, <3>3, <1>0 DEF PlaceInv, Waiting, LastIsBegin
      <4> QED
        BY <4>1, <4>2, <2>0, <3>1, MoveOn
    <3> QED
      BY <3>2, <3>3
  <2> QED
    BY <1>1, <2>1, <2>2, <2>3 DEF Admit
<1>2. CASE Opened
  <2>1. /\ UNCHANGED <<active, turn, dead, box, log, wire, applied, open, exhausted>>
        /\ Return \/ Go("launching")
        /\ call.at = "opening" /\ Acknowledged
    BY <1>2 DEF Opened, At, agentVars, worldVars, trackerVars
  <2>2. CASE Return
    BY <2>1, <2>2, MayReturn
  <2>3. CASE Go("launching")
    <3>1. call' \in Calls /\ call'.at = "launching" /\ call'.todo = call.todo
      BY <2>3, <1>0 DEF Go, Types, Calls, Places
    <3>2. PlaceInv'
      BY <1>0, <2>1, <3>1 DEF PlaceInv, Waiting, LastIsBegin, Acknowledged
    <3> QED
      BY <2>1, <3>1, <3>2, MoveOn
  <2> QED
    BY <2>1, <2>2, <2>3
<1>3. CASE Launch
  <2>1. /\ UNCHANGED <<box, log, wire, applied, open, exhausted>>
        /\ active' = active \cup {call.slot}
        /\ turn' = [turn EXCEPT ![call.slot] = "running"]
        /\ call' = Idle /\ call.at = "launching"
    BY <1>3 DEF Launch, At, Return, trackerVars
  <2>2. call.slot \in Slots
    BY <1>0 DEF Types, Calls
  <2>3. Types'
    BY <2>1, <2>2, <1>0, IdleCall DEF Types
  <2>4. TrackInv'
    BY <2>1, <1>0 DEF TrackInv
  <2>5. AliveInv'
    <3>1. ASSUME NEW s \in Slots, turn'[s] \in Living PROVE s \in active'
      <4>1. CASE s = call.slot
        BY <4>1, <2>1
      <4>2. CASE s # call.slot
        BY <4>2, <3>1, <2>1, <1>0 DEF AliveInv, Types
      <4> QED
        BY <4>1, <4>2
    <3> QED
      BY <3>1, <2>1, <1>0 DEF AliveInv
  <2>6. PlaceInv'
    BY <2>1, <1>0, IdleCall DEF PlaceInv, Waiting, LastIsBegin
  <2> QED
    BY <2>3, <2>4, <2>5, <2>6 DEF SInv
<1>4. CASE LaunchFails
  <2>1. /\ UNCHANGED <<active, turn, dead, box, applied, open, exhausted>>
        /\ call.at = "launching"
    BY <1>4 DEF LaunchFails, At, agentVars, worldVars
  <2>2. CASE call.flag
    <3>1. Report("end") /\ call' = [call EXCEPT !.at = "closing"]
      BY <1>4, <2>2 DEF LaunchFails, Go
    <3>2. active = {}
      BY <2>1, <2>2, <1>0 DEF PlaceInv
    <3>3. TrackInv' /\ log' \in Seq({"begin", "end"})
      BY <3>1, <2>1, <1>0, ReportStep DEF Types
    <3>4. call' \in Calls /\ call'.at = "closing" /\ call'.todo = call.todo
      BY <3>1, <1>0 DEF Types, Calls, Places
    <3>5. Types' /\ AliveInv'
      BY <3>3, <3>4, <2>1, <1>0 DEF Types, AliveInv
    <3>6. PlaceInv'
      BY <3>2, <3>4, <2>1, <1>0 DEF PlaceInv, Waiting
    <3> QED
      BY <3>3, <3>5, <3>6 DEF SInv
  <2>3. CASE ~ call.flag
    <3>1. Return /\ UNCHANGED <<log, wire>>
      BY <1>4, <2>3 DEF LaunchFails
    <3> QED
      BY <3>1, <2>1, MayReturn DEF Waiting
  <2> QED
    BY <2>2, <2>3
<1>5. CASE Closed \/ LaunchLost
  <2>1. /\ UNCHANGED <<active, turn, dead, box, log, wire, applied, open, exhausted>>
        /\ Return
        /\ call.at \notin Waiting \/ Acknowledged
    BY <1>5 DEF Closed, LaunchLost, At, Waiting, agentVars, worldVars, trackerVars
  <2> QED
    BY <2>1, MayReturn
<1> QED
  BY <1>1, <1>2, <1>3, <1>4, <1>5

\* The rest of stop and of a round of wait_any.
LEMMA StopsAndPolls ==
  ASSUME SInv, StopTurn \/ GraceEnds \/ GraceRaises \/ GraceExhausted \/ Take \/ Poll
  PROVE  SInv'
<1>0. Types /\ TrackInv /\ AliveInv /\ PlaceInv
  BY DEF SInv
<1>1. CASE StopTurn
  <2>0. /\ UNCHANGED <<active, turn, dead, box, log, wire, applied, open, exhausted>>
        /\ call.at = "decide"
    BY <1>1 DEF StopTurn, At, worldVars, trackerVars
  <2>1. CASE Go("taking")
    BY <2>0, <2>1, MayGo DEF Waiting
  <2>2. CASE call.slot \in active /\ Go("grace")
    <3>1. /\ call' \in Calls /\ call'.at = "grace"
          /\ call'.todo = call.todo /\ call'.slot = call.slot
      BY <2>2, <1>0 DEF Go, Types, Calls, Places
    <3>2. PlaceInv'
      BY <1>0, <2>0, <2>2, <3>1 DEF PlaceInv, Waiting, LastIsBegin
    <3> QED
      BY <2>0, <3>1, <3>2, MoveOn
  <2>3. CASE call.slot \in active /\ Complete(call.slot, "stopped")
    BY <2>0, <2>3, CompleteStep
  <2>4. CASE Return
    BY <2>0, <2>4, MayReturn DEF Waiting
  <2> QED
    BY <1>1, <2>1, <2>2, <2>3, <2>4 DEF StopTurn
<1>2. CASE GraceEnds
  <2>1. /\ UNCHANGED <<active, turn, dead, box, log, wire, applied, open, exhausted>>
        /\ call.at = "grace" /\ Complete(call.slot, "stopped")
    BY <1>2 DEF GraceEnds, At, worldVars, trackerVars
  <2>2. call.slot \in active
    BY <2>1, <1>0 DEF PlaceInv
  <2> QED
    BY <2>1, <2>2, CompleteStep
<1>3. CASE GraceExhausted
  <2>1. /\ UNCHANGED <<active, turn, dead, box, log, wire, applied, open, exhausted>>
        /\ ExhaustAll /\ call.at = "grace"
    BY <1>3 DEF GraceExhausted, At, worldVars, trackerVars
  <2> QED
    BY <2>1, ExhaustStep DEF Waiting
<1>4. CASE GraceRaises
  <2>1. /\ UNCHANGED <<active, turn, dead, box, log, wire, applied, open, exhausted>>
        /\ Return /\ call.at = "grace"
    BY <1>4 DEF GraceRaises, At, agentVars, worldVars, trackerVars
  <2> QED
    BY <2>1, MayReturn DEF Waiting
<1>5. CASE Take \/ Poll
  <2>1. /\ UNCHANGED <<active, turn, dead, box, log, wire, applied, open, exhausted>>
        /\ Return /\ call.at \in {"taking", "decide"}
    BY <1>5 DEF Take, Poll, At, worldVars, trackerVars
  <2> QED
    BY <2>1, MayReturn DEF Waiting
<1> QED
  BY <1>1, <1>2, <1>3, <1>4, <1>5

LEMMA NextSInv == SInv /\ [Next]_vars => SInv'
<1> SUFFICES ASSUME SInv, [Next]_vars PROVE SInv'
  OBVIOUS
<1>1. CASE UNCHANGED vars
  <2>1. UNCHANGED <<call, active, turn, dead, box, log, wire, applied, open, exhausted>>
    BY <1>1 DEF vars, agentVars, worldVars, trackerVars
  <2> QED
    BY <2>1 DEF SInv, Types, TrackInv, AliveInv, PlaceInv, LastIsBegin
<1>2. CASE Next
  BY <1>2, WorldStep, CallBegins, Completes, Starts, StopsAndPolls DEF Next, CallSteps
<1> QED
  BY <1>1, <1>2

LEMMA Inductive == Spec => []SInv
  BY InitSInv, NextSInv, PTL DEF Spec

\* While a process or a container of a turn may exist, the Tracker charges: END
\* follows confirmed absence, and BEGIN's acknowledgment precedes every launch.
THEOREM Charged == Spec => []AliveIsCharged
<1>1. SInv => AliveIsCharged
  <2> SUFFICES ASSUME SInv, Alive # {} PROVE open
    BY DEF AliveIsCharged
  <2>1. active # {}
    BY DEF SInv, AliveInv, Alive, Living
  <2>2. applied = Len(log) /\ LastIsBegin
    BY <2>1 DEF SInv, PlaceInv
  <2>3. Len(log) # 0
    BY <2>2 DEF LastIsBegin, SInv, Types
  <2> QED
    BY <2>2, <2>3 DEF SInv, TrackInv, LastIsBegin
<1> QED
  BY <1>1, Inductive, PTL

\* A launch happens only in an interval that the Tracker has opened, and no
\* frame is reported before the previous one is acknowledged.
LaunchInInterval ==
  [][(turns' # turns => open) /\ (log' # log => Acknowledged)]_vars
THEOREM LaunchesCharged == Spec => LaunchInInterval
<1>1. SInv /\ [Next]_vars => [(turns' # turns => open) /\ (log' # log => Acknowledged)]_vars
  <2> SUFFICES ASSUME SInv, Next
               PROVE  (turns' # turns => open) /\ (log' # log => Acknowledged)
    OBVIOUS
  <2>1. ASSUME turns' # turns PROVE open
    <3>1. call.at = "launching"
      BY <2>1 DEF Next, CallSteps, RootExits, GroupEmpties, OwnerDrains,
         OwnerDies, OrphansEnd, BoxStarts, Apply,
         LoseFrame, SendAgain, Exhaust, Call, Collect, Visit, Swept, Reap, Remove,
         Deactivate, RemovalFails, Ended, Copy, CopyFails, Admit, Opened, Launch,
         LaunchFails, Closed, LaunchLost, StopTurn, GraceEnds, GraceRaises,
         GraceExhausted, Take, Poll,
         At, agentVars
    <3>2. applied = Len(log) /\ LastIsBegin
      BY <3>1 DEF SInv, PlaceInv, Waiting
    <3>3. Len(log) # 0
      BY <3>2 DEF LastIsBegin, SInv, Types
    <3> QED
      BY <3>2, <3>3 DEF SInv, TrackInv, LastIsBegin
  <2>2. ASSUME log' # log PROVE Acknowledged
    <3>1. call.at \notin Waiting
      BY <2>2 DEF Next, CallSteps, RootExits, GroupEmpties, OwnerDrains,
         OwnerDies, OrphansEnd, BoxStarts, Apply,
         LoseFrame, SendAgain, Exhaust, Call, Collect, Visit, Swept, Reap, Remove,
         Deactivate, RemovalFails, Ended, Copy, CopyFails, Admit, Opened, Launch,
         LaunchFails, Closed, LaunchLost, StopTurn, GraceEnds, GraceRaises,
         GraceExhausted, Take, Poll,
         At, Waiting
    <3> QED
      BY <3>1 DEF SInv, PlaceInv, Acknowledged
  <2> QED
    BY <2>1, <2>2
<1> QED
  BY <1>1, Inductive, PTL DEF Spec, LaunchInInterval
-----------------------------------------------------------------------------
(***************************************************************************)
(* The results.  Every turn that was started is in exactly one place:      *)
(* unsettled, among the results that wait, returned, or lost; the results  *)
(* of a slot wait in the order of its turns.                               *)
(***************************************************************************)

Entries == [slot : Slots, number : Nat, reason : Reasons \cup {"none"}]

\* The slots whose turn has no result yet.
HeldSlots == active \cup (IF call.at \in {"ending", "copying"} THEN {call.cur} ELSE {})

EntryTypes ==
  /\ finished \in Seq(Entries)
  /\ turns \in [Slots -> Nat]
  /\ reason \in [Slots -> Reasons \cup {"none"}]

BookInv ==
  /\ Started = Unsettled \cup Pending \cup returned \cup lost
  /\ Unsettled \cap (Pending \cup returned \cup lost) = {}
  /\ Pending \cap (returned \cup lost) = {}
  /\ returned \cap lost = {}
  /\ IsFiniteSet(Started)

OrderInv ==
  \A i, j \in DOMAIN finished :
    i < j /\ finished[i].slot = finished[j].slot => finished[i].number < finished[j].number

\* What a call holds of the results, besides what PlaceInv says of it.
PathInv ==
  /\ call.at \in {"opening", "launching", "closing"} => call.op = "start"
  /\ call.at \in {"opening", "launching", "taking"} => call.slot \notin active
  /\ call.at \in {"grace", "taking"} => call.op = "stop"
  /\ call.at \in {"ending", "copying"} => call.cur \notin active
  /\ call.op = "stop" /\ call.flag =>
       call.slot \in HeldSlots \/ <<call.slot, turns[call.slot]>> \in Pending

LInv == EntryTypes /\ BookInv /\ OrderInv /\ PathInv

LEMMA UnsettledIs == Unsettled = {<<s, turns[s]>> : s \in HeldSlots}
BY DEF Unsettled, HeldSlots

LEMMA StartedIs ==
  ASSUME turns \in [Slots -> Nat]
  PROVE  \A p : p \in Started <=> \E s \in Slots : \E n \in 1 .. turns[s] : p = <<s, n>>
<1>1. \A s \in Slots : \A p : p \in {s} \X (1 .. turns[s]) <=> \E n \in 1 .. turns[s] : p = <<s, n>>
  OBVIOUS
<1> QED BY <1>1 DEF Started

LEMMA InitLInv == Init => LInv
<1> SUFFICES ASSUME Init PROVE LInv
  OBVIOUS
<1>1. EntryTypes
  BY DEF Init, EntryTypes
<1>2. call = Idle /\ active = {} /\ finished = <<>> /\ returned = {} /\ lost = {}
      /\ turns = [s \in Slots |-> 0]
  BY DEF Init
<1>3. HeldSlots = {} /\ Unsettled = {} /\ Pending = {}
  BY <1>2, IdleCall, UnsettledIs DEF HeldSlots, Pending
<1>4. Started = {}
  BY <1>1, <1>2, StartedIs DEF EntryTypes
<1>5. BookInv
  BY <1>2, <1>3, <1>4, FS_EmptySet DEF BookInv
<1>6. OrderInv
  BY <1>2 DEF OrderInv
<1>7. PathInv
  BY <1>2 DEF PathInv, Idle
<1> QED BY <1>1, <1>5, <1>6, <1>7 DEF LInv

\* A step that settles nothing keeps the books.
LEMMA BooksKept ==
  ASSUME LInv, PathInv', HeldSlots' = HeldSlots,
         reason' \in [Slots -> Reasons \cup {"none"}],
         UNCHANGED <<turns, finished, returned, lost>>
  PROVE  LInv'
<1>1. Started' = Started /\ Unsettled' = Unsettled /\ Pending' = Pending
  BY UnsettledIs DEF Started, Pending, Unsettled, HeldSlots
<1>2. EntryTypes'
  BY DEF LInv, EntryTypes
<1>3. BookInv'
  BY <1>1 DEF LInv, BookInv
<1>4. OrderInv'
  BY DEF LInv, OrderInv
<1> QED BY <1>2, <1>3, <1>4 DEF LInv

\* A call that holds no unsettled turn of its own returns, or goes on to a place
\* that asks for nothing.
LEMMA CallMoves ==
  ASSUME LInv, call.at \notin {"ending", "copying"},
         \/ Return
         \/ /\ call'.op = call.op /\ call'.slot = call.slot /\ call'.flag = call.flag
            /\ call'.at \in {"sweep", "decide", "reaping", "removing"},
         reason' \in [Slots -> Reasons \cup {"none"}],
         UNCHANGED <<active, turns, finished, returned, lost>>
  PROVE  LInv'
<1>1. call'.at \notin {"ending", "copying"}
  BY IdleCall DEF Return
<1>2. HeldSlots' = HeldSlots
  BY <1>1 DEF HeldSlots
<1>3. Pending' = Pending
  BY DEF Pending
<1>4. CASE Return
  BY <1>4, <1>2, BooksKept DEF PathInv, Return, Idle
<1>5. CASE ~ Return
  <2>1. PathInv'
    BY <1>2, <1>3, <1>5 DEF PathInv, LInv
  <2> QED BY <2>1, <1>2, BooksKept
<1> QED BY <1>4, <1>5

\* What goes on around a call leaves the books alone.
LEMMA LedgerUnchanged ==
  ASSUME LInv, UNCHANGED <<call, active, reason, turns, finished, returned, lost>>
  PROVE  LInv'
<1>1. HeldSlots' = HeldSlots /\ Pending' = Pending
  BY DEF HeldSlots, Pending
<1>2. PathInv'
  BY <1>1 DEF LInv, PathInv
<1> QED BY <1>1, <1>2, BooksKept DEF LInv, EntryTypes

LEMMA ExhaustLedger ==
  ASSUME SInv, LInv, call.at \notin {"ending", "copying"}, ExhaustAll,
         UNCHANGED <<active, turns, finished, returned, lost>>
  PROVE  LInv'
<1>1. reason' \in [Slots -> Reasons \cup {"none"}]
  BY DEF ExhaustAll, LInv, EntryTypes, Reasons
<1>2. \/ Return
      \/ /\ call'.op = call.op /\ call'.slot = call.slot /\ call'.flag = call.flag
         /\ call'.at = "sweep"
  BY DEF ExhaustAll, SInv, Types, Calls
<1> QED BY <1>1, <1>2, CallMoves

LEMMA CompleteLedger ==
  ASSUME SInv, LInv, NEW s \in active, NEW why \in Reasons, Complete(s, why),
         call.at \notin {"ending", "copying"},
         UNCHANGED <<active, turns, finished, returned, lost>>
  PROVE  LInv'
<1>1. reason' \in [Slots -> Reasons \cup {"none"}]
  BY DEF Complete, LInv, EntryTypes
<1>2. \/ Return
      \/ /\ call'.op = call.op /\ call'.slot = call.slot /\ call'.flag = call.flag
         /\ call'.at = "reaping"
  BY DEF Complete, SInv, Types, Calls
<1> QED BY <1>1, <1>2, CallMoves

\* The collection every call begins with.
LEMMA CollectLedger ==
  ASSUME SInv, LInv,
         \/ \E op \in {"start", "stop", "wait"}, s \in Slots : Call(op, s)
         \/ Collect \/ Swept
         \/ \E s \in Slots : Visit(s)
  PROVE  LInv'
<1>0. reason \in [Slots -> Reasons \cup {"none"}] /\ call \in Calls
  BY DEF LInv, EntryTypes, SInv, Types
<1>1. ASSUME NEW op \in {"start", "stop", "wait"}, NEW s \in Slots, Call(op, s) PROVE LInv'
  <2> DEFINE flag == s \in active
  <2>1. /\ UNCHANGED <<active, reason, turns, finished, returned, lost>>
        /\ call' = [Idle EXCEPT !.op = op, !.slot = s, !.at = "collect", !.flag = flag]
        /\ call.at = "idle"
    BY <1>1 DEF Call, At, agentVars
  <2>2. flag \in BOOLEAN
    OBVIOUS
  <2>3. call'.at = "collect" /\ call'.op = op /\ call'.slot = s /\ call'.flag = flag
    <3> HIDE DEF flag
    <3> QED BY <2>1, <2>2, IdleCall DEF Calls
  <2>4. HeldSlots' = HeldSlots
    BY <2>1, <2>3 DEF HeldSlots
  <2>5. PathInv'
    BY <2>1, <2>3 DEF PathInv, HeldSlots
  <2> QED BY <1>0, <2>1, <2>4, <2>5, BooksKept
<1>2. CASE Collect
  <2>1. /\ UNCHANGED <<active, turns, finished, returned, lost>> /\ call.at = "collect"
    BY <1>2 DEF Collect, At
  <2>2. CASE ExhaustAll
    BY <2>1, <2>2, ExhaustLedger
  <2>3. CASE ~ ExhaustAll
    <3>1. call' = [call EXCEPT !.at = "sweep", !.todo = active] /\ reason' = reason
      BY <1>2, <2>3 DEF Collect
    <3>2. /\ call'.op = call.op /\ call'.slot = call.slot /\ call'.flag = call.flag
          /\ call'.at = "sweep"
      BY <1>0, <3>1 DEF Calls
    <3> QED BY <1>0, <2>1, <3>1, <3>2, CallMoves
  <2> QED BY <2>2, <2>3
<1>3. CASE Swept
  <2>1. /\ UNCHANGED <<active, reason, turns, finished, returned, lost>>
        /\ call.at = "sweep" /\ call' = [call EXCEPT !.at = "decide"]
    BY <1>3 DEF Swept, At, Go, agentVars
  <2>2. /\ call'.op = call.op /\ call'.slot = call.slot /\ call'.flag = call.flag
        /\ call'.at = "decide"
    BY <1>0, <2>1 DEF Calls
  <2> QED BY <1>0, <2>1, <2>2, CallMoves
<1>4. ASSUME NEW s \in Slots, Visit(s) PROVE LInv'
  <2>1. /\ UNCHANGED <<active, turns, finished, returned, lost>>
        /\ call.at = "sweep" /\ s \in active
    BY <1>4 DEF Visit, At, SInv, PlaceInv
  <2>2. CASE Complete(s, "exited")
    BY <2>1, <2>2, CompleteLedger DEF Reasons
  <2>3. CASE Return /\ reason' = reason
    BY <1>0, <2>1, <2>3, CallMoves
  <2>4. CASE call' = [call EXCEPT !.todo = @ \ {s}] /\ reason' = reason
    <3>1. /\ call'.op = call.op /\ call'.slot = call.slot /\ call'.flag = call.flag
          /\ call'.at = "sweep"
      BY <1>0, <2>1, <2>4 DEF Calls
    <3> QED BY <1>0, <2>1, <2>4, <3>1, CallMoves
  <2> QED BY <1>4, <2>2, <2>3, <2>4 DEF Visit
<1> QED BY <1>1, <1>2, <1>3, <1>4

\* An unsettled turn becomes a result that waits.
LEMMA CopyLedger ==
  ASSUME SInv, LInv, Copy
  PROVE  LInv'
<1> DEFINE s == call.cur
           n == turns[call.cur]
           e == [slot |-> call.cur, number |-> n, reason |-> reason[call.cur]]
<1>0. /\ call \in Calls /\ s \in Slots /\ n \in Nat /\ finished \in Seq(Entries)
      /\ turns \in [Slots -> Nat] /\ e \in Entries
  BY DEF SInv, Types, Calls, LInv, EntryTypes, Entries
<1>1. /\ call.at = "copying" /\ call' = [call EXCEPT !.at = "sweep"]
      /\ finished' = Append(finished, e)
      /\ UNCHANGED <<active, reason, turns, returned, lost>>
  BY DEF Copy, At, Go
<1>2. /\ call'.at = "sweep" /\ call'.op = call.op /\ call'.slot = call.slot
      /\ call'.flag = call.flag
  BY <1>0, <1>1 DEF Calls
<1>3. s \notin active
  BY <1>1 DEF LInv, PathInv
<1>4. HeldSlots = active \cup {s} /\ HeldSlots' = active
  BY <1>1, <1>2 DEF HeldSlots
<1>5. /\ finished' \in Seq(Entries) /\ Len(finished) \in Nat
      /\ DOMAIN finished' = 1 .. Len(finished) + 1 /\ DOMAIN finished = 1 .. Len(finished)
      /\ finished'[Len(finished) + 1] = e
      /\ \A i \in DOMAIN finished : finished'[i] = finished[i]
  <2> HIDE DEF e
  <2> QED BY <1>0, <1>1
<1>6. Pending' = Pending \cup {<<s, n>>}
  <2>1. Pending' = {<<finished'[i].slot, finished'[i].number>> : i \in DOMAIN finished'}
    BY DEF Pending
  <2>2. <<finished'[Len(finished) + 1].slot, finished'[Len(finished) + 1].number>> = <<s, n>>
    BY <1>5
  <2> HIDE DEF s, n, e
  <2> QED BY <1>5, <2>1, <2>2 DEF Pending
<1>7. Unsettled = Unsettled' \cup {<<s, n>>} /\ <<s, n>> \notin Unsettled'
  <2>1. Unsettled' = {<<r, turns[r]>> : r \in active}
    BY <1>1, <1>2 DEF Unsettled
  <2>2. Unsettled = {<<r, turns[r]>> : r \in active \cup {s}}
    BY <1>4, UnsettledIs
  <2> QED BY <1>3, <2>1, <2>2
<1>8. Started' = Started
  BY <1>1 DEF Started
<1>9. BookInv'
  BY <1>1, <1>6, <1>7, <1>8 DEF LInv, BookInv
<1>10. OrderInv'
  <2>1. ASSUME NEW i \in DOMAIN finished, finished[i].slot = s PROVE finished[i].number < n
    <3>1. <<s, finished[i].number>> \in Pending
      BY <2>1 DEF Pending
    <3>2. <<s, finished[i].number>> # <<s, n>>
      BY <1>7, <3>1 DEF LInv, BookInv
    <3>3. <<s, finished[i].number>> \in Started
      BY <3>1 DEF LInv, BookInv
    <3>4. finished[i].number \in 1 .. n
      BY <1>0, <3>3, StartedIs
    <3> QED BY <1>0, <3>2, <3>4
  <2> SUFFICES ASSUME NEW i \in DOMAIN finished', NEW j \in DOMAIN finished', i < j,
                      finished'[i].slot = finished'[j].slot
               PROVE  finished'[i].number < finished'[j].number
    BY DEF OrderInv
  <2>2. CASE j = Len(finished) + 1
    <3>1. i \in DOMAIN finished /\ finished'[i] = finished[i]
      BY <1>5, <2>2
    <3>2. finished'[j].slot = s /\ finished'[j].number = n
      BY <1>5, <2>2
    <3> QED BY <2>1, <3>1, <3>2
  <2>3. CASE j # Len(finished) + 1
    <3>1. i \in DOMAIN finished /\ j \in DOMAIN finished
      BY <1>5, <2>3
    <3> QED BY <1>5, <3>1 DEF LInv, OrderInv
  <2> QED BY <2>2, <2>3
<1>11. PathInv'
  BY <1>1, <1>2, <1>4, <1>6 DEF LInv, PathInv
<1> QED BY <1>1, <1>5, <1>9, <1>10, <1>11 DEF LInv, EntryTypes

\* The other steps of _complete.
LEMMA CompletionLedger ==
  ASSUME SInv, LInv, Reap \/ Remove \/ RemovalFails \/ Ended \/ CopyFails
  PROVE  LInv'
<1>0. /\ call \in Calls /\ reason \in [Slots -> Reasons \cup {"none"}]
      /\ turns \in [Slots -> Nat]
  BY DEF LInv, EntryTypes, SInv, Types
<1>1. CASE Reap
  <2>1. /\ UNCHANGED <<active, reason, turns, finished, returned, lost>>
        /\ call.at = "reaping" /\ call' = [call EXCEPT !.at = "removing"]
    BY <1>1 DEF Reap, At, Go, agentVars
  <2>2. /\ call'.op = call.op /\ call'.slot = call.slot /\ call'.flag = call.flag
        /\ call'.at = "removing"
    BY <1>0, <2>1 DEF Calls
  <2> QED BY <1>0, <2>1, <2>2, CallMoves
<1>2. CASE Remove /\ call.cur \notin dead
  <2>1. /\ UNCHANGED <<reason, turns, finished, returned, lost>>
        /\ call.at = "removing" /\ active' = active \ {call.cur}
        /\ \/ call' = [call EXCEPT !.at = "ending"]
           \/ call' = [call EXCEPT !.at = "copying"]
    BY <1>2 DEF Remove, At, Deactivate, Go
  <2>2. /\ call'.op = call.op /\ call'.slot = call.slot /\ call'.flag = call.flag
        /\ call'.cur = call.cur /\ call'.at \in {"ending", "copying"}
    BY <1>0, <2>1 DEF Calls
  <2>3. call.cur \in active
    BY <2>1 DEF SInv, PlaceInv
  <2>4. HeldSlots' = HeldSlots /\ Pending' = Pending
    BY <2>1, <2>2, <2>3 DEF HeldSlots, Pending
  <2>5. PathInv'
    BY <2>1, <2>2, <2>4 DEF LInv, PathInv
  <2> QED BY <1>0, <2>1, <2>4, <2>5, BooksKept
<1>3. CASE RemovalFails \/ (Remove /\ call.cur \in dead)
  <2>1. /\ UNCHANGED <<active, reason, turns, finished, returned, lost>>
        /\ call.at = "removing" /\ Return
    BY <1>3 DEF RemovalFails, Remove, At, agentVars
  <2> QED BY <1>0, <2>1, CallMoves
<1>4. CASE Ended
  <2>1. /\ UNCHANGED <<active, reason, turns, finished, returned, lost>>
        /\ call.at = "ending" /\ call' = [call EXCEPT !.at = "copying"]
    BY <1>4 DEF Ended, At, Go, agentVars
  <2>2. /\ call'.op = call.op /\ call'.slot = call.slot /\ call'.flag = call.flag
        /\ call'.cur = call.cur /\ call'.at = "copying"
    BY <1>0, <2>1 DEF Calls
  <2>3. HeldSlots' = HeldSlots /\ Pending' = Pending
    BY <2>1, <2>2 DEF HeldSlots, Pending
  <2>4. PathInv'
    BY <2>1, <2>2, <2>3 DEF LInv, PathInv
  <2> QED BY <1>0, <2>1, <2>3, <2>4, BooksKept
<1>5. CASE CopyFails
  <2> DEFINE p == <<call.cur, turns[call.cur]>>
  <2>1. /\ UNCHANGED <<active, reason, turns, finished, returned>>
        /\ call.at = "copying" /\ call' = Idle
        /\ lost' = lost \cup {p}
    BY <1>5 DEF CopyFails, At, Return, agentVars
  <2>2. call.cur \notin active
    BY <2>1 DEF LInv, PathInv
  <2>3. Unsettled = Unsettled' \cup {p} /\ p \notin Unsettled'
    <3>1. Unsettled' = {<<r, turns[r]>> : r \in active}
      BY <2>1, IdleCall DEF Unsettled
    <3>2. Unsettled = {<<r, turns[r]>> : r \in active} \cup {p}
      BY <2>1 DEF Unsettled
    <3> QED BY <2>2, <3>1, <3>2
  <2>4. Started' = Started /\ Pending' = Pending
    BY <2>1 DEF Started, Pending
  <2>5. BookInv'
    BY <2>1, <2>3, <2>4 DEF LInv, BookInv
  <2>6. PathInv'
    BY <2>1 DEF PathInv, Idle
  <2> QED BY <2>1, <2>5, <2>6 DEF LInv, EntryTypes, OrderInv
<1> QED BY <1>1, <1>2, <1>3, <1>4, <1>5

\* A started turn is a new one, and unsettled.
LEMMA LaunchLedger ==
  ASSUME SInv, LInv, Launch
  PROVE  LInv'
<1> DEFINE s == call.slot
           p == <<s, turns[s] + 1>>
<1>0. /\ call \in Calls /\ s \in Slots /\ turns \in [Slots -> Nat]
      /\ reason \in [Slots -> Reasons \cup {"none"}]
  BY DEF SInv, Types, Calls, LInv, EntryTypes
<1>1. /\ UNCHANGED <<finished, returned, lost>>
      /\ call.at = "launching" /\ call' = Idle
      /\ active' = active \cup {s} /\ turns' = [turns EXCEPT ![s] = @ + 1]
      /\ reason' = [reason EXCEPT ![s] = "none"]
  BY DEF Launch, At, Return
<1>2. s \notin active
  BY <1>1 DEF LInv, PathInv
<1>3. /\ turns' \in [Slots -> Nat] /\ turns'[s] = turns[s] + 1
      /\ \A r \in Slots \ {s} : turns'[r] = turns[r]
      /\ reason' \in [Slots -> Reasons \cup {"none"}]
  BY <1>0, <1>1
<1>4. Started' = Started \cup {p} /\ p \notin Started
  <2>1. \A q : q \in Started <=> \E r \in Slots : \E n \in 1 .. turns[r] : q = <<r, n>>
    BY <1>0, StartedIs
  <2>2. \A q : q \in Started' <=> \E r \in Slots : \E n \in 1 .. turns'[r] : q = <<r, n>>
    <3>1. \A r \in Slots : \A q : q \in {r} \X (1 .. turns'[r]) <=> \E n \in 1 .. turns'[r] : q = <<r, n>>
      OBVIOUS
    <3> QED BY <3>1 DEF Started
  <2> QED BY <1>0, <1>3, <2>1, <2>2
<1>5. Unsettled' = Unsettled \cup {p}
  <2>1. Unsettled' = {<<r, turns'[r]>> : r \in active'}
    BY <1>1, IdleCall DEF Unsettled
  <2>2. Unsettled = {<<r, turns[r]>> : r \in active}
    BY <1>1 DEF Unsettled
  <2>3. \A r \in active : turns'[r] = turns[r]
    BY <1>2, <1>3 DEF SInv, Types
  <2> QED BY <1>1, <1>3, <2>1, <2>2, <2>3
<1>6. Pending' = Pending
  BY <1>1 DEF Pending
<1>7. IsFiniteSet(Started')
  BY <1>4, FS_AddElement DEF LInv, BookInv
<1>8. BookInv'
  BY <1>1, <1>4, <1>5, <1>6, <1>7 DEF LInv, BookInv
<1>9. PathInv'
  BY <1>1 DEF PathInv, Idle
<1> QED BY <1>1, <1>3, <1>8, <1>9 DEF LInv, EntryTypes, OrderInv

\* The rest of start.
LEMMA StartLedger ==
  ASSUME SInv, LInv, Admit \/ Opened \/ LaunchFails \/ Closed \/ LaunchLost
  PROVE  LInv'
<1>0. call \in Calls /\ reason \in [Slots -> Reasons \cup {"none"}]
  BY DEF LInv, EntryTypes, SInv, Types
<1>1. CASE Admit
  <2>1. /\ UNCHANGED <<active, turns, finished, returned, lost>>
        /\ call.at = "decide" /\ call.op = "start"
    BY <1>1 DEF Admit, At
  <2>2. CASE ExhaustAll
    BY <2>1, <2>2, ExhaustLedger
  <2>3. CASE Return /\ reason' = reason
    BY <1>0, <2>1, <2>3, CallMoves
  <2>4. CASE /\ ~ Refused /\ reason' = reason
             /\ call' = [call EXCEPT !.flag = (active = {}),
                              !.at = IF active = {} THEN "opening" ELSE "launching"]
    <3>1. /\ call'.op = "start" /\ call'.slot = call.slot
          /\ call'.at \in {"opening", "launching"}
      BY <1>0, <2>1, <2>4 DEF Calls
    <3>2. HeldSlots' = HeldSlots
      BY <2>1, <3>1 DEF HeldSlots
    <3>3. PathInv'
      BY <2>1, <2>4, <3>1 DEF PathInv, Refused
    <3> QED BY <1>0, <2>1, <2>4, <3>2, <3>3, BooksKept
  <2> QED BY <1>1, <2>2, <2>3, <2>4 DEF Admit
<1>2. CASE (Opened /\ exhausted) \/ (LaunchFails /\ ~ call.flag) \/ Closed \/ LaunchLost
  <2>1. /\ UNCHANGED <<active, reason, turns, finished, returned, lost>>
        /\ call.at \notin {"ending", "copying"} /\ Return
    BY <1>2 DEF Opened, LaunchFails, Closed, LaunchLost, At, agentVars
  <2> QED BY <1>0, <2>1, CallMoves
<1>3. CASE (Opened /\ ~ exhausted) \/ (LaunchFails /\ call.flag)
  <2>1. /\ UNCHANGED <<active, reason, turns, finished, returned, lost>>
        /\ \/ call.at = "opening" /\ call' = [call EXCEPT !.at = "launching"]
           \/ call.at = "launching" /\ call' = [call EXCEPT !.at = "closing"]
    BY <1>3 DEF Opened, LaunchFails, At, Go, agentVars
  <2>2. /\ call'.op = "start" /\ call'.slot = call.slot
        /\ \/ call.at = "opening" /\ call'.at = "launching"
           \/ call.at = "launching" /\ call'.at = "closing"
    BY <1>0, <2>1 DEF Calls, LInv, PathInv
  <2>3. HeldSlots' = HeldSlots
    BY <2>1, <2>2 DEF HeldSlots
  <2>4. PathInv'
    BY <2>1, <2>2 DEF LInv, PathInv
  <2> QED BY <1>0, <2>1, <2>3, <2>4, BooksKept
<1> QED BY <1>1, <1>2, <1>3

\* What is left of the results when the i-th is taken out.
LEMMA TakenOut ==
  ASSUME finished \in Seq(Entries), NEW i \in DOMAIN finished, Give(i)
  PROVE  /\ finished' \in Seq(Entries)
         /\ Len(finished) \in Nat /\ DOMAIN finished = 1 .. Len(finished)
         /\ DOMAIN finished' = 1 .. Len(finished) - 1
         /\ \A k \in DOMAIN finished' :
              finished'[k] = finished[IF k < i THEN k ELSE k + 1]
<1> DEFINE a == SubSeq(finished, 1, i - 1)
           b == SubSeq(finished, i + 1, Len(finished))
<1>1. Len(finished) \in Nat /\ DOMAIN finished = 1 .. Len(finished) /\ i \in 1 .. Len(finished)
  OBVIOUS
<1>2. a \in Seq(Entries) /\ Len(a) = i - 1 /\ \A k \in 1 .. i - 1 : a[k] = finished[k]
  BY <1>1
<1>3. b \in Seq(Entries) /\ Len(b) = Len(finished) - i
      /\ \A k \in 1 .. Len(finished) - i : b[k] = finished[i + k]
  BY <1>1
<1>4. finished' = a \o b
  BY DEF Give
<1> HIDE DEF a, b
<1>5. /\ finished' \in Seq(Entries) /\ Len(finished') = Len(finished) - 1
      /\ DOMAIN finished' = 1 .. Len(finished) - 1
  <2>1. a \o b \in Seq(Entries) /\ Len(a \o b) = Len(a) + Len(b)
    BY <1>2, <1>3, ConcatProperties
  <2>2. Len(a) + Len(b) = Len(finished) - 1
    BY <1>1, <1>2, <1>3
  <2>3. finished' \in Seq(Entries) /\ Len(finished') = Len(finished) - 1
    BY <1>4, <2>1, <2>2
  <2> QED BY <2>3
<1>6. ASSUME NEW k \in 1 .. Len(finished) - 1
      PROVE  finished'[k] = finished[IF k < i THEN k ELSE k + 1]
  <2>1. CASE k < i
    BY <1>1, <1>2, <1>3, <1>4, <2>1
  <2>2. CASE ~ (k < i)
    <3>1. k - (i - 1) \in 1 .. Len(finished) - i /\ i + (k - (i - 1)) = k + 1
      BY <1>1, <2>2
    <3>2. (a \o b)[k] = b[k - (i - 1)]
      <4>1. k \in 1 .. Len(a) + Len(b) /\ ~ (k <= Len(a)) /\ k - Len(a) = k - (i - 1)
        BY <1>1, <1>2, <1>3, <2>2
      <4> QED BY <1>2, <1>3, <4>1, ConcatProperties
    <3>3. b[k - (i - 1)] = finished[k + 1]
      BY <1>3, <3>1
    <3> QED BY <1>4, <2>2, <3>2, <3>3
  <2> QED BY <2>1, <2>2
<1> QED BY <1>1, <1>5, <1>6

\* A result that waits is returned.
LEMMA GiveLedger ==
  ASSUME LInv, NEW i \in DOMAIN finished, Give(i), Return,
         call.at \notin {"ending", "copying"},
         UNCHANGED <<active, reason, turns, lost>>
  PROVE  LInv'
<1> DEFINE p == <<finished[i].slot, finished[i].number>>
           old(k) == IF k < i THEN k ELSE k + 1
<1>0. /\ finished' \in Seq(Entries)
      /\ Len(finished) \in Nat /\ DOMAIN finished = 1 .. Len(finished)
      /\ DOMAIN finished' = 1 .. Len(finished) - 1
      /\ \A k \in DOMAIN finished' : finished'[k] = finished[old(k)]
  BY TakenOut DEF LInv, EntryTypes
<1>1. \A k \in DOMAIN finished' : old(k) \in DOMAIN finished \ {i}
  BY <1>0
<1>2. \A k \in DOMAIN finished \ {i} : \E j \in DOMAIN finished' : k = old(j)
  <2> SUFFICES ASSUME NEW k \in DOMAIN finished \ {i} PROVE \E j \in DOMAIN finished' : k = old(j)
    OBVIOUS
  <2>1. CASE k < i
    BY <1>0, <2>1
  <2>2. CASE ~ (k < i)
    <3>1. k - 1 \in DOMAIN finished' /\ k = old(k - 1)
      BY <1>0, <2>2
    <3> QED BY <3>1
  <2> QED BY <2>1, <2>2
<1>3. \A j, k \in DOMAIN finished' : j < k => old(j) < old(k)
  BY <1>0
<1> HIDE DEF old
<1>4. OrderInv'
  BY <1>0, <1>1, <1>3 DEF LInv, OrderInv
<1>5. \A k \in DOMAIN finished \ {i} : <<finished[k].slot, finished[k].number>> # p
  <2> SUFFICES ASSUME NEW k \in DOMAIN finished \ {i}, finished[k].slot = finished[i].slot
               PROVE  finished[k].number # finished[i].number
    OBVIOUS
  <2>1. k < i \/ i < k
    BY <1>0
  <2>2. finished[k].number \in Nat /\ finished[i].number \in Nat
    <3>1. finished[k] \in Entries /\ finished[i] \in Entries
      BY DEF LInv, EntryTypes
    <3> QED BY <3>1 DEF Entries
  <2> QED BY <2>1, <2>2 DEF LInv, OrderInv
<1>6. Pending = Pending' \cup {p} /\ p \notin Pending'
  <2>1. Pending' = {<<finished'[k].slot, finished'[k].number>> : k \in DOMAIN finished'}
    BY DEF Pending
  <2>2. Pending' = {<<finished[k].slot, finished[k].number>> : k \in DOMAIN finished \ {i}}
    BY <1>0, <1>1, <1>2, <2>1
  <2> QED BY <1>5, <2>2 DEF Pending
<1>7. returned' = returned \cup {p}
  BY DEF Give
<1>8. Started' = Started
  BY DEF Started
<1>9. Unsettled' = Unsettled
  BY IdleCall DEF Unsettled, Return
<1>10. BookInv'
  BY <1>6, <1>7, <1>8, <1>9 DEF LInv, BookInv
<1>11. PathInv'
  BY DEF PathInv, Return, Idle
<1> QED BY <1>0, <1>4, <1>10, <1>11 DEF LInv, EntryTypes

\* The rest of stop, and a round of wait_any.
LEMMA StopLedger ==
  ASSUME SInv, LInv, StopTurn \/ GraceEnds \/ GraceRaises \/ GraceExhausted \/ Take \/ Poll
  PROVE  LInv'
<1>0. call \in Calls /\ reason \in [Slots -> Reasons \cup {"none"}]
  BY DEF LInv, EntryTypes, SInv, Types
<1>1. CASE StopTurn
  <2>1. /\ UNCHANGED <<active, turns, finished, returned, lost>>
        /\ call.at = "decide" /\ call.op = "stop"
    BY <1>1 DEF StopTurn, At
  <2>2. CASE call.slot \in active /\ Complete(call.slot, "stopped")
    BY <2>1, <2>2, CompleteLedger DEF Reasons
  <2>3. CASE Return /\ reason' = reason
    BY <1>0, <2>1, <2>3, CallMoves
  <2>4. CASE /\ (call.slot \notin active /\ Go("taking")) \/ Go("grace")
             /\ reason' = reason
    <3>1. /\ call'.op = call.op /\ call'.slot = call.slot /\ call'.flag = call.flag
          /\ call'.at = "grace" \/ (call'.at = "taking" /\ call.slot \notin active)
      BY <1>0, <2>4 DEF Go, Calls
    <3>2. HeldSlots' = HeldSlots /\ Pending' = Pending
      BY <2>1, <3>1 DEF HeldSlots, Pending
    <3>3. PathInv'
      BY <2>1, <3>1, <3>2 DEF LInv, PathInv
    <3> QED BY <1>0, <2>1, <2>4, <3>2, <3>3, BooksKept
  <2> QED BY <1>1, <2>2, <2>3, <2>4 DEF StopTurn
<1>2. CASE GraceEnds
  <2>1. /\ UNCHANGED <<active, turns, finished, returned, lost>>
        /\ call.at = "grace" /\ Complete(call.slot, "stopped") /\ call.slot \in active
    BY <1>2 DEF GraceEnds, At, SInv, PlaceInv
  <2> QED BY <2>1, CompleteLedger DEF Reasons
<1>3. CASE GraceRaises
  <2>1. /\ UNCHANGED <<active, reason, turns, finished, returned, lost>>
        /\ call.at = "grace" /\ Return
    BY <1>3 DEF GraceRaises, At, agentVars
  <2> QED BY <1>0, <2>1, CallMoves
<1>4. CASE GraceExhausted
  <2>1. /\ UNCHANGED <<active, turns, finished, returned, lost>>
        /\ call.at = "grace" /\ ExhaustAll
    BY <1>4 DEF GraceExhausted, At
  <2> QED BY <2>1, ExhaustLedger
<1>5. CASE Take \/ Poll
  <2>1. /\ UNCHANGED <<active, reason, turns, lost>>
        /\ call.at \in {"taking", "decide"} /\ Return
    BY <1>5 DEF Take, Poll, At
  <2>2. CASE UNCHANGED <<finished, returned>>
    BY <1>0, <2>1, <2>2, CallMoves
  <2>3. ASSUME NEW i \in DOMAIN finished, Give(i) PROVE LInv'
    BY <2>1, <2>3, GiveLedger
  <2>4. UNCHANGED <<finished, returned>> \/ \E i \in DOMAIN finished : Give(i)
    <3>1. finished \in Seq(Entries)
      BY DEF LInv, EntryTypes
    <3>2. finished # <<>> => 1 \in DOMAIN finished
      BY <3>1
    <3> QED BY <1>5, <3>2 DEF Take, Poll, Results
  <2> QED BY <2>2, <2>3, <2>4
<1> QED BY <1>1, <1>2, <1>3, <1>4, <1>5

LEMMA NextLInv == SInv /\ LInv /\ [Next]_vars => LInv'
<1> SUFFICES ASSUME SInv, LInv, [Next]_vars PROVE LInv'
  OBVIOUS
<1>1. CASE \/ UNCHANGED vars
           \/ \E s \in Slots :
                \/ RootExits(s) \/ GroupEmpties(s) \/ OwnerDrains(s)
                \/ OwnerDies(s) \/ OrphansEnd(s) \/ BoxStarts(s)
           \/ \E n \in 1 .. Len(log) : Apply(n) \/ LoseFrame(n)
           \/ SendAgain \/ Exhaust
  <2>1. UNCHANGED <<call, active, reason, turns, finished, returned, lost>>
    BY <1>1 DEF vars, agentVars, RootExits, GroupEmpties, OwnerDrains, OwnerDies, OrphansEnd,
                BoxStarts, Apply, LoseFrame, SendAgain, Exhaust
  <2> QED BY <2>1, LedgerUnchanged
<1>2. CASE \/ \E op \in {"start", "stop", "wait"}, s \in Slots : Call(op, s)
           \/ CallSteps
  BY <1>2, CollectLedger, CopyLedger, CompletionLedger, LaunchLedger, StartLedger, StopLedger
     DEF CallSteps
<1> QED BY <1>1, <1>2 DEF Next

LEMMA LedgerInductive == Spec => [](SInv /\ LInv)
  BY InitSInv, NextSInv, InitLInv, NextLInv, PTL DEF Spec

LEMMA DisjointCount ==
  ASSUME NEW A, NEW C, IsFiniteSet(A), IsFiniteSet(C), A \cap C = {}
  PROVE  /\ IsFiniteSet(A \cup C)
         /\ Cardinality(A \cup C) = Cardinality(A) + Cardinality(C)
<1>1. Cardinality(A \cap C) = 0
  BY FS_EmptySet
<1>2. Cardinality(A) \in Nat /\ Cardinality(C) \in Nat
  BY FS_CardinalityType
<1>3. /\ IsFiniteSet(A \cup C)
      /\ Cardinality(A \cup C) = Cardinality(A) + Cardinality(C) - Cardinality(A \cap C)
  BY FS_Union
<1> QED BY <1>1, <1>2, <1>3

LEMMA PendingCount ==
  ASSUME LInv
  PROVE  Cardinality(Pending) = Len(finished)
<1>1. /\ finished \in Seq(Entries) /\ Len(finished) \in Nat
      /\ DOMAIN finished = 1 .. Len(finished)
  BY DEF LInv, EntryTypes
<1> DEFINE f == [i \in 1 .. Len(finished) |-> <<finished[i].slot, finished[i].number>>]
<1>2. \A i, j \in 1 .. Len(finished) : f[i] = f[j] => i = j
  <2> SUFFICES ASSUME NEW i \in 1 .. Len(finished), NEW j \in 1 .. Len(finished), f[i] = f[j]
               PROVE  i = j
    OBVIOUS
  <2>1. finished[i].slot = finished[j].slot /\ finished[i].number = finished[j].number
    OBVIOUS
  <2>2. finished[i].number \in Nat /\ finished[j].number \in Nat
    <3>1. finished[i] \in Entries /\ finished[j] \in Entries
      BY <1>1
    <3> QED BY <3>1 DEF Entries
  <2>3. ~ (i < j) /\ ~ (j < i)
    BY <1>1, <2>1, <2>2 DEF LInv, OrderInv
  <2> QED BY <1>1, <2>3
<1>3. f \in [1 .. Len(finished) -> Pending]
  BY <1>1 DEF Pending
<1>4. \A p \in Pending : \E i \in 1 .. Len(finished) : f[i] = p
  BY <1>1 DEF Pending
<1>5. ExistsBijection(1 .. Len(finished), Pending)
  <2> HIDE DEF f
  <2>1. f \in Bijection(1 .. Len(finished), Pending)
    BY <1>2, <1>3, <1>4 DEF Bijection, Injection, Surjection, IsInjective
  <2> QED BY <2>1 DEF ExistsBijection
<1>6. IsFiniteSet(1 .. Len(finished)) /\ Cardinality(1 .. Len(finished)) = Len(finished)
  BY <1>1, FS_Interval
<1> QED BY <1>5, <1>6, FS_Bijection

\* Every turn StageAgents started is running, or its result waits, was returned once,
\* or was lost to a failed copy: _complete and _take neither drop nor repeat one.
THEOREM ResultsKept == Spec => []ResultsExact
<1>1. LInv => ResultsExact
  <2> SUFFICES ASSUME LInv PROVE ResultsExact
    OBVIOUS
  <2>1. BookInv
    BY DEF LInv
  <2>2. /\ IsFiniteSet(Unsettled) /\ IsFiniteSet(Pending)
        /\ IsFiniteSet(returned) /\ IsFiniteSet(lost)
    <3>1. /\ Unsettled \in SUBSET Started /\ Pending \in SUBSET Started
          /\ returned \in SUBSET Started /\ lost \in SUBSET Started
      BY <2>1 DEF BookInv
    <3> QED BY <2>1, <3>1, FS_Subset DEF BookInv
  <2>3. /\ IsFiniteSet(Unsettled \cup Pending)
        /\ Cardinality(Unsettled \cup Pending) = Cardinality(Unsettled) + Cardinality(Pending)
    BY <2>1, <2>2, DisjointCount DEF BookInv
  <2>4. /\ IsFiniteSet(returned \cup lost)
        /\ Cardinality(returned \cup lost) = Cardinality(returned) + Cardinality(lost)
    BY <2>1, <2>2, DisjointCount DEF BookInv
  <2>5. (Unsettled \cup Pending) \cap (returned \cup lost) = {}
    BY <2>1 DEF BookInv
  <2>6. Cardinality((Unsettled \cup Pending) \cup (returned \cup lost))
          = Cardinality(Unsettled \cup Pending) + Cardinality(returned \cup lost)
    BY <2>3, <2>4, <2>5, DisjointCount
  <2>7. Started = (Unsettled \cup Pending) \cup (returned \cup lost)
    BY <2>1 DEF BookInv
  <2>8. /\ Cardinality(Unsettled) \in Nat /\ Cardinality(Pending) \in Nat
        /\ Cardinality(returned) \in Nat /\ Cardinality(lost) \in Nat
    BY <2>2, FS_CardinalityType
  <2>9. Cardinality(Started) = Cardinality(Unsettled) + Len(finished)
                                + Cardinality(returned) + Cardinality(lost)
    BY <2>3, <2>4, <2>6, <2>7, <2>8, PendingCount
  <2> QED BY <2>1, <2>9 DEF ResultsExact, BookInv
<1> QED BY <1>1, LedgerInductive, PTL

\* The newest result of a slot that was active when stop was called is its turn's.
LEMMA NewestIsTurn ==
  ASSUME SInv, LInv, call.at = "taking", call.flag, NEW i \in Results(call.slot), Chosen(i)
  PROVE  /\ finished[i].slot = call.slot /\ finished[i].number = turns[call.slot]
         /\ <<call.slot, turns[call.slot]>> \in Pending
<1>1. call.slot \notin active /\ call.op = "stop"
  BY DEF LInv, PathInv
<1>2. <<call.slot, turns[call.slot]>> \in Pending
  BY <1>1 DEF LInv, PathInv, HeldSlots
<1>3. PICK k \in DOMAIN finished : finished[k].slot = call.slot
                                   /\ finished[k].number = turns[call.slot]
  BY <1>2 DEF Pending
<1>4. i \in DOMAIN finished /\ finished[i].slot = call.slot /\ i >= k
  BY <1>3 DEF Results, Chosen
<1>5. <<call.slot, finished[i].number>> \in Started
  BY <1>4 DEF Pending, LInv, BookInv
<1>6. finished[i].number <= turns[call.slot]
  BY <1>5, StartedIs DEF LInv, EntryTypes
<1>7. /\ finished[i].number \in Nat /\ i \in Nat /\ k \in Nat
      /\ turns[call.slot] \in Nat
  <2>1. finished \in Seq(Entries) /\ finished[i] \in Entries
    BY <1>4 DEF LInv, EntryTypes
  <2>2. call.slot \in Slots
    BY DEF SInv, Types, Calls
  <2>3. i \in Nat /\ k \in Nat
    BY <1>3, <1>4, <2>1
  <2> QED BY <2>1, <2>2, <2>3 DEF Entries, LInv, EntryTypes
<1>8. CASE i = k
  BY <1>2, <1>3, <1>4, <1>8
<1>9. CASE k < i
  BY <1>3, <1>4, <1>6, <1>7, <1>9 DEF LInv, OrderInv
<1> QED BY <1>4, <1>7, <1>8, <1>9

\* stop returns the result of the turn it stopped, whichever results wait: its turn is
\* the slot's last one, and the newest result of the slot is taken.
THEOREM StopsReturned == Spec => StopReturnsItsTurn
<1>1. SInv /\ LInv /\ [Next]_vars =>
        [(call.at = "taking" /\ call.flag /\ returned' # returned) =>
           <<call.slot, turns[call.slot]>> \in returned' \ returned]_vars
  <2> SUFFICES ASSUME SInv, LInv, Next, call.at = "taking", call.flag, returned' # returned
               PROVE  <<call.slot, turns[call.slot]>> \in returned' \ returned
    OBVIOUS
  <2> DEFINE p == <<call.slot, turns[call.slot]>>
  <2>1. Take
    BY DEF Next, CallSteps, RootExits, GroupEmpties, OwnerDrains, OwnerDies, OrphansEnd,
           BoxStarts, Apply, LoseFrame, SendAgain, Exhaust, Call, Collect, Visit, Swept, Reap,
           Remove, RemovalFails, Ended, Copy, CopyFails, Admit, Opened, Launch, LaunchFails,
           Closed, LaunchLost, StopTurn, GraceEnds, GraceRaises, GraceExhausted, Poll, At
  <2>2. PICK i \in Results(call.slot) : Chosen(i) /\ Give(i)
    BY <2>1 DEF Take
  <2>3. /\ finished[i].slot = call.slot /\ finished[i].number = turns[call.slot]
        /\ p \in Pending
    BY <2>2, NewestIsTurn
  <2>4. returned' = returned \cup {p}
    BY <2>2, <2>3 DEF Give
  <2>5. p \notin returned
    BY <2>3 DEF LInv, BookInv
  <2> QED BY <2>4, <2>5
<1> QED BY <1>1, LedgerInductive, PTL DEF Spec, StopReturnsItsTurn
-----------------------------------------------------------------------------
(***************************************************************************)
(* The contract.  Every step of Agents, of a turn, of the Tracker and of   *)
(* a frame is a step of AgentsContract or a stutter.  What is added to the *)
(* invariants above is that at most the last frame is unknown to the       *)
(* Tracker, which frame that is where a call waits for it, and that a turn *)
(* that is being completed has its reason.                                 *)
(***************************************************************************)

FrameInv ==
  /\ call.at \in Waiting => applied >= Len(log) - 1
  /\ call.at \in {"ending", "closing"} => ~ LastIsBegin
  /\ call.at = "copying" /\ active = {} => ~ LastIsBegin

HoldInv ==
  /\ call.at \in {"reaping", "removing", "ending", "copying"} => reason[call.cur] # "none"
  /\ call.at = "idle" => call = Idle
  /\ call.at \in {"opening", "launching"} => Cardinality(active) < Parallel

CInv == SInv /\ LInv /\ FrameInv /\ HoldInv

\* Nothing is asked of a call that has just begun, sweeps, decides or is over.
LEMMA PlainPlace ==
  ASSUME call' = Idle \/ call'.at \in {"collect", "sweep", "decide", "grace", "taking"}
  PROVE  FrameInv' /\ HoldInv'
BY IdleCall DEF FrameInv, HoldInv, Waiting

LEMMA CompleteHolds ==
  ASSUME SInv, LInv, NEW s \in active, NEW why \in Reasons, Complete(s, why),
         call.at \in {"sweep", "decide", "grace"}
  PROVE  FrameInv' /\ HoldInv'
<1>1. CASE Return
  BY <1>1, PlainPlace DEF Return
<1>2. CASE ~ Return
  <2>1. /\ call' = [call EXCEPT !.at = "reaping", !.cur = s, !.todo = @ \ {s}]
        /\ reason' = [reason EXCEPT ![s] = IF @ = "none" THEN why ELSE @]
    BY <1>2 DEF Complete
  <2>2. call'.at = "reaping" /\ call'.cur = s
    BY <2>1 DEF SInv, Types, Calls
  <2>3. reason'[s] # "none"
    BY <2>1 DEF LInv, EntryTypes, SInv, Types, Reasons
  <2> QED BY <2>2, <2>3 DEF FrameInv, HoldInv, Waiting
<1> QED BY <1>1, <1>2

LEMMA ExhaustHolds ==
  ASSUME SInv, ExhaustAll
  PROVE  FrameInv' /\ HoldInv'
<1>1. Return \/ call' = [call EXCEPT !.at = "sweep", !.todo = active]
  BY DEF ExhaustAll
<1>2. call' = Idle \/ call'.at = "sweep"
  BY <1>1 DEF Return, SInv, Types, Calls
<1> QED BY <1>2, PlainPlace

LEMMA GoPlace ==
  ASSUME SInv, NEW place, Go(place)
  PROVE  /\ call'.at = place /\ call'.op = call.op /\ call'.slot = call.slot
         /\ call'.cur = call.cur /\ call'.flag = call.flag
BY DEF Go, SInv, Types, Calls

\* A frame is reported while none is under way.
LEMMA ReportedFrame ==
  ASSUME SInv, call.at \notin Waiting, NEW event \in {"begin", "end"}, Report(event),
         UNCHANGED <<applied, open>>
  PROVE  applied' >= Len(log') - 1 /\ (LastIsBegin' <=> event = "begin")
<1>1. applied = Len(log) /\ log \in Seq({"begin", "end"})
  BY DEF SInv, PlaceInv, Types
<1>2. Len(log') = Len(log) + 1 /\ Len(log) \in Nat
  BY <1>1 DEF Report
<1>3. LastIsBegin' <=> event = "begin"
  BY ReportStep DEF SInv, Types
<1> QED BY <1>1, <1>2, <1>3

LEMMA WorldHolds ==
  ASSUME CInv,
         \/ \E s \in Slots :
              \/ RootExits(s) \/ GroupEmpties(s) \/ OwnerDrains(s)
              \/ OwnerDies(s) \/ OrphansEnd(s) \/ BoxStarts(s)
         \/ \E n \in 1 .. Len(log) : Apply(n) \/ LoseFrame(n)
         \/ SendAgain \/ Exhaust \/ UNCHANGED vars
  PROVE  FrameInv' /\ HoldInv'
<1>1. UNCHANGED <<call, active, reason, log>>
  BY DEF RootExits, GroupEmpties, OwnerDrains, OwnerDies, OrphansEnd, BoxStarts, Apply,
         LoseFrame, SendAgain, Exhaust, agentVars, vars
<1>2. applied' = applied \/ applied' = applied + 1
  BY DEF RootExits, GroupEmpties, OwnerDrains, OwnerDies, OrphansEnd, BoxStarts, Apply,
         LoseFrame, SendAgain, Exhaust, trackerVars, vars
<1>3. applied \in Nat /\ Len(log) \in Nat
  BY DEF CInv, SInv, TrackInv, Types
<1> QED BY <1>1, <1>2, <1>3 DEF CInv, FrameInv, HoldInv, LastIsBegin

LEMMA CallHolds ==
  ASSUME CInv,
         \/ \E op \in {"start", "stop", "wait"}, s \in Slots : Call(op, s)
         \/ CallSteps
  PROVE  FrameInv' /\ HoldInv'
<1> USE DEF CInv
<1>0. call \in Calls /\ log \in Seq({"begin", "end"})
  BY DEF SInv, Types
<1>1. ASSUME NEW op \in {"start", "stop", "wait"}, NEW s \in Slots, Call(op, s)
      PROVE  FrameInv' /\ HoldInv'
  <2> DEFINE flag == s \in active
  <2>1. call' = [Idle EXCEPT !.op = op, !.slot = s, !.at = "collect", !.flag = flag]
    BY <1>1 DEF Call
  <2>2. call'.at = "collect"
    <3> HIDE DEF flag
    <3> QED BY <2>1, IdleCall DEF Calls
  <2> QED BY <2>2, PlainPlace
<1>2. CASE Collect \/ Swept
  <2>1. CASE Collect /\ ~ ExhaustAll
    <3>1. call'.at = "sweep"
      BY <1>0, <2>1 DEF Collect, Calls
    <3> QED BY <3>1, PlainPlace
  <2>2. CASE Swept
    <3>1. call'.at = "decide"
      BY <2>2, GoPlace DEF Swept
    <3> QED BY <3>1, PlainPlace
  <2> QED BY <1>2, <2>1, <2>2, ExhaustHolds DEF Collect
<1>3. ASSUME NEW s \in Slots, Visit(s) PROVE FrameInv' /\ HoldInv'
  <2>0. call.at = "sweep" /\ s \in active
    BY <1>3 DEF Visit, At, SInv, PlaceInv
  <2>1. CASE Complete(s, "exited")
    BY <2>0, <2>1, CompleteHolds DEF Reasons
  <2>2. CASE ~ Complete(s, "exited")
    <3>1. Return \/ call' = [call EXCEPT !.todo = @ \ {s}]
      BY <1>3, <2>2 DEF Visit
    <3>2. call' = Idle \/ call'.at = "sweep"
      BY <1>0, <2>0, <3>1 DEF Return, Calls
    <3> QED BY <3>2, PlainPlace
  <2> QED BY <2>1, <2>2
<1>4. CASE Reap \/ Ended
  <2>1. UNCHANGED <<active, reason, log, applied>>
    BY <1>4 DEF Reap, Ended, agentVars, trackerVars
  <2>2. CASE Reap
    <3>1. call.at = "reaping" /\ call'.at = "removing" /\ call'.cur = call.cur
      BY <2>2, GoPlace DEF Reap, At
    <3> QED BY <2>1, <3>1 DEF FrameInv, HoldInv, Waiting
  <2>3. CASE Ended
    <3>1. call.at = "ending" /\ call'.at = "copying" /\ call'.cur = call.cur
      BY <2>3, GoPlace DEF Ended, At
    <3> QED BY <2>1, <3>1 DEF FrameInv, HoldInv, Waiting, LastIsBegin
  <2> QED BY <1>4, <2>2, <2>3
<1>5. CASE Remove
  <2>1. call.at = "removing" /\ UNCHANGED <<applied, open>>
    BY <1>5 DEF Remove, At
  <2>2. CASE call.cur \in dead
    BY <1>5, <2>2, PlainPlace DEF Remove, Return
  <2>3. CASE call.cur \notin dead
    <3>1. reason' = reason /\ active' = active \ {call.cur}
      BY <1>5, <2>3 DEF Remove, Deactivate
    <3>2. CASE active' = {}
      <4>1. Report("end") /\ Go("ending")
        BY <1>5, <2>3, <3>2 DEF Remove, Deactivate
      <4>2. call'.at = "ending" /\ call'.cur = call.cur
        BY <4>1, GoPlace
      <4>3. applied' >= Len(log') - 1 /\ ~ LastIsBegin'
        BY <2>1, <4>1, ReportedFrame DEF Waiting
      <4> QED BY <2>1, <3>1, <4>2, <4>3 DEF FrameInv, HoldInv, Waiting
    <3>3. CASE active' # {}
      <4>1. Go("copying")
        BY <1>5, <2>3, <3>3 DEF Remove, Deactivate
      <4>2. call'.at = "copying" /\ call'.cur = call.cur
        BY <4>1, GoPlace
      <4> QED BY <2>1, <3>1, <3>3, <4>2 DEF FrameInv, HoldInv, Waiting
    <3> QED BY <3>2, <3>3
  <2> QED BY <2>2, <2>3
<1>6. CASE Copy
  <2>1. call'.at = "sweep"
    BY <1>6, GoPlace DEF Copy
  <2> QED BY <2>1, PlainPlace
<1>7. CASE Admit
  <2>1. call.at = "decide" /\ UNCHANGED <<active, applied, open>>
    BY <1>7 DEF Admit, At
  <2>2. CASE ExhaustAll \/ Return
    BY <2>2, ExhaustHolds, PlainPlace DEF Return
  <2>3. CASE ~ (ExhaustAll \/ Return)
    <3>1. /\ ~ Refused
          /\ call' = [call EXCEPT !.flag = (active = {}),
                             !.at = IF active = {} THEN "opening" ELSE "launching"]
          /\ IF active = {} THEN Report("begin") ELSE UNCHANGED <<log, wire>>
      BY <1>7, <2>3 DEF Admit
    <3>2. ~ (Cardinality(active) >= Parallel)
      BY <3>1 DEF Refused
    <3>c. Cardinality(active) \in Nat
      <4>1. IsFiniteSet(active)
        BY StageAssumption, FS_Subset DEF SInv, Types
      <4> QED BY <4>1, FS_CardinalityType
    <3>3. CASE active = {}
      <4>1. call'.at = "opening"
        BY <1>0, <3>1, <3>3 DEF Calls
      <4>2. applied' >= Len(log') - 1
        BY <2>1, <3>1, <3>3, ReportedFrame DEF Waiting
      <4> QED BY <2>1, <3>2, <3>c, <4>1, <4>2, StageAssumption DEF FrameInv, HoldInv, Waiting
    <3>4. CASE active # {}
      <4>1. call'.at = "launching"
        BY <1>0, <3>1, <3>4 DEF Calls
      <4> QED BY <2>1, <3>2, <3>c, <4>1, StageAssumption DEF FrameInv, HoldInv, Waiting
    <3> QED BY <3>3, <3>4
  <2> QED BY <2>2, <2>3
<1>8. CASE Opened
  <2>1. call.at = "opening" /\ active' = active
    BY <1>8 DEF Opened, At, agentVars
  <2>2. CASE Return
    BY <2>2, PlainPlace DEF Return
  <2>3. CASE Go("launching")
    <3>1. call'.at = "launching"
      BY <2>3, GoPlace
    <3> QED BY <2>1, <3>1 DEF FrameInv, HoldInv, Waiting
  <2> QED BY <1>8, <2>2, <2>3 DEF Opened
<1>9. CASE LaunchFails
  <2>1. call.at = "launching" /\ UNCHANGED <<applied, open>>
    BY <1>9 DEF LaunchFails, At
  <2>2. CASE Return
    BY <2>2, PlainPlace DEF Return
  <2>3. CASE Report("end") /\ Go("closing")
    <3>1. call'.at = "closing"
      BY <2>3, GoPlace
    <3>2. applied' >= Len(log') - 1 /\ ~ LastIsBegin'
      BY <2>1, <2>3, ReportedFrame DEF Waiting
    <3> QED BY <3>1, <3>2 DEF FrameInv, HoldInv, Waiting
  <2> QED BY <1>9, <2>2, <2>3 DEF LaunchFails
<1>10. CASE StopTurn \/ GraceEnds
  <2>1. call.at \in {"decide", "grace"}
    BY <1>10 DEF StopTurn, GraceEnds, At
  <2>2. CASE call.slot \in active /\ Complete(call.slot, "stopped")
    BY <2>1, <2>2, CompleteHolds DEF Reasons
  <2>3. CASE Return
    BY <2>3, PlainPlace DEF Return
  <2>4. CASE Go("taking") \/ Go("grace")
    <3>1. call'.at \in {"taking", "grace"}
      BY <2>4, GoPlace
    <3> QED BY <3>1, PlainPlace
  <2>5. call.at = "grace" => call.slot \in active
    BY DEF SInv, PlaceInv
  <2> QED BY <1>10, <2>2, <2>3, <2>4, <2>5 DEF StopTurn, GraceEnds, At
<1>11. CASE RemovalFails \/ CopyFails \/ Launch \/ Closed \/ LaunchLost \/ GraceRaises \/ Take \/ Poll
  <2>1. Return
    BY <1>11 DEF RemovalFails, CopyFails, Launch, Closed, LaunchLost, GraceRaises, Take, Poll
  <2> QED BY <2>1, PlainPlace DEF Return
<1>12. CASE GraceExhausted
  BY <1>12, ExhaustHolds DEF GraceExhausted
<1> QED
  BY <1>1, <1>2, <1>3, <1>4, <1>5, <1>6, <1>7, <1>8, <1>9, <1>10, <1>11, <1>12 DEF CallSteps

LEMMA CInvHolds == Spec => []CInv
<1>1. Init => CInv
  <2>1. Init => FrameInv /\ HoldInv
    BY IdleCall DEF Init, FrameInv, HoldInv, Waiting
  <2> QED BY <2>1, InitSInv, InitLInv DEF CInv
<1>2. CInv /\ [Next]_vars => CInv'
  <2> SUFFICES ASSUME CInv, [Next]_vars PROVE CInv'
    OBVIOUS
  <2>1. SInv' /\ LInv'
    BY NextSInv, NextLInv DEF CInv
  <2>2. FrameInv' /\ HoldInv'
    BY WorldHolds, CallHolds DEF Next
  <2> QED BY <2>1, <2>2 DEF CInv
<1> QED BY <1>1, <1>2, PTL DEF Spec

\* What the contract's variables stand for.
MState == [s \in Slots |-> StateOf(s)]
MCause == [s \in Slots |-> IF StateOf(s) = "free" THEN "none" ELSE reason[s]]
MUp == {s \in Slots : turn[s] = "running"}
MAsked == [op |-> IF call.at \in {"opening", "launching"} THEN "admitted"
                  ELSE IF call.at = "closing" THEN "failed" ELSE call.op,
           slot |-> call.slot,
           turn |-> IF call.op = "stop" /\ call.flag THEN turns[call.slot] ELSE 0]
Asking == {"opening", "launching", "closing"}
Settling == {"ending", "copying"}

LEMMA WorkingIs ==
  ASSUME active \subseteq Slots
  PROVE  Contract!Working = active
BY DEF Contract!Working, StateOf

LEMMA UndecidedIs ==
  ASSUME active \subseteq Slots
  PROVE  Contract!Undecided = {s \in active : reason[s] = "none"}
<1>1. \A s \in active : StateOf(s) = "working"
  BY DEF StateOf
<1> QED BY <1>1, WorkingIs DEF Contract!Undecided

LEMMA SameSize == \A S : Contract!Cardinality(S) = Cardinality(S)
BY Zenon DEF Contract!Cardinality, Cardinality

\* A call that is over asks for nothing.
LEMMA IdleAsks ==
  ASSUME call = Idle
  PROVE  MAsked = Contract!Nobody
BY DEF MAsked, Idle, Contract!Nobody

LEMMA BackAsks == Return => MAsked' = Contract!Nobody
<1> SUFFICES ASSUME Return PROVE MAsked' = Contract!Nobody
  OBVIOUS
<1>1. (call = Idle => MAsked = Contract!Nobody)'
  BY IdleAsks, PTL
<1>2. Contract!Nobody' = Contract!Nobody
  BY DEF Contract!Nobody
<1> QED BY <1>1, <1>2 DEF Return

\* A call that goes on between places of one kind asks for the same.
LEMMA OnAsks ==
  ASSUME call'.op = call.op, call'.slot = call.slot, call'.flag = call.flag, turns' = turns,
         call.at \notin Asking, call'.at \notin Asking
  PROVE  MAsked' = MAsked
BY DEF MAsked, Asking

\* Turns change their state by becoming active or not, or at the end of a completion.
LEMMA StatesKept ==
  ASSUME active' = active, reason' = reason,
         \A s \in Slots : Completing(s)' <=> Completing(s)
  PROVE  MState' = MState /\ MCause' = MCause
<1>1. \A s \in Slots : StateOf(s)' = StateOf(s)
  BY DEF StateOf
<1> QED BY <1>1 DEF MState, MCause

LEMMA PlainStates ==
  ASSUME active' = active, call.at \notin Settling, call'.at \notin Settling
  PROVE  MState' = MState
<1>1. \A s \in Slots : StateOf(s)' = StateOf(s)
  BY DEF StateOf, Completing, Settling
<1> QED BY <1>1 DEF MState

WorldKept == UNCHANGED <<MUp, Alive, dead>>
ResultsKeptHere == UNCHANGED <<finished, returned, lost>>
MeterKept == UNCHANGED <<open, exhausted>>

\* A call that does nothing else goes on or comes back.
LEMMA QuietMaps ==
  ASSUME MState' = MState, MCause' = MCause, turns' = turns,
         WorldKept, ResultsKeptHere, MeterKept,
         MAsked' \in {MAsked, Contract!Nobody}
  PROVE  Contract!ContractNext \/ UNCHANGED Contract!contractVars
<1>1. CASE MAsked' = MAsked
  BY <1>1 DEF WorldKept, ResultsKeptHere, MeterKept, MState, MCause, MUp, MAsked,
     Contract!contractVars, Contract!turnVars, Contract!resultVars, Contract!meterVars
<1>2. CASE MAsked' = Contract!Nobody
  <2>1. Contract!ComesBack
    BY <1>2 DEF WorldKept, ResultsKeptHere, MeterKept, MState, MCause, MUp, MAsked,
       Contract!ComesBack, Contract!turnVars, Contract!resultVars, Contract!meterVars
  <2> QED BY <2>1 DEF Contract!ContractNext
<1> QED BY <1>1, <1>2

\* A turn ends, and what it started, with the call of somebody.
LEMMA FadeMaps ==
  ASSUME NEW s \in Slots, MState' = MState, MCause' = MCause, turns' = turns,
         MUp' = MUp \ {s}, Alive' \in {Alive, Alive \ {s}}, dead' = dead,
         ResultsKeptHere, MeterKept, MAsked' \in {MAsked, Contract!Nobody}
  PROVE  Contract!ContractNext
<1>1. Contract!Fades(s)
  BY DEF ResultsKeptHere, MeterKept, MState, MCause, MUp, MAsked, Contract!Fades,
     Contract!GoesOnOrBack, Contract!resultVars, Contract!meterVars
<1> QED BY <1>1 DEF Contract!ContractNext

\* Turns are given the reason for which they end.
LEMMA DecideMaps ==
  ASSUME SInv, LInv, NEW S \in SUBSET active, NEW why \in Reasons,
         \A s \in S : reason[s] = "none",
         \/ why = "exited" /\ \A s \in S : turn[s] # "running" \/ s \in dead
         \/ why = "stopped" /\ call.op = "stop" /\ S \subseteq {call.slot}
         \/ why = "exhausted" /\ exhausted /\ S = {s \in active : reason[s] = "none"},
         reason' = [s \in Slots |-> IF s \in S THEN why ELSE reason[s]],
         call.at \notin Settling \cup Asking, call'.at \notin Settling,
         UNCHANGED <<active, turns, turn, box, dead, finished, returned, lost, open, exhausted>>,
         MAsked' \in {MAsked, Contract!Nobody}
  PROVE  Contract!ContractNext
<1>0. active \subseteq Slots /\ S \subseteq Slots
  BY DEF SInv, Types
<1>1. MState' = MState
  BY PlainStates
<1>2. \A s \in Slots : StateOf(s)' = StateOf(s)
  BY DEF StateOf, Completing, Settling
<1>3. \A s \in S : StateOf(s) = "working" /\ s \in Contract!Undecided
  BY <1>0, UndecidedIs DEF StateOf
<1>4. MCause' = [s \in Slots |-> IF s \in S THEN why ELSE MCause[s]]
  <2>1. \A s \in Slots : StateOf(s) = "free" => s \notin S
    BY <1>3
  <2> QED BY <1>2, <2>1, <1>3 DEF MCause
<1>5. WorldKept /\ ResultsKeptHere /\ MeterKept
  BY DEF WorldKept, ResultsKeptHere, MeterKept, MUp, Alive
<1>6. /\ why = "exited" => \A s \in S : s \notin MUp \/ s \in dead
      /\ why = "stopped" => MAsked.op = "stop" /\ S \subseteq {MAsked.slot}
      /\ why = "exhausted" => exhausted /\ S = Contract!Undecided
  BY <1>0, UndecidedIs DEF MUp, MAsked, Asking
<1>7. Contract!Decides(S, why)
  BY <1>0, <1>1, <1>3, <1>4, <1>5, <1>6 DEF Contract!Decides, Contract!GoesOnOrBack, MState,
     MCause, MUp, MAsked, WorldKept, ResultsKeptHere, MeterKept, Reasons,
     Contract!resultVars, Contract!meterVars
<1> QED BY <1>0, <1>7 DEF Contract!ContractNext, Reasons

\* _exhaust_all decides every turn that has no reason yet, or raises.
LEMMA ExhaustMaps ==
  ASSUME SInv, LInv, ExhaustAll, exhausted, call.at \in {"collect", "decide", "grace"},
         UNCHANGED <<active, turns, turn, box, dead, finished, returned, lost, open, exhausted>>
  PROVE  Contract!ContractNext \/ UNCHANGED Contract!contractVars
<1>1. CASE Return /\ reason' = reason
  <2>1. MState' = MState /\ MCause' = MCause
    BY <1>1, IdleCall, StatesKept DEF Completing, Return
  <2> QED BY <1>1, <2>1, BackAsks, QuietMaps DEF WorldKept, ResultsKeptHere, MeterKept, MUp, Alive
<1>2. CASE /\ reason' = [s \in Slots |-> IF s \in active /\ reason[s] = "none" THEN "exhausted"
                                        ELSE reason[s]]
           /\ call' = [call EXCEPT !.at = "sweep", !.todo = active]
  <2> DEFINE S == {s \in active : reason[s] = "none"}
  <2>1. /\ call'.at = "sweep" /\ call'.op = call.op /\ call'.slot = call.slot
        /\ call'.flag = call.flag
    BY <1>2 DEF SInv, Types, Calls
  <2>2. MAsked' = MAsked
    BY <2>1, OnAsks DEF Asking
  <2>3. reason' = [s \in Slots |-> IF s \in S THEN "exhausted" ELSE reason[s]]
    BY <1>2
  <2>4. S \in SUBSET active /\ \A s \in S : reason[s] = "none"
    OBVIOUS
  <2>5. S = {s \in active : reason[s] = "none"}
    OBVIOUS
  <2> HIDE DEF S
  <2> QED BY <2>1, <2>2, <2>3, <2>4, <2>5, DecideMaps DEF Settling, Asking, Reasons
<1> QED BY <1>1, <1>2 DEF ExhaustAll

\* _complete gives a turn its reason, if it has none.
LEMMA CompleteMaps ==
  ASSUME SInv, LInv, NEW s \in active, NEW why \in {"exited", "stopped"}, Complete(s, why),
         \/ why = "exited" /\ (reason[s] = "none" => turn[s] # "running" \/ s \in dead)
         \/ why = "stopped" /\ call.op = "stop" /\ s = call.slot,
         call.at \in {"sweep", "decide", "grace"},
         UNCHANGED <<active, turns, turn, box, dead, finished, returned, lost, open, exhausted>>
  PROVE  Contract!ContractNext \/ UNCHANGED Contract!contractVars
<1> DEFINE S == IF reason[s] = "none" THEN {s} ELSE {}
<1>0. reason \in [Slots -> Reasons \cup {"none"}] /\ active \subseteq Slots
  BY DEF LInv, EntryTypes, SInv, Types
<1>1. reason' = [x \in Slots |-> IF x \in S THEN why ELSE reason[x]]
  BY <1>0 DEF Complete
<1>2. S \in SUBSET active /\ \A x \in S : reason[x] = "none" /\ x = s
  OBVIOUS
<1> HIDE DEF S
<1>3. call'.at \notin Settling /\ MAsked' \in {MAsked, Contract!Nobody}
  <2>1. CASE Return
    BY <2>1, IdleCall, BackAsks DEF Return, Settling
  <2>2. CASE call' = [call EXCEPT !.at = "reaping", !.cur = s, !.todo = @ \ {s}]
    <3>1. /\ call'.at = "reaping" /\ call'.op = call.op /\ call'.slot = call.slot
          /\ call'.flag = call.flag
      BY <2>2 DEF SInv, Types, Calls
    <3> QED BY <3>1, OnAsks DEF Asking, Settling
  <2> QED BY <2>1, <2>2 DEF Complete
<1>4. \/ why = "exited" /\ \A x \in S : turn[x] # "running" \/ x \in dead
      \/ why = "stopped" /\ call.op = "stop" /\ S \subseteq {call.slot}
  BY <1>2
<1> QED BY <1>1, <1>2, <1>3, <1>4, DecideMaps DEF Settling, Asking, Reasons

\* A call that moves on, or returns, and changes nothing that the contract knows.
LEMMA SilentMaps ==
  ASSUME SInv, call.at \notin Settling,
         \/ Return
         \/ /\ call.at \notin Asking /\ call'.at \notin Settling \cup Asking
            /\ call'.op = call.op /\ call'.slot = call.slot /\ call'.flag = call.flag,
         UNCHANGED <<active, reason, turns, finished, returned, lost, dead, open, exhausted>>,
         MUp' = MUp, Alive' = Alive
  PROVE  Contract!ContractNext \/ UNCHANGED Contract!contractVars
<1>1. call'.at \notin Settling
  BY IdleCall DEF Return, Settling
<1>2. MState' = MState /\ MCause' = MCause
  BY <1>1, StatesKept DEF Completing, Settling
<1>3. MAsked' \in {MAsked, Contract!Nobody}
  BY BackAsks, OnAsks
<1> QED BY <1>2, <1>3, QuietMaps DEF WorldKept, ResultsKeptHere, MeterKept

LEMMA CallMaps ==
  ASSUME CInv, NEW op \in {"start", "stop", "wait"}, NEW s \in Slots, Call(op, s)
  PROVE  Contract!ContractNext
<1> USE DEF CInv
<1> DEFINE flag == s \in active
<1>1. /\ call' = [Idle EXCEPT !.op = op, !.slot = s, !.at = "collect", !.flag = flag]
      /\ call.at = "idle"
      /\ UNCHANGED <<active, reason, turns, finished, turn, box, dead, open, exhausted,
                     returned, lost>>
  BY DEF Call, At, agentVars, worldVars, trackerVars
<1>2. flag \in BOOLEAN
  OBVIOUS
<1>3. call'.at = "collect" /\ call'.op = op /\ call'.slot = s /\ call'.flag = flag
  <2> HIDE DEF flag
  <2> QED BY <1>1, <1>2, IdleCall DEF Calls
<1>4. MAsked = Contract!Nobody
  BY <1>1, IdleAsks DEF HoldInv
<1>5. MState' = MState /\ MCause' = MCause
  BY <1>1, <1>3, StatesKept DEF Completing
<1>6. MState[s] = "working" <=> flag
  BY <1>1 DEF MState, StateOf, Completing
<1>7. MAsked' = [op |-> op, slot |-> s,
                 turn |-> IF op = "stop" /\ MState[s] = "working" THEN turns[s] ELSE 0]
  <2> HIDE DEF flag
  <2>1. MAsked' = [op |-> op, slot |-> s, turn |-> IF op = "stop" /\ flag THEN turns[s] ELSE 0]
    BY <1>1, <1>2, <1>3 DEF MAsked
  <2> QED BY <1>6, <2>1
<1>8. WorldKept /\ ResultsKeptHere /\ MeterKept
  BY <1>1 DEF WorldKept, ResultsKeptHere, MeterKept, MUp, Alive
<1>9. Contract!Ask(op, s)
  BY <1>1, <1>4, <1>5, <1>7, <1>8 DEF Contract!Ask, MState, MCause, MAsked, MUp, WorldKept,
     ResultsKeptHere, MeterKept, Contract!turnVars, Contract!resultVars, Contract!meterVars
<1> QED BY <1>9 DEF Contract!ContractNext

LEMMA CollectMaps ==
  ASSUME CInv, Collect \/ Swept \/ \E s \in Slots : Visit(s)
  PROVE  Contract!ContractNext \/ UNCHANGED Contract!contractVars
<1> USE DEF CInv
<1>0. call \in Calls
  BY DEF SInv, Types
<1>1. CASE Collect
  <2>1. /\ call.at = "collect"
        /\ UNCHANGED <<active, turns, turn, box, dead, finished, returned, lost, open, exhausted>>
    BY <1>1 DEF Collect, At, worldVars, trackerVars
  <2>2. CASE exhausted
    BY <1>1, <2>1, <2>2, ExhaustMaps DEF Collect
  <2>3. CASE ~ exhausted
    <3>1. call' = [call EXCEPT !.at = "sweep", !.todo = active] /\ reason' = reason
      BY <1>1, <2>3 DEF Collect
    <3>2. /\ call'.at = "sweep" /\ call'.op = call.op /\ call'.slot = call.slot
          /\ call'.flag = call.flag
      BY <1>0, <3>1 DEF Calls
    <3> QED BY <2>1, <3>1, <3>2, SilentMaps DEF Settling, Asking, MUp, Alive
  <2> QED BY <2>2, <2>3
<1>2. CASE Swept
  <2>1. /\ call.at = "sweep"
        /\ UNCHANGED <<active, reason, turns, turn, box, dead, finished, returned, lost, open,
                       exhausted>>
    BY <1>2 DEF Swept, At, agentVars, worldVars, trackerVars
  <2>2. /\ call'.at = "decide" /\ call'.op = call.op /\ call'.slot = call.slot
        /\ call'.flag = call.flag
    BY <1>2, GoPlace DEF Swept
  <2> QED BY <2>1, <2>2, SilentMaps DEF Settling, Asking, MUp, Alive
<1>3. ASSUME NEW s \in Slots, Visit(s)
      PROVE  Contract!ContractNext \/ UNCHANGED Contract!contractVars
  <2>1. /\ call.at = "sweep" /\ s \in active
        /\ UNCHANGED <<active, turns, turn, box, dead, finished, returned, lost, open, exhausted>>
    BY <1>3 DEF Visit, At, worldVars, trackerVars, SInv, PlaceInv
  <2>2. CASE /\ reason[s] # "none" \/ s \in dead \/ turn[s] # "running"
             /\ Complete(s, "exited")
    BY <2>1, <2>2, CompleteMaps
  <2>3. CASE (Return \/ call' = [call EXCEPT !.todo = @ \ {s}]) /\ reason' = reason
    <3>1. \/ Return
          \/ /\ call'.at = "sweep" /\ call'.op = call.op /\ call'.slot = call.slot
             /\ call'.flag = call.flag
      BY <1>0, <2>1, <2>3 DEF Calls
    <3> QED BY <2>1, <2>3, <3>1, SilentMaps DEF Settling, Asking, MUp, Alive
  <2> QED BY <1>3, <2>2, <2>3 DEF Visit
<1> QED BY <1>1, <1>2, <1>3

\* docker rm has removed the container, or has not, and the call raises.
LEMMA RemovalMaps ==
  ASSUME SInv, LInv, call.at = "removing", Return, box' \in {box, box \ {call.cur}},
         UNCHANGED <<active, reason, turns, turn, dead, finished, returned, lost, open, exhausted>>
  PROVE  Contract!ContractNext \/ UNCHANGED Contract!contractVars
<1> DEFINE s == call.cur
<1>1. s \in Slots
  BY DEF SInv, Types, Calls
<1>2. Alive' = {x \in Slots : turn[x] \in Living} \cup box'
  BY DEF Alive, Living
<1>3. Alive = {x \in Slots : turn[x] \in Living} \cup box
  BY DEF Alive, Living
<1>4. CASE turn[s] \in Living
  <2>1. Alive' = Alive
    BY <1>1, <1>2, <1>3, <1>4
  <2> QED BY <2>1, SilentMaps DEF Settling, MUp
<1>5. CASE turn[s] \notin Living
  <2>1. Alive' \in {Alive, Alive \ {s}}
    BY <1>1, <1>2, <1>3, <1>5
  <2>2. MUp' = MUp \ {s}
    BY <1>5 DEF MUp, Living
  <2>3. MState' = MState /\ MCause' = MCause
    BY IdleCall, StatesKept DEF Completing, Return
  <2> QED BY <1>1, <2>1, <2>2, <2>3, BackAsks, FadeMaps DEF ResultsKeptHere, MeterKept
<1> QED BY <1>4, <1>5

\* The turn is over and nothing of it is left.
LEMMA EndMaps ==
  ASSUME CInv, Remove, NEW s \in Slots, s = call.cur, s \notin dead
  PROVE  Contract!ContractNext
<1> USE DEF CInv
<1>1. /\ call.at = "removing" /\ s \in active /\ s \in Slots /\ turn[s] = "gone"
      /\ reason[s] # "none"
  BY DEF Remove, At, SInv, PlaceInv, Types, Calls, HoldInv
<1>2. /\ active' = active \ {s} /\ box' = box \ {s}
      /\ UNCHANGED <<reason, turns, finished, turn, dead, open, exhausted, returned, lost>>
  BY DEF Remove, Deactivate
<1>3. /\ call'.at \in Settling /\ call'.op = call.op /\ call'.slot = call.slot
      /\ call'.flag = call.flag /\ call'.cur = s
  <2>1. Go("ending") \/ Go("copying")
    BY DEF Remove, Deactivate
  <2> QED BY <2>1, GoPlace DEF Settling
<1>4. MAsked' = MAsked
  BY <1>1, <1>2, <1>3, OnAsks DEF Asking, Settling
<1>5. StateOf(s) = "working" /\ StateOf(s)' = "ending"
  BY <1>1, <1>2, <1>3 DEF StateOf, Completing, Settling
<1>6. \A x \in Slots \ {s} : StateOf(x)' = StateOf(x)
  BY <1>1, <1>2, <1>3 DEF StateOf, Completing, Settling
<1>7. MState[s] = "working" /\ MState' = [MState EXCEPT ![s] = "ending"]
  BY <1>1, <1>5, <1>6 DEF MState
<1>8. MCause[s] # "none" /\ MCause' = MCause
  BY <1>1, <1>2, <1>5, <1>6 DEF MCause
<1>9. Alive' = Alive \ {s} /\ MUp' = MUp \ {s}
  <2>1. Alive' = {x \in Slots : turn[x] \in Living} \cup box'
    BY <1>2 DEF Alive, Living
  <2> QED BY <1>1, <1>2, <2>1 DEF Alive, Living, MUp
<1>10. Contract!Ends(s)
  BY <1>2, <1>4, <1>7, <1>8, <1>9 DEF Contract!Ends, MState, MCause, MAsked, MUp,
     Contract!resultVars, Contract!meterVars
<1> QED BY <1>1, <1>10 DEF Contract!ContractNext

\* The snapshot is there and the result waits, or it could not be made; the Tracker has
\* acknowledged END before, if nothing works any more.
LEMMA SettleMaps ==
  ASSUME CInv, Copy \/ CopyFails, NEW s \in Slots, s = call.cur
  PROVE  Contract!ContractNext
<1> USE DEF CInv
<1>1. /\ call.at = "copying" /\ s \in Slots \ active
      /\ UNCHANGED <<active, reason, turns, turn, box, dead, open, exhausted, returned>>
  BY DEF Copy, CopyFails, At, SInv, Types, Calls, LInv, PathInv, agentVars, worldVars, trackerVars
<1>2. call'.at \notin Settling
  BY GoPlace, IdleCall DEF Copy, CopyFails, Return, Settling
<1>3. StateOf(s) = "ending" /\ StateOf(s)' = "free"
  BY <1>1, <1>2 DEF StateOf, Completing, Settling
<1>4. \A x \in Slots \ {s} : StateOf(x)' = StateOf(x)
  BY <1>1, <1>2 DEF StateOf, Completing, Settling
<1>5. MState[s] = "ending" /\ MState' = [MState EXCEPT ![s] = "free"]
  BY <1>1, <1>3, <1>4 DEF MState
<1>6. MCause[s] = reason[s] /\ MCause' = [MCause EXCEPT ![s] = "none"]
  BY <1>1, <1>3, <1>4 DEF MCause
<1>7. Contract!Working = {} => open = FALSE
  <2> SUFFICES ASSUME active = {} PROVE open = FALSE
    BY WorkingIs DEF SInv, Types
  <2>1. ~ LastIsBegin /\ applied = Len(log)
    BY <1>1 DEF FrameInv, SInv, PlaceInv, Waiting
  <2>2. applied # 0 => log # <<>>
    BY <2>1 DEF SInv, Types
  <2> QED BY <2>1, <2>2 DEF SInv, TrackInv, LastIsBegin
<1>8. WorldKept /\ MeterKept
  BY <1>1 DEF WorldKept, MeterKept, MUp, Alive
<1>9. \/ /\ finished' = Append(finished, [slot |-> s, number |-> turns[s], reason |-> MCause[s]])
         /\ lost' = lost /\ MAsked' = MAsked
      \/ /\ lost' = lost \cup {<<s, turns[s]>>}
         /\ MAsked' = Contract!Nobody /\ finished' = finished
  <2>1. CASE Copy
    <3>1. /\ call'.at = "sweep" /\ call'.op = call.op /\ call'.slot = call.slot
          /\ call'.flag = call.flag
      BY <2>1, GoPlace DEF Copy
    <3>2. MAsked' = MAsked
      BY <1>1, <3>1, OnAsks DEF Asking
    <3> QED BY <1>6, <2>1, <3>2 DEF Copy
  <2>2. CASE CopyFails
    BY <2>2, BackAsks DEF CopyFails, agentVars
  <2> QED BY <2>1, <2>2
<1>10. Contract!Settles(s)
  BY <1>1, <1>5, <1>6, <1>7, <1>8, <1>9 DEF Contract!Settles, MState, MCause, MAsked, MUp,
     WorldKept, MeterKept, Contract!meterVars
<1> QED BY <1>1, <1>10 DEF Contract!ContractNext

LEMMA CompletionMaps ==
  ASSUME CInv, Reap \/ Remove \/ RemovalFails \/ Ended \/ Copy \/ CopyFails
  PROVE  Contract!ContractNext \/ UNCHANGED Contract!contractVars
<1> USE DEF CInv
<1>1. CASE Reap
  <2>1. /\ call.at = "reaping"
        /\ UNCHANGED <<active, reason, turns, turn, box, dead, finished, returned, lost, open,
                       exhausted>>
    BY <1>1 DEF Reap, At, agentVars, worldVars, trackerVars
  <2>2. /\ call'.at = "removing" /\ call'.op = call.op /\ call'.slot = call.slot
        /\ call'.flag = call.flag
    BY <1>1, GoPlace DEF Reap
  <2> QED BY <2>1, <2>2, SilentMaps DEF Settling, Asking, MUp, Alive
<1>2. CASE Ended
  <2>1. /\ call.at = "ending"
        /\ UNCHANGED <<active, reason, turns, turn, box, dead, finished, returned, lost, open,
                       exhausted>>
    BY <1>2 DEF Ended, At, agentVars, worldVars, trackerVars
  <2>2. /\ call'.at = "copying" /\ call'.op = call.op /\ call'.slot = call.slot
        /\ call'.flag = call.flag /\ call'.cur = call.cur
    BY <1>2, GoPlace DEF Ended
  <2>3. MAsked' = MAsked
    BY <2>1, <2>2, OnAsks DEF Asking
  <2>4. MState' = MState /\ MCause' = MCause
    BY <2>1, <2>2, StatesKept DEF Completing
  <2> QED BY <2>1, <2>3, <2>4, QuietMaps DEF WorldKept, ResultsKeptHere, MeterKept, MUp, Alive
<1>3. CASE RemovalFails \/ (Remove /\ call.cur \in dead)
  <2>1. /\ call.at = "removing" /\ Return /\ box' \in {box, box \ {call.cur}}
        /\ UNCHANGED <<active, reason, turns, turn, dead, finished, returned, lost, open,
                       exhausted>>
    BY <1>3 DEF RemovalFails, Remove, At, agentVars, trackerVars
  <2> QED BY <2>1, RemovalMaps
<1>4. call.cur \in Slots
  BY DEF SInv, Types, Calls
<1> QED BY <1>1, <1>2, <1>3, <1>4, EndMaps, SettleMaps

\* The call becomes one for an admitted turn.
LEMMA AdmissionMaps ==
  ASSUME SInv, call.at = "decide", call.op = "start", ~ exhausted, ~ Refused,
         call' = [call EXCEPT !.flag = (active = {}),
                        !.at = IF active = {} THEN "opening" ELSE "launching"],
         UNCHANGED <<active, reason, turns, turn, box, dead, finished, returned, lost, open,
                     exhausted>>
  PROVE  Contract!ContractNext
<1> DEFINE s == call.slot
<1>0. call \in Calls /\ s \in Slots /\ active \subseteq Slots
  BY DEF SInv, Types, Calls
<1>1. /\ call'.at \in {"opening", "launching"} /\ call'.op = "start" /\ call'.slot = s
  BY <1>0 DEF Calls
<1>2. MState' = MState /\ MCause' = MCause
  BY <1>1, StatesKept DEF Completing
<1>3. MAsked = [op |-> "start", slot |-> s, turn |-> 0]
      /\ MAsked' = [op |-> "admitted", slot |-> s, turn |-> 0]
  BY <1>1 DEF MAsked
<1>4. MState[s] = "free"
  BY <1>0 DEF MState, StateOf, Completing, Refused
<1>5. Contract!Cardinality(Contract!Working) < Parallel
  <2>1. IsFiniteSet(active)
    BY <1>0, StageAssumption, FS_Subset
  <2>2. Cardinality(active) \in Nat /\ ~ (Cardinality(active) >= Parallel)
    BY <2>1, FS_CardinalityType DEF Refused
  <2>3. Cardinality(active) < Parallel
    BY <2>2, StageAssumption
  <2>4. Contract!Working = active
    BY <1>0, WorkingIs
  <2> QED BY <2>3, <2>4, SameSize
<1>6. turns[s] > 0 => Continue
  BY DEF Refused
<1>7. MAsked' = [MAsked EXCEPT !.op = "admitted"]
  BY <1>3
<1>8. WorldKept /\ ResultsKeptHere /\ MeterKept
  BY DEF WorldKept, ResultsKeptHere, MeterKept, MUp, Alive
<1>9. Contract!Admits(s)
  BY <1>0, <1>2, <1>3, <1>4, <1>5, <1>6, <1>7, <1>8 DEF Contract!Admits, MState, MCause, MAsked,
     MUp, WorldKept, ResultsKeptHere, MeterKept, Contract!turnVars, Contract!resultVars,
     Contract!meterVars
<1> QED BY <1>0, <1>9 DEF Contract!ContractNext

\* The turn begins: its slot was free, and BEGIN is the last frame acknowledged.
LEMMA LaunchMaps ==
  ASSUME CInv, Launch, NEW s \in Slots, s = call.slot
  PROVE  Contract!ContractNext
<1> USE DEF CInv
<1>0. /\ active \subseteq Slots /\ turns \in [Slots -> Nat] /\ box \subseteq active
      /\ reason \in [Slots -> Reasons \cup {"none"}]
      /\ turn \in [Slots -> {"none", "running", "rootless", "quiet", "gone"}]
  BY DEF SInv, Types, LInv, EntryTypes, AliveInv
<1>1. /\ call.at = "launching" /\ call.op = "start" /\ s \notin active
      /\ Cardinality(active) < Parallel
  BY DEF Launch, At, LInv, PathInv, HoldInv
<1>2. /\ active' = active \cup {s} /\ turns' = [turns EXCEPT ![s] = @ + 1]
      /\ reason' = [reason EXCEPT ![s] = "none"] /\ turn' = [turn EXCEPT ![s] = "running"]
      /\ Return
      /\ UNCHANGED <<finished, box, dead, open, exhausted, returned, lost>>
  BY DEF Launch, trackerVars
<1>3. call'.at = "idle"
  BY <1>2, IdleCall DEF Return
<1>4. StateOf(s) = "free" /\ StateOf(s)' = "working"
  BY <1>1, <1>2 DEF StateOf, Completing
<1>5. \A x \in Slots \ {s} : StateOf(x)' = StateOf(x)
  BY <1>1, <1>2, <1>3 DEF StateOf, Completing
<1>6. MState[s] = "free" /\ MState' = [MState EXCEPT ![s] = "working"]
  BY <1>4, <1>5 DEF MState
<1>7. MCause' = MCause
  BY <1>0, <1>2, <1>4, <1>5 DEF MCause
<1>8. s \notin Alive /\ Alive' = Alive \cup {s} /\ MUp' = MUp \cup {s}
  <2>1. turn[s] \notin Living /\ s \notin box
    BY <1>0, <1>1 DEF SInv, AliveInv
  <2>2. Alive' = {x \in Slots : turn'[x] \in Living} \cup box
    BY <1>2 DEF Alive, Living
  <2> QED BY <1>0, <1>2, <2>1, <2>2 DEF Alive, Living, MUp
<1>9. open = TRUE
  <2>1. applied = Len(log) /\ LastIsBegin
    BY <1>1 DEF SInv, PlaceInv, Waiting
  <2>2. Len(log) # 0
    BY <2>1 DEF LastIsBegin, SInv, Types
  <2> QED BY <2>1, <2>2 DEF SInv, TrackInv, LastIsBegin
<1>10. MAsked = [op |-> "admitted", slot |-> s, turn |-> 0] /\ MAsked' = Contract!Nobody
  BY <1>1, <1>2, BackAsks DEF MAsked
<1>11. Contract!Cardinality(Contract!Working) < Parallel
  BY <1>0, <1>1, WorkingIs, SameSize
<1>12. Contract!Begins(s)
  BY <1>2, <1>6, <1>7, <1>8, <1>9, <1>10, <1>11 DEF Contract!Begins, MState, MCause, MAsked,
     MUp, Contract!resultVars, Contract!meterVars
<1> QED BY <1>12 DEF Contract!ContractNext

LEMMA StartMaps ==
  ASSUME CInv, Admit \/ Opened \/ LaunchFails \/ Closed \/ LaunchLost
  PROVE  Contract!ContractNext \/ UNCHANGED Contract!contractVars
<1> USE DEF CInv
<1>0. call \in Calls
  BY DEF SInv, Types
<1>1. CASE Admit
  <2>1. /\ call.at = "decide" /\ call.op = "start"
        /\ UNCHANGED <<active, turns, turn, box, dead, finished, returned, lost, open, exhausted>>
    BY <1>1 DEF Admit, At, worldVars
  <2>2. CASE exhausted /\ ExhaustAll
    BY <2>1, <2>2, ExhaustMaps
  <2>3. CASE Return /\ reason' = reason
    BY <2>1, <2>3, SilentMaps DEF Settling, MUp, Alive
  <2>4. CASE /\ ~ exhausted /\ ~ Refused /\ reason' = reason
             /\ call' = [call EXCEPT !.flag = (active = {}),
                              !.at = IF active = {} THEN "opening" ELSE "launching"]
    BY <2>1, <2>4, AdmissionMaps
  <2> QED BY <1>1, <2>2, <2>3, <2>4 DEF Admit
<1>2. CASE (Opened \/ LaunchFails \/ Closed \/ LaunchLost) /\ Return
  <2>1. /\ call.at \in Asking
        /\ UNCHANGED <<active, reason, turns, turn, box, dead, finished, returned, lost, open,
                       exhausted>>
    BY <1>2 DEF Opened, LaunchFails, Closed, LaunchLost, At, agentVars, worldVars, trackerVars,
       Asking
  <2> QED BY <1>2, <2>1, SilentMaps DEF Settling, Asking, MUp, Alive
<1>3. CASE (Opened \/ LaunchFails) /\ ~ Return
  <2>1. /\ UNCHANGED <<active, reason, turns, turn, box, dead, finished, returned, lost, open,
                       exhausted>>
        /\ \/ call.at = "opening" /\ Go("launching")
           \/ call.at = "launching" /\ Go("closing")
    BY <1>3 DEF Opened, LaunchFails, At, agentVars, worldVars, trackerVars
  <2>2. call'.op = "start" /\ call.op = "start" /\ call'.slot = call.slot
    BY <2>1, GoPlace DEF LInv, PathInv
  <2>3. \/ call.at = "opening" /\ call'.at = "launching"
        \/ call.at = "launching" /\ call'.at = "closing"
    BY <2>1, GoPlace
  <2>4. MState' = MState /\ MCause' = MCause
    BY <2>1, <2>3, StatesKept DEF Completing
  <2>5. WorldKept /\ ResultsKeptHere /\ MeterKept
    BY <2>1 DEF WorldKept, ResultsKeptHere, MeterKept, MUp, Alive
  <2>6. MAsked = [op |-> "admitted", slot |-> call.slot, turn |-> 0]
    BY <2>2, <2>3 DEF MAsked
  <2>7. CASE call'.at = "launching"
    <3>1. MAsked' = MAsked
      BY <2>2, <2>6, <2>7 DEF MAsked
    <3> QED BY <2>1, <2>4, <2>5, <3>1, QuietMaps
  <2>8. CASE call'.at = "closing"
    <3>1. MAsked' = [op |-> "failed", slot |-> call.slot, turn |-> 0]
      BY <2>2, <2>8 DEF MAsked
    <3>2. MAsked' = [MAsked EXCEPT !.op = "failed"]
      BY <2>6, <3>1
    <3>3. Contract!Fails
      BY <2>1, <2>4, <2>5, <2>6, <3>2 DEF Contract!Fails, MState, MCause, MAsked, MUp, WorldKept,
         ResultsKeptHere, MeterKept, Contract!turnVars, Contract!resultVars, Contract!meterVars
    <3> QED BY <3>3 DEF Contract!ContractNext
  <2> QED BY <2>3, <2>7, <2>8
<1> QED BY <1>1, <1>2, <1>3 DEF Closed, LaunchLost

\* A stop or a wait gives a result, once, to the call it is due to.
LEMMA GiveMaps ==
  ASSUME SInv, LInv, Return, NEW i \in DOMAIN finished, Give(i),
         \/ call.at = "taking" /\ i \in Results(call.slot) /\ Chosen(i)
         \/ call.at = "decide" /\ call.op = "wait" /\ i = 1,
         UNCHANGED <<active, reason, turns, turn, box, dead, lost, open, exhausted>>
  PROVE  Contract!ContractNext
<1> DEFINE p == <<finished[i].slot, finished[i].number>>
<1>1. p \notin returned
  BY DEF LInv, BookInv, Pending
<1>2. MState' = MState /\ MCause' = MCause
  BY IdleCall, StatesKept DEF Completing, Return
<1>3. MAsked' = Contract!Nobody
  BY BackAsks
<1>4. Contract!Brings(i)
  <2>1. CASE call.at = "decide" /\ call.op = "wait" /\ i = 1
    BY <2>1 DEF Contract!Brings
  <2>2. CASE call.at = "taking" /\ i \in Results(call.slot) /\ Chosen(i)
    <3>1. call.op = "stop" /\ finished[i].slot = call.slot
      BY <2>2 DEF LInv, PathInv, Results
    <3>2. CASE call.flag
      <4>1. /\ finished[i].number = turns[call.slot]
            /\ <<call.slot, turns[call.slot]>> \in Pending
        BY <2>2, <3>2, NewestIsTurn
      <4>2. <<call.slot, turns[call.slot]>> \in Started
        BY <4>1 DEF LInv, BookInv
      <4>3. turns[call.slot] # 0
        BY <4>2, StartedIs DEF LInv, EntryTypes
      <4> QED BY <2>2, <3>1, <3>2, <4>1, <4>3 DEF Contract!Brings
    <3>3. CASE ~ call.flag
      <4>1. \A j \in Results(call.slot) : i <= j
        BY <2>2, <3>3 DEF Chosen
      <4>2. i \in Nat /\ DOMAIN finished = 1 .. Len(finished) /\ Len(finished) \in Nat
        BY DEF LInv, EntryTypes
      <4>3. \A j \in 1 .. i - 1 : finished[j].slot # call.slot
        BY <4>1, <4>2 DEF Results
      <4> QED BY <2>2, <3>1, <3>3, <4>3 DEF Contract!Brings
    <3> QED BY <3>2, <3>3
  <2> QED BY <2>1, <2>2
<1>5. WorldKept /\ MeterKept
  BY DEF WorldKept, MeterKept, MUp, Alive
<1>6. Contract!Gives(i)
  BY <1>1, <1>2, <1>3, <1>4, <1>5 DEF Give, Contract!Gives, MState, MCause, MAsked, MUp, WorldKept,
     MeterKept, Contract!turnVars, Contract!meterVars
<1> QED BY <1>6 DEF Contract!ContractNext

LEMMA StopMaps ==
  ASSUME CInv, StopTurn \/ GraceEnds \/ GraceRaises \/ GraceExhausted \/ Take \/ Poll
  PROVE  Contract!ContractNext \/ UNCHANGED Contract!contractVars
<1> USE DEF CInv
<1>1. CASE StopTurn \/ GraceEnds \/ GraceRaises
  <2>1. /\ call.at \in {"decide", "grace"} /\ call.op = "stop"
        /\ UNCHANGED <<active, turns, turn, box, dead, finished, returned, lost, open, exhausted>>
    BY <1>1 DEF StopTurn, GraceEnds, GraceRaises, At, agentVars, worldVars, trackerVars, LInv, PathInv
  <2>2. CASE call.slot \in active /\ Complete(call.slot, "stopped")
    BY <2>1, <2>2, CompleteMaps
  <2>3. CASE Return /\ reason' = reason
    BY <2>1, <2>3, SilentMaps DEF Settling, MUp, Alive
  <2>4. CASE (Go("taking") \/ Go("grace")) /\ reason' = reason
    <3>1. /\ call'.at \in {"taking", "grace"} /\ call'.op = call.op /\ call'.slot = call.slot
          /\ call'.flag = call.flag
      BY <2>4, GoPlace
    <3> QED BY <2>1, <2>4, <3>1, SilentMaps DEF Settling, Asking, MUp, Alive
  <2>5. call.at = "grace" => call.slot \in active
    BY DEF SInv, PlaceInv
  <2> QED BY <1>1, <2>2, <2>3, <2>4, <2>5 DEF StopTurn, GraceEnds, GraceRaises, At, agentVars
<1>2. CASE GraceExhausted
  <2>1. /\ call.at = "grace" /\ exhausted /\ ExhaustAll
        /\ UNCHANGED <<active, turns, turn, box, dead, finished, returned, lost, open, exhausted>>
    BY <1>2 DEF GraceExhausted, At, worldVars, trackerVars
  <2> QED BY <2>1, ExhaustMaps
<1>3. CASE Take \/ Poll
  <2>1. /\ call.at \in {"taking", "decide"} /\ Return
        /\ UNCHANGED <<active, reason, turns, turn, box, dead, lost, open, exhausted>>
    BY <1>3 DEF Take, Poll, At, worldVars, trackerVars
  <2>2. CASE UNCHANGED <<finished, returned>>
    BY <2>1, <2>2, SilentMaps DEF Settling, MUp, Alive
  <2>3. ASSUME NEW i \in Results(call.slot), Take, Chosen(i), Give(i)
        PROVE  Contract!ContractNext
    BY <2>1, <2>3, GiveMaps DEF Results, Take, At
  <2>4. CASE Poll /\ finished # <<>> /\ Give(1)
    <3>1. 1 \in DOMAIN finished
      BY <2>4 DEF LInv, EntryTypes
    <3> QED BY <2>1, <2>4, <3>1, GiveMaps DEF Poll, At
  <2> QED BY <1>3, <2>2, <2>3, <2>4 DEF Take, Poll
<1> QED BY <1>1, <1>2, <1>3

\* A turn, its owner or its container moves; no call does.
LEMMA WorldMaps ==
  ASSUME CInv, NEW s \in Slots,
         \/ RootExits(s) \/ GroupEmpties(s) \/ OwnerDrains(s)
         \/ OwnerDies(s) \/ OrphansEnd(s) \/ BoxStarts(s)
  PROVE  Contract!ContractNext \/ UNCHANGED Contract!contractVars
<1> USE DEF CInv
<1>0. /\ active \subseteq Slots
      /\ turn \in [Slots -> {"none", "running", "rootless", "quiet", "gone"}]
  BY DEF SInv, Types
<1>1. /\ UNCHANGED <<call, active, reason, turns, finished, returned, lost, open, exhausted>>
  BY DEF RootExits, GroupEmpties, OwnerDrains, OwnerDies, OrphansEnd, BoxStarts, agentVars,
         trackerVars
<1>2. MState' = MState /\ MCause' = MCause /\ MAsked' = MAsked
  BY <1>1, StatesKept DEF Completing, MAsked
<1>3. Alive = {x \in Slots : turn[x] \in Living} \cup box
      /\ Alive' = {x \in Slots : turn'[x] \in Living} \cup box'
  BY DEF Alive, Living
<1>4. CASE RootExits(s) \/ OwnerDrains(s) \/ OrphansEnd(s)
  <2>1. /\ dead' = dead /\ box' = box
        /\ \E left \in {"rootless", "quiet", "gone"} : turn' = [turn EXCEPT ![s] = left]
    BY <1>4 DEF RootExits, OwnerDrains, OrphansEnd
  <2>2. MUp' = MUp \ {s}
    BY <1>0, <2>1 DEF MUp
  <2>3. Alive' \in {Alive, Alive \ {s}}
    BY <1>0, <1>3, <2>1, <1>4 DEF Living, RootExits, OwnerDrains, OrphansEnd
  <2> QED BY <1>1, <1>2, <2>1, <2>2, <2>3, FadeMaps DEF ResultsKeptHere, MeterKept
<1>5. CASE GroupEmpties(s)
  <2>1. dead' = dead /\ box' = box /\ turn[s] = "rootless" /\ turn' = [turn EXCEPT ![s] = "quiet"]
    BY <1>5 DEF GroupEmpties
  <2>2. MUp' = MUp /\ Alive' = Alive
    BY <1>0, <1>3, <2>1 DEF MUp, Living
  <2> QED BY <1>1, <1>2, <2>1, <2>2, QuietMaps DEF WorldKept, ResultsKeptHere, MeterKept
<1>6. CASE BoxStarts(s)
  <2>1. dead' = dead /\ turn' = turn /\ turn[s] = "running" /\ box' = box \cup {s}
    BY <1>6 DEF BoxStarts
  <2>2. MUp' = MUp /\ Alive' = Alive
    BY <1>0, <1>3, <2>1 DEF MUp, Living
  <2> QED BY <1>1, <1>2, <2>1, <2>2, QuietMaps DEF WorldKept, ResultsKeptHere, MeterKept
<1>7. CASE OwnerDies(s)
  <2>1. s \in active /\ turn' = turn /\ box' = box /\ dead' = dead \cup {s}
    BY <1>7 DEF OwnerDies
  <2>2. MState[s] = "working"
    BY <2>1 DEF MState, StateOf
  <2>3. MUp' = MUp /\ Alive' = Alive
    BY <1>3, <2>1 DEF MUp
  <2>4. Contract!IsOrphaned(s)
    BY <1>1, <1>2, <2>1, <2>2, <2>3 DEF Contract!IsOrphaned, MState, MCause, MAsked, MUp,
       Contract!resultVars, Contract!meterVars
  <2> QED BY <2>4 DEF Contract!ContractNext
<1> QED BY <1>4, <1>5, <1>6, <1>7

\* The Tracker takes the frame a call waits for, and charges as it says.
LEMMA ChargeMaps ==
  ASSUME CInv, NEW n \in wire, n = applied + 1, open' = (log[n] = "begin"),
         UNCHANGED <<call, active, reason, turns, finished, turn, box, dead, returned, lost,
                     exhausted>>
  PROVE  Contract!ContractNext
<1> USE DEF CInv
<1>1. n = Len(log) /\ call.at \in Waiting /\ active = {} /\ log # <<>>
  <2>1. applied \in 0 .. Len(log) /\ Len(log) \in Nat /\ n \in 1 .. Len(log)
    BY DEF SInv, TrackInv, Types
  <2>2. call.at \in Waiting
    BY <2>1 DEF SInv, PlaceInv
  <2>3. applied >= Len(log) - 1
    BY <2>2 DEF FrameInv
  <2> QED BY <2>1, <2>2, <2>3 DEF SInv, PlaceInv
<1>2. MState' = MState /\ MCause' = MCause /\ MAsked' = MAsked
  BY StatesKept DEF Completing, MAsked
<1>3. open' = LastIsBegin
  BY <1>1 DEF LastIsBegin
<1>4. WorldKept /\ ResultsKeptHere
  BY DEF WorldKept, ResultsKeptHere, MUp, Alive
<1>5. \/ MAsked.op = "admitted" /\ open' = TRUE
      \/ MAsked.op # "admitted" /\ Contract!Working = {} /\ Alive = {} /\ open' = FALSE
  <2>1. CASE call.at = "opening"
    BY <1>3, <2>1 DEF SInv, PlaceInv, LastIsBegin, MAsked
  <2>2. CASE call.at \in {"ending", "closing"}
    <3>1. open' = FALSE
      BY <1>3, <2>2 DEF FrameInv, LastIsBegin
    <3>2. MAsked.op # "admitted"
      BY <2>2 DEF MAsked, SInv, Types, Calls
    <3>3. Contract!Working = {}
      BY <1>1, WorkingIs
    <3>4. Alive = {}
      BY <1>1 DEF Alive, SInv, AliveInv, Living
    <3> QED BY <3>1, <3>2, <3>3, <3>4
  <2> QED BY <1>1, <2>1, <2>2 DEF Waiting
<1>6. Contract!Charges
  BY <1>2, <1>4, <1>5 DEF Contract!Charges, MState, MCause, MAsked, MUp, WorldKept,
     ResultsKeptHere, Contract!turnVars, Contract!resultVars
<1> QED BY <1>6 DEF Contract!ContractNext

LEMMA TrackerMaps ==
  ASSUME CInv, (\E n \in 1 .. Len(log) : Apply(n) \/ LoseFrame(n)) \/ SendAgain \/ Exhaust
  PROVE  Contract!ContractNext \/ UNCHANGED Contract!contractVars
<1>1. /\ UNCHANGED <<call, active, reason, turns, finished, turn, box, dead, returned, lost>>
  BY DEF Apply, LoseFrame, SendAgain, Exhaust, agentVars, worldVars
<1>2. MState' = MState /\ MCause' = MCause /\ MAsked' = MAsked
  BY <1>1, StatesKept DEF Completing, MAsked
<1>3. WorldKept /\ ResultsKeptHere
  BY <1>1 DEF WorldKept, ResultsKeptHere, MUp, Alive
<1>4. CASE UNCHANGED <<open, exhausted>>
  BY <1>1, <1>2, <1>3, <1>4, QuietMaps DEF MeterKept
<1>5. CASE Exhaust
  <2>1. Contract!UsedUp
    BY <1>1, <1>2, <1>3, <1>5 DEF Exhaust, Contract!UsedUp, MState, MCause, MAsked, MUp, WorldKept,
       ResultsKeptHere, Contract!turnVars, Contract!resultVars
  <2> QED BY <2>1 DEF Contract!ContractNext
<1>6. ASSUME NEW n \in 1 .. Len(log), Apply(n)
      PROVE  Contract!ContractNext \/ UNCHANGED Contract!contractVars
  <2>1. CASE n = applied + 1
    <3>1. n \in wire /\ open' = (log[n] = "begin") /\ exhausted' = exhausted
      BY <1>6, <2>1 DEF Apply
    <3> QED BY <1>1, <2>1, <3>1, ChargeMaps
  <2>2. CASE n # applied + 1
    BY <1>4, <1>6, <2>2 DEF Apply
  <2> QED BY <2>1, <2>2
<1> QED BY <1>4, <1>5, <1>6 DEF LoseFrame, SendAgain

LEMMA InitMaps == Init => Contract!ContractInit
<1> SUFFICES ASSUME Init PROVE Contract!ContractInit
  OBVIOUS
<1>1. /\ call = Idle /\ active = {} /\ turns = [s \in Slots |-> 0]
      /\ turn = [s \in Slots |-> "none"] /\ box = {} /\ dead = {}
      /\ finished = <<>> /\ returned = {} /\ lost = {}
      /\ open = FALSE /\ exhausted = FALSE
  BY DEF Init
<1>2. MAsked = Contract!Nobody
  BY <1>1, IdleAsks
<1>3. \A s \in Slots : StateOf(s) = "free"
  BY <1>1, IdleCall DEF StateOf, Completing
<1>4. MState = [s \in Slots |-> "free"] /\ MCause = [s \in Slots |-> "none"]
  BY <1>3 DEF MState, MCause
<1>5. MUp = {} /\ Alive = {}
  BY <1>1 DEF MUp, Alive
<1> QED BY <1>1, <1>2, <1>4, <1>5 DEF Contract!ContractInit, MState, MCause, MAsked, MUp

LEMMA CallInSlots == SInv => call.slot \in Slots
BY DEF SInv, Types, Calls

LEMMA StepMaps ==
  ASSUME CInv, [Next]_vars
  PROVE  [Contract!ContractNext]_(Contract!contractVars)
<1>1. CASE UNCHANGED vars
  <2>1. /\ UNCHANGED <<call, active, reason, turns, finished, turn, box, dead, returned, lost,
                       open, exhausted>>
    BY <1>1 DEF vars, agentVars, worldVars, trackerVars
  <2>2. MState' = MState /\ MCause' = MCause /\ MAsked' = MAsked
    BY <2>1, StatesKept DEF Completing, MAsked
  <2> QED BY <2>1, <2>2, QuietMaps DEF WorldKept, ResultsKeptHere, MeterKept, MUp, Alive
<1>2. CASE Next
  BY <1>2, WorldMaps, TrackerMaps, CallMaps, CollectMaps, CompletionMaps, StartMaps, StopMaps,
     LaunchMaps, CallInSlots DEF CInv, Next, CallSteps
<1> QED BY <1>1, <1>2

\* Agents keeps the contract with its orchestrator and with whoever pays: whichever frames
\* are lost, owners killed, removals and copies fail, and whenever the budget ends, a turn
\* begins only in charged time after an admission the notice did not precede, the charge
\* ends only when nothing of any turn lives, the reason of a turn is the first true one,
\* and its result is given once, by the stop that ended it or in the order of the results.
THEOREM AgentsKeepContract == Spec => KeepsAgentsContract
<1>1. CInv /\ [Next]_vars => [Contract!ContractNext]_(Contract!contractVars)
  BY StepMaps
<1> QED BY <1>1, InitMaps, CInvHolds, PTL DEF Spec, KeepsAgentsContract, Contract!ContractSpec
=============================================================================
