------------------------------ MODULE StageAgents ------------------------------
(***************************************************************************)
(* valkyrie_stage.Agents and its StageReporter: an episode's orchestrator  *)
(* starts, stops and awaits turns of an agent in slots, and reports the    *)
(* union of their running times to the Tracker as signed BEGIN and END     *)
(* frames, each of which is sent again until it is acknowledged.           *)
(*                                                                         *)
(* A lock serialises the calls, so that "call" is the one call that holds  *)
(* it; a wait_any that found nothing is over and may be made again.  The   *)
(* turns' processes, their containers, the frames and the Tracker move at  *)
(* any time.  Loops over the active slots visit them in any order.         *)
(* A turn's owner may be killed: its processes go on, and a call that has  *)
(* to talk to it, or to read its result, raises.                           *)
(***************************************************************************)
EXTENDS Naturals, Sequences, FiniteSets

CONSTANTS
  Slots, Parallel,   \* parallel_agents
  Container,         \* container_name is configured
  Grace,             \* interrupt_grace_seconds is configured
  Continue,          \* continue_cmd is configured
  LostStarts,        \* a turn's owner may die before it reports its launch
  MaxTurns,          \* bound: turns of each slot
  MaxReports,        \* bound: frames reported; no start beyond it
  MaxFaults,         \* bound: failed launches, removals and copies, killed owners
  MaxLosses          \* bound: lost frames

ASSUME StageAssumption ==
  /\ IsFiniteSet(Slots) /\ Slots # {}
  /\ Parallel \in Nat \ {0}
  /\ Container \in BOOLEAN /\ Grace \in BOOLEAN /\ Continue \in BOOLEAN
  /\ LostStarts \in BOOLEAN
  /\ MaxTurns \in [Slots -> Nat] /\ MaxReports \in Nat
  /\ MaxFaults \in Nat /\ MaxLosses \in Nat

Reasons == {"exited", "stopped", "exhausted"}
Places == {"idle", "collect", "sweep", "decide", "opening", "launching", "closing",
           "grace", "reaping", "removing", "ending", "copying", "taking"}

VARIABLES
  call,       \* the call in progress: what, for which slot, where it is, the
              \* slots its loop has to visit, the one it completes, and whether
              \* its slot was active at entry or it opened the interval
  active,     \* _active, in the order of the turns' starts not kept
  killing,    \* kill_requested
  reason,     \* completion_reason, "none" before
  turns,      \* _turns
  finished,   \* _finished
  log,        \* the events reported
  turn,       \* a turn's processes: running, rootless, quiet (root gone, group
              \* empty, others may live), gone
  box,        \* slots whose named container exists
  dead,       \* active slots whose owner was killed
  stray,      \* a turn whose owner died before its report may be running
  wire, applied, open,   \* frames on their way; the Tracker's last one, its interval
  exhausted,  \* the Tracker's notice
  returned, lost,        \* turns whose result was returned, or lost to a copy error
  faults, losses

agentVars == <<active, killing, reason, turns, finished>>
worldVars == <<turn, box, dead, stray>>
trackerVars == <<wire, applied, open, exhausted, losses>>
vars == <<call, agentVars, log, worldVars, trackerVars, returned, lost, faults>>

Idle == [op |-> "none", slot |-> CHOOSE s \in Slots : TRUE, at |-> "idle", todo |-> {},
         cur |-> CHOOSE s \in Slots : TRUE, flag |-> FALSE]

TypeOK ==
  /\ call \in [op : {"none", "start", "stop", "wait"}, slot : Slots, at : Places,
               todo : SUBSET Slots, cur : Slots, flag : BOOLEAN]
  /\ active \subseteq Slots /\ Cardinality(active) <= Parallel
  /\ killing \subseteq Slots
  /\ reason \in [Slots -> Reasons \cup {"none"}]
  /\ turns \in [Slots -> Nat] /\ \A s \in Slots : turns[s] <= MaxTurns[s]
  /\ finished \in Seq([slot : Slots, number : Nat, reason : Reasons])
  /\ log \in Seq({"begin", "end"})
  /\ turn \in [Slots -> {"none", "running", "rootless", "quiet", "gone"}]
  /\ box \subseteq Slots /\ dead \subseteq active
  /\ stray \in BOOLEAN /\ open \in BOOLEAN /\ exhausted \in BOOLEAN
  /\ applied \in 0 .. Len(log)
  /\ wire \subseteq 1 .. Len(log)
  /\ returned \subseteq Slots \X Nat
  /\ lost \subseteq Slots \X Nat
  /\ faults \in 0 .. MaxFaults /\ losses \in 0 .. MaxLosses

Init ==
  /\ call = Idle
  /\ active = {} /\ killing = {}
  /\ reason = [s \in Slots |-> "none"]
  /\ turns = [s \in Slots |-> 0]
  /\ finished = <<>> /\ log = <<>>
  /\ turn = [s \in Slots |-> "none"]
  /\ box = {} /\ dead = {} /\ stray = FALSE
  /\ wire = {} /\ applied = 0 /\ open = FALSE
  /\ exhausted = FALSE
  /\ returned = {} /\ lost = {}
  /\ faults = 0 /\ losses = 0

At(place) == call.at = place
Go(place) == call' = [call EXCEPT !.at = place]
Return == call' = Idle
Fault == faults < MaxFaults /\ faults' = faults + 1

\* StageReporter._report: the next frame; the call goes on when it is acknowledged.
Report(event) ==
  /\ log' = Append(log, event)
  /\ wire' = wire \cup {Len(log) + 1}
Acknowledged == applied = Len(log)
-----------------------------------------------------------------------------
(* The turns, the Tracker and the frames *)

RootExits(s) ==
  /\ turn[s] = "running"
  /\ \E left \in {"rootless", "quiet"} : turn' = [turn EXCEPT ![s] = left]
  /\ UNCHANGED <<call, agentVars, log, box, dead, stray, trackerVars, returned, lost, faults>>

GroupEmpties(s) ==
  /\ turn[s] = "rootless"
  /\ turn' = [turn EXCEPT ![s] = "quiet"]
  /\ UNCHANGED <<call, agentVars, log, box, dead, stray, trackerVars, returned, lost, faults>>

\* _finish_turn, at the owner's request to kill.
OwnerDrains(s) ==
  /\ s \in killing \ dead /\ turn[s] # "gone"
  /\ turn' = [turn EXCEPT ![s] = "gone"]
  /\ UNCHANGED <<call, agentVars, log, box, dead, stray, trackerVars, returned, lost, faults>>

\* The owner is killed; the rest of its turn ends by itself, or does not.
OwnerDies(s) ==
  /\ s \in active \ dead /\ turn[s] # "gone" /\ Fault
  /\ dead' = dead \cup {s}
  /\ UNCHANGED <<call, agentVars, log, turn, box, stray, trackerVars, returned, lost>>

OrphansEnd(s) ==
  /\ s \in dead /\ turn[s] = "quiet"
  /\ turn' = [turn EXCEPT ![s] = "gone"]
  /\ UNCHANGED <<call, agentVars, log, box, dead, stray, trackerVars, returned, lost, faults>>

BoxStarts(s) ==
  /\ Container /\ turn[s] = "running"
  /\ s \notin box
  /\ box' = box \cup {s}
  /\ UNCHANGED <<call, agentVars, log, turn, dead, stray, trackerVars, returned, lost, faults>>

\* The Tracker takes frames in sequence and drops the copies of earlier ones.
Apply(n) ==
  /\ n \in wire
  /\ wire' = wire \ {n}
  /\ IF n = applied + 1
       THEN /\ applied' = n
            /\ open' = (log[n] = "begin")
       ELSE UNCHANGED <<applied, open>>
  /\ UNCHANGED <<call, agentVars, log, worldVars, exhausted, losses, returned, lost, faults>>

LoseFrame(n) ==
  /\ n \in wire /\ losses < MaxLosses
  /\ wire' = wire \ {n}
  /\ losses' = losses + 1
  /\ UNCHANGED <<call, agentVars, log, worldVars, applied, open, exhausted,
                 returned, lost, faults>>

\* Mutant: only BEGIN is sent again.
SendBeginAgain ==
  /\ ~ Acknowledged /\ Len(log) \notin wire
  /\ log[Len(log)] = "begin"
  /\ wire' = wire \cup {Len(log)}
  /\ UNCHANGED <<call, agentVars, log, worldVars, applied, open, exhausted, losses,
                 returned, lost, faults>>

\* The reporter's retry, every three seconds until the acknowledgment.
SendAgain ==
  /\ ~ Acknowledged /\ Len(log) \notin wire
  /\ wire' = wire \cup {Len(log)}
  /\ UNCHANGED <<call, agentVars, log, worldVars, applied, open, exhausted, losses,
                 returned, lost, faults>>

\* The Tracker publishes its notice, while it charges or with an acknowledgment.
Exhaust ==
  /\ ~ exhausted
  /\ exhausted' = TRUE
  /\ UNCHANGED <<call, agentVars, log, worldVars, wire, applied, open, losses,
                 returned, lost, faults>>
-----------------------------------------------------------------------------
(* The calls, and the collection each begins with *)

Call(op, s) ==
  /\ At("idle")
  /\ op = "start" => Len(log) < MaxReports /\ turns[s] < MaxTurns[s]
  /\ op = "wait" => s = Idle.slot
  /\ call' = [Idle EXCEPT !.op = op, !.slot = s, !.at = "collect", !.flag = s \in active]
  /\ UNCHANGED <<agentVars, log, worldVars, trackerVars, returned, lost, faults>>

Unreachable == dead \ killing

\* _exhaust_all asks every owner to kill before it completes the first turn; it
\* raises, and goes no further, at one that is not there.
ExhaustAll ==
  \/ /\ Unreachable = {}
     /\ killing' = killing \cup active
     /\ reason' = [s \in Slots |-> IF s \in active /\ reason[s] = "none" THEN "exhausted"
                                   ELSE reason[s]]
     /\ call' = [call EXCEPT !.at = "sweep", !.todo = active]
  \/ /\ Unreachable # {}
     /\ \E told \in SUBSET (active \ dead) : killing' = killing \cup told
     /\ Return
     /\ UNCHANGED reason

\* Mutant: the notice is looked at by start and stop only.
CollectUnnoticed ==
  /\ At("collect")
  /\ call' = [call EXCEPT !.at = "sweep", !.todo = active]
  /\ UNCHANGED <<agentVars, log, worldVars, trackerVars, returned, lost, faults>>

Collect ==
  /\ At("collect")
  /\ IF exhausted
       THEN ExhaustAll
       ELSE /\ call' = [call EXCEPT !.at = "sweep", !.todo = active]
            /\ UNCHANGED <<killing, reason>>
  /\ UNCHANGED <<active, turns, finished, log, worldVars, trackerVars, returned, lost, faults>>

\* Mutant: a completion that is taken up again gives the turn another reason.
CompleteAnew(s, why) ==
  /\ reason' = [reason EXCEPT ![s] = why]
  /\ IF s \in Unreachable
       THEN Return /\ UNCHANGED killing
       ELSE /\ killing' = killing \cup {s}
            /\ call' = [call EXCEPT !.at = "reaping", !.cur = s, !.todo = @ \ {s}]

\* _complete up to process.wait; the first reason a turn is given stays.
Complete(s, why) ==
  /\ reason' = [reason EXCEPT ![s] = IF @ = "none" THEN why ELSE @]
  /\ IF s \in Unreachable
       THEN Return /\ UNCHANGED killing
       ELSE /\ killing' = killing \cup {s}
            /\ call' = [call EXCEPT !.at = "reaping", !.cur = s, !.todo = @ \ {s}]

\* A turn whose root is alive goes on; any other is completed, and so is one whose
\* owner died between the question and the answer.  The question raises when it was
\* dead before.
Visit(s) ==
  /\ At("sweep") /\ s \in call.todo
  /\ \/ /\ reason[s] = "none" /\ s \in dead
        /\ Return
        /\ UNCHANGED <<reason, killing>>
     \/ /\ reason[s] = "none" /\ s \notin dead /\ turn[s] = "running"
        /\ call' = [call EXCEPT !.todo = @ \ {s}]
        /\ UNCHANGED <<reason, killing>>
     \/ /\ reason[s] # "none" \/ s \in dead \/ turn[s] # "running"
        /\ Complete(s, "exited")
  /\ UNCHANGED <<active, turns, finished, log, worldVars, trackerVars, returned, lost, faults>>

Swept ==
  /\ At("sweep") /\ call.todo = {}
  /\ Go("decide")
  /\ UNCHANGED <<agentVars, log, worldVars, trackerVars, returned, lost, faults>>
-----------------------------------------------------------------------------
(* The rest of _complete *)

\* Mutant: the owner is not waited for.
ReapAtOnce ==
  /\ At("reaping")
  /\ Go("removing")
  /\ UNCHANGED <<agentVars, log, worldVars, trackerVars, returned, lost, faults>>

\* process.wait
Reap ==
  /\ At("reaping") /\ (turn[call.cur] = "gone" \/ call.cur \in dead)
  /\ Go("removing")
  /\ UNCHANGED <<agentVars, log, worldVars, trackerVars, returned, lost, faults>>

\* The end of the turn; END is reported when it was the last.
Deactivate(s) ==
  /\ active' = active \ {s}
  /\ killing' = killing \ {s}
  /\ IF active' = {}
       THEN Report("end") /\ Go("ending")
       ELSE Go("copying") /\ UNCHANGED <<log, wire>>
  /\ UNCHANGED <<reason, turns, finished>>

\* docker rm and the listing that confirms it, then the owner's result: without one
\* the call raises, and the turn stays active.
Remove ==
  /\ At("removing")
  /\ box' = box \ {call.cur}
  /\ IF call.cur \in dead
       THEN Return /\ UNCHANGED <<agentVars, log, wire>>
       ELSE Deactivate(call.cur)
  /\ UNCHANGED <<turn, dead, stray, applied, open, exhausted, losses, returned, lost, faults>>

\* The container is still listed, or cannot be listed: the call raises, and the
\* turn stays active with its reason.
RemovalFails ==
  /\ At("removing") /\ Container /\ Fault
  /\ box' \in {box, box \ {call.cur}}
  /\ Return
  /\ UNCHANGED <<agentVars, log, turn, dead, stray, trackerVars, returned, lost>>

Ended ==
  /\ At("ending") /\ Acknowledged
  /\ Go("copying")
  /\ UNCHANGED <<agentVars, log, worldVars, trackerVars, returned, lost, faults>>

\* The snapshot, and the result.
Copy ==
  /\ At("copying")
  /\ finished' = Append(finished, [slot |-> call.cur, number |-> turns[call.cur],
                                   reason |-> reason[call.cur]])
  /\ Go("sweep")
  /\ UNCHANGED <<active, killing, reason, turns, log, worldVars, trackerVars, returned,
                 lost, faults>>

CopyFails ==
  /\ At("copying") /\ Fault
  /\ lost' = lost \cup {<<call.cur, turns[call.cur]>>}
  /\ Return
  /\ UNCHANGED <<agentVars, log, worldVars, trackerVars, returned>>
-----------------------------------------------------------------------------
(* start *)

Refused == \/ call.slot \in active
           \/ Cardinality(active) >= Parallel
           \/ turns[call.slot] > 0 /\ ~ Continue

Admit ==
  /\ At("decide") /\ call.op = "start"
  /\ \/ /\ exhausted /\ active # {}
        /\ ExhaustAll
        /\ UNCHANGED <<log, wire>>
     \/ /\ exhausted /\ active = {}
        /\ Return
        /\ UNCHANGED <<killing, reason, log, wire>>
     \/ /\ ~ exhausted /\ Refused
        /\ Return
        /\ UNCHANGED <<killing, reason, log, wire>>
     \/ /\ ~ exhausted /\ ~ Refused
        /\ call' = [call EXCEPT !.flag = (active = {}),
                                !.at = IF active = {} THEN "opening" ELSE "launching"]
        /\ IF active = {} THEN Report("begin") ELSE UNCHANGED <<log, wire>>
        /\ UNCHANGED <<killing, reason>>
  /\ UNCHANGED <<active, turns, finished, worldVars, applied, open, exhausted, losses,
                 returned, lost, faults>>

\* BEGIN is acknowledged; with a notice nothing starts and no END is sent.
Opened ==
  /\ At("opening") /\ Acknowledged
  /\ IF exhausted THEN Return ELSE Go("launching")
  /\ UNCHANGED <<agentVars, log, worldVars, trackerVars, returned, lost, faults>>

\* The owner reports the launch.
Launch ==
  /\ At("launching")
  /\ active' = active \cup {call.slot}
  /\ turns' = [turns EXCEPT ![call.slot] = @ + 1]
  /\ reason' = [reason EXCEPT ![call.slot] = "none"]
  /\ turn' = [turn EXCEPT ![call.slot] = "running"]
  /\ Return
  /\ UNCHANGED <<killing, finished, log, box, dead, stray, trackerVars, returned, lost, faults>>

\* No process was started: no pipe, no owner, or the owner says so.
LaunchFails ==
  /\ At("launching") /\ Fault
  /\ IF call.flag THEN Report("end") /\ Go("closing")
                  ELSE Return /\ UNCHANGED <<log, wire>>
  /\ UNCHANGED <<agentVars, worldVars, applied, open, exhausted, losses, returned, lost>>

Closed ==
  /\ At("closing") /\ Acknowledged
  /\ Return
  /\ UNCHANGED <<agentVars, log, worldVars, trackerVars, returned, lost, faults>>

\* The owner is gone without a report: the turn's root may have been started.
LaunchLost ==
  /\ At("launching") /\ LostStarts /\ Fault
  /\ \E alive \in BOOLEAN : stray' = (stray \/ alive)
  /\ Return
  /\ UNCHANGED <<agentVars, log, turn, box, dead, trackerVars, returned, lost>>
-----------------------------------------------------------------------------
(* stop and wait_any *)

StopTurn ==
  /\ At("decide") /\ call.op = "stop"
  /\ \/ /\ call.slot \notin active
        /\ Go("taking")
        /\ UNCHANGED <<reason, killing>>
     \/ /\ call.slot \in active /\ Grace
        /\ IF call.slot \in dead THEN Return ELSE Go("grace")
        /\ UNCHANGED <<reason, killing>>
     \/ /\ call.slot \in active /\ ~ Grace
        /\ Complete(call.slot, "stopped")
  /\ UNCHANGED <<active, turns, finished, log, worldVars, trackerVars, returned, lost, faults>>

\* The group is empty, or the deadline has passed.
GraceEnds ==
  /\ At("grace")
  /\ Complete(call.slot, "stopped")
  /\ UNCHANGED <<active, turns, finished, log, worldVars, trackerVars, returned, lost, faults>>

\* The owner is asked for its group, and is dead.
GraceRaises ==
  /\ At("grace") /\ call.slot \in dead
  /\ Return
  /\ UNCHANGED <<agentVars, log, worldVars, trackerVars, returned, lost, faults>>

GraceExhausted ==
  /\ At("grace") /\ exhausted /\ turn[call.slot] # "quiet"
  /\ ExhaustAll
  /\ UNCHANGED <<active, turns, finished, log, worldVars, trackerVars, returned, lost, faults>>

Results(s) == {i \in DOMAIN finished : finished[i].slot = s}

\* Mutant: stop takes the oldest result.
ChosenOldest(i) == \A j \in Results(call.slot) : i <= j

\* _take: the newest result if the slot was active at entry, else the oldest.
Chosen(i) == \A j \in Results(call.slot) : IF call.flag THEN i >= j ELSE i <= j

\* Mutant: the result stays in the queue.
GiveAndKeep(i) ==
  /\ returned' = returned \cup {<<finished[i].slot, finished[i].number>>}
  /\ UNCHANGED finished

Give(i) ==
  /\ returned' = returned \cup {<<finished[i].slot, finished[i].number>>}
  /\ finished' = SubSeq(finished, 1, i - 1) \o SubSeq(finished, i + 1, Len(finished))

Take ==
  /\ At("taking")
  /\ \/ /\ Results(call.slot) = {}
        /\ UNCHANGED <<finished, returned>>
     \/ \E i \in Results(call.slot) : Chosen(i) /\ Give(i)
  /\ Return
  /\ UNCHANGED <<active, killing, reason, turns, log, worldVars, trackerVars, lost, faults>>

\* One round of wait_any: a result, an error when nothing is active, or nothing.
Poll ==
  /\ At("decide") /\ call.op = "wait"
  /\ IF finished # <<>> THEN Give(1) ELSE UNCHANGED <<finished, returned>>
  /\ Return
  /\ UNCHANGED <<active, killing, reason, turns, log, worldVars, trackerVars, lost, faults>>

CallSteps ==
  \/ Collect \/ (\E s \in Slots : Visit(s)) \/ Swept
  \/ Reap \/ Remove \/ RemovalFails \/ Ended \/ Copy \/ CopyFails
  \/ Admit \/ Opened \/ Launch \/ LaunchFails \/ Closed \/ LaunchLost
  \/ StopTurn \/ GraceEnds \/ GraceRaises \/ GraceExhausted \/ Take \/ Poll

Next ==
  \/ \E s \in Slots :
       \/ RootExits(s) \/ GroupEmpties(s) \/ OwnerDrains(s)
       \/ OwnerDies(s) \/ OrphansEnd(s) \/ BoxStarts(s)
  \/ \E n \in 1 .. Len(log) : Apply(n) \/ LoseFrame(n)
  \/ SendAgain \/ Exhaust
  \/ \E op \in {"start", "stop", "wait"}, s \in Slots : Call(op, s)
  \/ CallSteps

Spec == Init /\ [][Next]_vars

\* A call runs on when it can, an owner that was told to kill does, a frame is
\* sent again and arrives, and the orchestrator waits for the turns it started.
FairSpec ==
  /\ Spec
  /\ WF_vars(CallSteps)
  /\ \A s \in Slots : WF_vars(OwnerDrains(s))
  /\ WF_vars(SendAgain) /\ WF_vars(\E n \in 1 .. MaxReports + 2 : Apply(n))
  /\ WF_vars(\E s \in Slots : Call("wait", s))
-----------------------------------------------------------------------------
(* Properties *)

Alive == {s \in Slots : turn[s] \in {"running", "rootless", "quiet"}} \cup box

\* The Tracker's interval covers every moment at which a turn's process or its
\* container may exist, also after its owner was killed: no model call goes
\* uncharged.  (A turn whose owner died before its report is unknown to the library:
\* stray.)
AliveIsCharged == Alive # {} => open

\* Every turn that was started is running, or has one result, or was returned
\* once, or its copy failed.
Pending == {<<finished[i].slot, finished[i].number>> : i \in DOMAIN finished}
Unsettled == {<<s, turns[s]>> : s \in active}
               \cup (IF call.at \in {"ending", "copying"}
                       THEN {<<call.cur, turns[call.cur]>>} ELSE {})
Started == UNION {{s} \X (1 .. turns[s]) : s \in Slots}
ResultsExact ==
  /\ Started = Unsettled \cup Pending \cup returned \cup lost
  /\ Cardinality(Started) = Cardinality(Unsettled) + Len(finished)
                              + Cardinality(returned) + Cardinality(lost)

\* A stop of an active slot returns the result of the turn it stopped, also when
\* results of earlier turns are still waiting.
StopReturnsItsTurn ==
  [][(call.at = "taking" /\ call.flag /\ returned' # returned) =>
       <<call.slot, turns[call.slot]>> \in returned' \ returned]_vars

\* What a caller of Agents may rely on: AgentsContract.tla.
Completing(s) == call.at \in {"ending", "copying"} /\ call.cur = s
StateOf(s) == IF s \in active THEN "working" ELSE IF Completing(s) THEN "ending" ELSE "free"
Contract == INSTANCE AgentsContract WITH
  number <- turns, state <- [s \in Slots |-> StateOf(s)],
  up <- {s \in Slots : turn[s] = "running"}, alive <- Alive, orphaned <- dead,
  cause <- [s \in Slots |-> IF StateOf(s) = "free" THEN "none" ELSE reason[s]],
  results <- finished, spoilt <- lost, charging <- open, told <- exhausted,
  asked <- [op |-> IF call.at \in {"opening", "launching"} THEN "admitted"
                   ELSE IF call.at = "closing" THEN "failed" ELSE call.op,
            slot |-> call.slot,
            turn |-> IF call.op = "stop" /\ call.flag THEN turns[call.slot] ELSE 0]

\* Whatever frames are lost, owners killed or removals failed: a turn begins in charged
\* time and only if it was admitted before the notice, charging ends when nothing is left
\* of any turn, and every turn has one result, with a true reason, that is brought
\* once and by the call it is due to.
KeepsAgentsContract == Contract!ContractSpec

\* The budget's end stops everything: the turns are completed and END reported,
\* unless an owner was killed.
ExhaustionSettles == exhausted ~> ((active = {} /\ Alive = {}) \/ dead # {})

\* A call comes back, whatever the Tracker's channel loses and whoever is killed.
CallReturns == (call.at # "idle") ~> (call.at = "idle")
=============================================================================
