---------------------------- MODULE AgentsContract ----------------------------
(***************************************************************************)
(* What the Agents of an episode promise the orchestrator and whoever pays *)
(* for the model calls, without frames, acknowledgments, sweeps, owners'   *)
(* pipes or container listings: when a turn may begin, that time is        *)
(* charged while anything of a turn lives, which turn's result a call      *)
(* brings, in which order, and that the reason it gives is true.           *)
(* StageAgents.tla implements it.                                          *)
(***************************************************************************)
EXTENDS Naturals, Sequences, FiniteSets

CONSTANTS
  Slots, Parallel,
  Continue           \* a slot may have a second turn

VARIABLES
  number,     \* the turns begun in a slot
  state,      \* its latest one: free (there is none, or it has its result), working, ending
  up,         \* slots whose agent runs
  alive,      \* slots of which a process or a container exists
  orphaned,   \* slots whose turn nobody can speak for any more
  cause,      \* why the latest turn ends, "none" before that is decided
  results,    \* the results that wait, in the order in which they became ready
  returned, spoilt,   \* turns whose result was given, or could not be made
  charging,   \* the model calls are charged
  told,       \* the budget is used up
  asked       \* the one call in progress; the turn a stop was called for, or 0

turnVars == <<number, state, up, alive, orphaned, cause>>
resultVars == <<results, returned, spoilt>>
meterVars == <<charging, told>>

Nobody == [op |-> "none", slot |-> CHOOSE s \in Slots : TRUE, turn |-> 0]
Working == {s \in Slots : state[s] = "working"}
Undecided == {s \in Working : cause[s] = "none"}

ContractInit ==
  /\ number = [s \in Slots |-> 0]
  /\ state = [s \in Slots |-> "free"]
  /\ up = {} /\ alive = {} /\ orphaned = {}
  /\ cause = [s \in Slots |-> "none"]
  /\ results = <<>> /\ returned = {} /\ spoilt = {}
  /\ charging = FALSE /\ told = FALSE
  /\ asked = Nobody

Ask(op, s) ==
  /\ asked = Nobody
  /\ asked' = [op |-> op, slot |-> s,
               turn |-> IF op = "stop" /\ state[s] = "working" THEN number[s] ELSE 0]
  /\ UNCHANGED <<turnVars, resultVars, meterVars>>

\* A call goes on, or comes back, with an error perhaps.
GoesOnOrBack == asked' \in {asked, Nobody}

\* No turn is admitted once the budget is used up, beside too many, or in a slot
\* that is busy or has had its only one.
Admits(s) ==
  /\ asked.op = "start" /\ s = asked.slot
  /\ ~ told
  /\ state[s] = "free"
  /\ Cardinality(Working) < Parallel
  /\ number[s] > 0 => Continue
  /\ asked' = [asked EXCEPT !.op = "admitted"]
  /\ UNCHANGED <<turnVars, resultVars, meterVars>>

\* It could not be begun after all; the call still has to end the charge.
Fails ==
  /\ asked.op = "admitted"
  /\ asked' = [asked EXCEPT !.op = "failed"]
  /\ UNCHANGED <<turnVars, resultVars, meterVars>>

\* A turn begins while the time is charged.
Begins(s) ==
  /\ asked.op = "admitted" /\ s = asked.slot
  /\ charging
  /\ state[s] = "free" /\ s \notin alive
  /\ Cardinality(Working) < Parallel
  /\ number' = [number EXCEPT ![s] = @ + 1]
  /\ state' = [state EXCEPT ![s] = "working"]
  /\ up' = up \cup {s} /\ alive' = alive \cup {s}
  /\ asked' = Nobody
  /\ UNCHANGED <<orphaned, cause, resultVars, meterVars>>

\* An agent ends, and what it started.
Fades(s) ==
  /\ up' = up \ {s}
  /\ alive' \in {alive, alive \ {s}}
  /\ GoesOnOrBack
  /\ UNCHANGED <<number, state, orphaned, cause, resultVars, meterVars>>

IsOrphaned(s) ==
  /\ state[s] = "working"
  /\ orphaned' = orphaned \cup {s}
  /\ UNCHANGED <<number, state, up, alive, cause, resultVars, meterVars, asked>>

\* The first reason there is stays: its agent exited by itself or cannot be asked,
\* this call stops it, or the budget's end stops them all.
Decides(S, why) ==
  /\ S \subseteq Undecided
  /\ \/ why = "exited" /\ \A s \in S : s \notin up \/ s \in orphaned
     \/ why = "stopped" /\ asked.op = "stop" /\ S \subseteq {asked.slot}
     \/ why = "exhausted" /\ told /\ S = Undecided
  /\ cause' = [s \in Slots |-> IF s \in S THEN why ELSE cause[s]]
  /\ GoesOnOrBack
  /\ UNCHANGED <<number, state, up, alive, orphaned, resultVars, meterVars>>

\* Nothing of it is left.
Ends(s) ==
  /\ state[s] = "working" /\ cause[s] # "none" /\ s \notin orphaned
  /\ state' = [state EXCEPT ![s] = "ending"]
  /\ up' = up \ {s} /\ alive' = alive \ {s}
  /\ UNCHANGED <<number, orphaned, cause, resultVars, meterVars, asked>>

\* A turn's result is made; that of the last one when the charge has ended.
Settles(s) ==
  /\ state[s] = "ending"
  /\ Working = {} => ~ charging
  /\ state' = [state EXCEPT ![s] = "free"]
  /\ cause' = [cause EXCEPT ![s] = "none"]
  /\ \/ /\ results' = Append(results, [slot |-> s, number |-> number[s], reason |-> cause[s]])
        /\ UNCHANGED <<spoilt, asked>>
     \/ /\ spoilt' = spoilt \cup {<<s, number[s]>>}
        /\ asked' = Nobody
        /\ UNCHANGED results
  /\ UNCHANGED <<number, up, alive, orphaned, returned, meterVars>>

\* A wait brings the oldest result; a stop that of the turn it was called for, or the
\* slot's oldest one when it had none running.
Brings(i) ==
  \/ asked.op = "wait" /\ i = 1
  \/ /\ asked.op = "stop" /\ results[i].slot = asked.slot
     /\ IF asked.turn # 0
          THEN results[i].number = asked.turn
          ELSE \A j \in 1 .. i - 1 : results[j].slot # asked.slot

\* A result is given once.
Gives(i) ==
  /\ Brings(i)
  /\ <<results[i].slot, results[i].number>> \notin returned
  /\ returned' = returned \cup {<<results[i].slot, results[i].number>>}
  /\ results' = SubSeq(results, 1, i - 1) \o SubSeq(results, i + 1, Len(results))
  /\ asked' = Nobody
  /\ UNCHANGED <<turnVars, spoilt, meterVars>>

ComesBack ==
  /\ asked' = Nobody
  /\ UNCHANGED <<turnVars, resultVars, meterVars>>

\* The charge begins for a turn that was admitted, and ends when no turn works, none
\* is about to begin, and nothing of one lives.
Charges ==
  /\ \/ asked.op = "admitted" /\ charging' = TRUE
     \/ asked.op # "admitted" /\ Working = {} /\ alive = {} /\ charging' = FALSE
  /\ UNCHANGED <<turnVars, resultVars, told, asked>>

UsedUp ==
  /\ told' = TRUE
  /\ UNCHANGED <<turnVars, resultVars, charging, asked>>

ContractNext ==
  \/ \E op \in {"start", "stop", "wait"}, s \in Slots : Ask(op, s)
  \/ \E s \in Slots :
       Admits(s) \/ Begins(s) \/ Fades(s) \/ IsOrphaned(s) \/ Ends(s) \/ Settles(s)
  \/ \E S \in SUBSET Slots, why \in {"exited", "stopped", "exhausted"} : Decides(S, why)
  \/ \E i \in DOMAIN results : Gives(i)
  \/ Fails \/ ComesBack \/ Charges \/ UsedUp

contractVars == <<turnVars, resultVars, meterVars, asked>>
ContractSpec == ContractInit /\ [][ContractNext]_contractVars
=============================================================================
