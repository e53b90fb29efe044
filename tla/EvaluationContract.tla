-------------------------- MODULE EvaluationContract --------------------------
(***************************************************************************)
(* What a caller is promised that evaluates one task until it has a        *)
(* verdict, without connections, chunks, handlers, tokens or sandboxes:    *)
(* each attempt begins where the caller's latest checkpoint is, what is    *)
(* saved and handed out only goes forward from there, with the input and   *)
(* the grader of the first checkpoint it ever stored, and a verdict is     *)
(* about something the caller holds.  EvalSession.tla implements it.       *)
(***************************************************************************)
EXTENDS Naturals, Sequences

CONSTANTS Attempts,    \* the evaluations the caller may ask for, 1, 2, ..
          MaxGrader,   \* the last grader to be deployed
          Saveable,    \* the checkpoints there can be
          Verdicts,    \* what can be returned, each of what was graded
          Nothing,     \* no checkpoint, no outcome yet
          Failure      \* the outcome of an attempt without a verdict

VARIABLES
  current,   \* the grader now deployed
  saved,     \* the checkpoints whose input can be read back
  kept,      \* the checkpoints the caller stored, in their order
  asked,     \* what an attempt asks: the instance, or a checkpoint to go on from
  outcome    \* what the caller was told of it

contractVars == <<current, saved, kept, asked, outcome>>

Latest == kept[Len(kept)]
Kept == {kept[i] : i \in 1 .. Len(kept)}

\* Checkpoint c is what the grader of checkpoint d made of its input, or further on.
SameGrade(c, d) == c.grader = d.grader /\ c.input.of = d.input.of
NotBefore(c, d) == SameGrade(c, d) /\ c.input.step >= d.input.step
Beyond(c, d) == SameGrade(c, d) /\ c.input.step > d.input.step

\* An attempt reaches the input it collected itself, or the one it was to go on from;
\* it saves that, or what it made of it.
Reached(c, a) ==
  \/ asked[a].kind = "instance" /\ c.input.of = a
  \/ asked[a].kind = "response" /\ NotBefore(c, asked[a].from)
News(c, a) ==
  \/ asked[a].kind = "instance" /\ c.input.of = a
  \/ asked[a].kind = "response" /\ Beyond(c, asked[a].from)

ContractInit ==
  /\ current = 1 /\ saved = {} /\ kept = <<>>
  /\ asked = [a \in Attempts |-> [kind |-> "none", from |-> Nothing]]
  /\ outcome = [a \in Attempts |-> Nothing]

Deploy ==
  /\ current < MaxGrader
  /\ current' = current + 1
  /\ UNCHANGED <<saved, kept, asked, outcome>>

\* The next attempt, after the one before it failed.
Ask(a) ==
  /\ asked[a].kind = "none"
  /\ a > 1 => outcome[a - 1] = Failure
  /\ asked' = [asked EXCEPT ![a] = IF kept = <<>> THEN [kind |-> "instance", from |-> Nothing]
                                    ELSE [kind |-> "response", from |-> Latest]]
  /\ UNCHANGED <<current, saved, kept, outcome>>

\* An attempt saves what it grades, even when its caller has given it up; the grader
\* is one that was deployed.
Save(a, c) ==
  /\ News(c, a)
  /\ c.grader <= current
  /\ saved' = saved \cup {c}
  /\ UNCHANGED <<current, kept, asked, outcome>>

\* The caller stores a checkpoint of the attempt it waits for.
Keep(a, c) ==
  /\ outcome[a] = Nothing
  /\ c \in saved
  /\ News(c, a)
  /\ kept # <<>> => Beyond(c, Latest)
  /\ kept' = Append(kept, c)
  /\ UNCHANGED <<current, saved, asked, outcome>>

\* It is told a verdict about a checkpoint it stored, which the attempt has reached.
Answer(a, v) ==
  /\ outcome[a] = Nothing
  /\ v.graded \in Kept
  /\ Reached(v.graded, a)
  /\ outcome' = [outcome EXCEPT ![a] = v]
  /\ UNCHANGED <<current, saved, kept, asked>>

Fail(a) ==
  /\ asked[a].kind # "none"
  /\ outcome[a] = Nothing
  /\ outcome' = [outcome EXCEPT ![a] = Failure]
  /\ UNCHANGED <<current, saved, kept, asked>>

ContractNext ==
  \/ Deploy
  \/ \E a \in Attempts :
       \/ Ask(a) \/ Fail(a)
       \/ \E c \in Saveable : Save(a, c) \/ Keep(a, c)
       \/ \E v \in Verdicts : Answer(a, v)

ContractSpec == ContractInit /\ [][ContractNext]_contractVars
=============================================================================
