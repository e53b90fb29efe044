--------------------------- MODULE EvalSessionProofs ---------------------------
(***************************************************************************)
(* Proofs about EvalSession for any number of sessions, graders and items: *)
(* what a session holds while it runs, what it grades and what its client  *)
(* is told.                                                                *)
(***************************************************************************)
EXTENDS EvalSession, SequenceTheorems, TLAPS

-----------------------------------------------------------------------------
(* Sequences of scopes *)

LEMMA LastOfAppend ==
  ASSUME NEW S, NEW q \in Seq(S), NEW e \in S
  PROVE  /\ Front(Append(q, e)) = q /\ Last(Append(q, e)) = e /\ Append(q, e) # <<>>
         /\ Append(q, e) \in Seq(S) /\ ToSet(Append(q, e)) = ToSet(q) \cup {e}
<1>1. Append(q, e) \in Seq(S) /\ Len(Append(q, e)) = Len(q) + 1 /\ Len(q) \in Nat
  OBVIOUS
<1>2. Append(q, e)[Len(q) + 1] = e /\ \A i \in 1 .. Len(q) : Append(q, e)[i] = q[i]
  OBVIOUS
<1>3. Front(Append(q, e)) = q
  <2>1. Front(Append(q, e)) = SubSeq(Append(q, e), 1, Len(q))
    BY <1>1 DEF Front
  <2> QED
    BY <1>1, <1>2, <2>1
<1>4. ToSet(Append(q, e)) = ToSet(q) \cup {e}
  <2>1. DOMAIN q = 1 .. Len(q) /\ DOMAIN Append(q, e) = 1 .. Len(q) + 1
    OBVIOUS
  <2>2. \A i \in 1 .. Len(q) + 1 : i \in 1 .. Len(q) \/ i = Len(q) + 1
    BY <1>1
  <2> QED
    BY <1>1, <1>2, <2>1, <2>2 DEF ToSet
<1> QED
  BY <1>1, <1>2, <1>3, <1>4 DEF Last

LEMMA ScopeNames ==
  /\ "provider" \in Scopes /\ "credentials" \in Scopes /\ "creation" \in Scopes
  /\ "sandbox" \in Scopes /\ "grading" \in Scopes
  BY DEF Scopes

LEMMA Entered ==
  ASSUME NEW q \in Seq(Scopes), NEW e \in Scopes
  PROVE  /\ Front(Append(q, e)) = q /\ Last(Append(q, e)) = e /\ Append(q, e) # <<>>
         /\ Append(q, e) \in Seq(Scopes) /\ ToSet(Append(q, e)) = ToSet(q) \cup {e}
  BY LastOfAppend

\* The stacks of context managers a handler can have entered.
ProviderOnly == Append(<<>>, "provider")
CredentialsOnly == Append(<<>>, "credentials")
Both == {Append(ProviderOnly, "credentials"), Append(CredentialsOnly, "provider")}
Bases == Both \cup {CredentialsOnly}
Graded == {Append(b, "grading") : b \in Bases}
            \cup {Append(Append(b, "sandbox"), "grading") : b \in Both}
Created == {Append(b, x) : b \in Both, x \in {"creation", "sandbox"}}
Stacks == {<<>>, ProviderOnly} \cup Bases \cup Graded \cup Created

LEMMA EmptyStack == <<>> \in Seq(Scopes) /\ ToSet(<<>>) = {}
  BY DEF ToSet

\* A stack q of which f are the outer scopes and e is the innermost one.
Tops(q, f, e) ==
  /\ q \in Seq(Scopes) /\ q # <<>> /\ Front(q) = f /\ Last(q) = e
  /\ ToSet(q) = ToSet(f) \cup {e}

LEMMA AppendTops ==
  ASSUME NEW f \in Seq(Scopes), NEW e \in Scopes
  PROVE  Tops(Append(f, e), f, e)
  BY Entered DEF Tops

LEMMA BaseStacks ==
  /\ Tops(ProviderOnly, <<>>, "provider") /\ ToSet(ProviderOnly) = {"provider"}
  /\ Tops(CredentialsOnly, <<>>, "credentials") /\ ToSet(CredentialsOnly) = {"credentials"}
  /\ \A b \in Both :
       /\ b \in Seq(Scopes) /\ ToSet(b) = {"provider", "credentials"}
       /\ Tops(b, ProviderOnly, "credentials") \/ Tops(b, CredentialsOnly, "provider")
<1>1. Tops(ProviderOnly, <<>>, "provider")
  BY EmptyStack, ScopeNames, AppendTops DEF ProviderOnly
<1>2. Tops(CredentialsOnly, <<>>, "credentials")
  BY EmptyStack, ScopeNames, AppendTops DEF CredentialsOnly
<1>3. ProviderOnly \in Seq(Scopes) /\ ToSet(ProviderOnly) = {"provider"}
  BY <1>1, EmptyStack DEF Tops
<1>4. CredentialsOnly \in Seq(Scopes) /\ ToSet(CredentialsOnly) = {"credentials"}
  BY <1>2, EmptyStack DEF Tops
<1>5. ASSUME NEW b \in Both
      PROVE  Tops(b, ProviderOnly, "credentials") \/ Tops(b, CredentialsOnly, "provider")
  <2>1. CASE b = Append(ProviderOnly, "credentials")
    BY <1>3, <2>1, ScopeNames, AppendTops
  <2>2. CASE b = Append(CredentialsOnly, "provider")
    BY <1>4, <2>2, ScopeNames, AppendTops
  <2> QED
    BY <2>1, <2>2 DEF Both
<1>6. \A b \in Both : b \in Seq(Scopes) /\ ToSet(b) = {"provider", "credentials"}
  BY <1>3, <1>4, <1>5 DEF Tops
<1> QED
  BY <1>1, <1>2, <1>3, <1>4, <1>5, <1>6

\* What is known of a stack: its innermost scope came last and rests on the others.
LEMMA StackFacts ==
  ASSUME NEW q \in Stacks
  PROVE  /\ q \in Seq(Scopes)
         /\ "grading" \in ToSet(q) => "credentials" \in ToSet(q) /\ "creation" \notin ToSet(q)
         /\ ToSet(q) \cap {"creation", "sandbox"} # {} => "provider" \in ToSet(q)
         /\ q # <<>> =>
              /\ Front(q) \in Stacks /\ Last(q) \in Scopes /\ Last(q) \notin ToSet(Front(q))
              /\ ToSet(q) = ToSet(Front(q)) \cup {Last(q)}
              /\ Last(q) \in {"creation", "sandbox"} => "grading" \notin ToSet(Front(q))
<1>1. CASE q = <<>>
  BY <1>1, EmptyStack
<1>2. CASE q \in {ProviderOnly, CredentialsOnly}
  <2>1. Tops(q, <<>>, "provider") \/ Tops(q, <<>>, "credentials")
    BY <1>2, BaseStacks
  <2>2. <<>> \in Stacks
    BY DEF Stacks
  <2> QED
    BY <2>1, <2>2, EmptyStack, ScopeNames DEF Tops
<1>3. CASE q \in Both
  <2>1. Tops(q, ProviderOnly, "credentials") \/ Tops(q, CredentialsOnly, "provider")
    BY <1>3, BaseStacks
  <2>2. ProviderOnly \in Stacks /\ CredentialsOnly \in Stacks
    BY DEF Stacks, Bases
  <2> QED
    BY <2>1, <2>2, BaseStacks, ScopeNames DEF Tops
<1>4. ASSUME NEW b, NEW x, b \in Stacks, Tops(q, b, x), x \in {"creation", "sandbox", "grading"},
             \/ ToSet(b) = {"provider", "credentials"}
             \/ ToSet(b) = {"credentials"} /\ x = "grading"
             \/ ToSet(b) = {"provider", "credentials", "sandbox"} /\ x = "grading"
      PROVE  /\ q \in Seq(Scopes)
             /\ "grading" \in ToSet(q) => "credentials" \in ToSet(q) /\ "creation" \notin ToSet(q)
             /\ ToSet(q) \cap {"creation", "sandbox"} # {} => "provider" \in ToSet(q)
             /\ q # <<>> =>
                  /\ Front(q) \in Stacks /\ Last(q) \in Scopes /\ Last(q) \notin ToSet(Front(q))
                  /\ ToSet(q) = ToSet(Front(q)) \cup {Last(q)}
                  /\ Last(q) \in {"creation", "sandbox"} => "grading" \notin ToSet(Front(q))
  <2>1. x \in Scopes
    BY <1>4, ScopeNames
  <2>2. ToSet(q) = ToSet(b) \cup {x} /\ Front(q) = b /\ Last(q) = x /\ q \in Seq(Scopes)
    BY <1>4 DEF Tops
  <2> QED
    BY <1>4, <2>1, <2>2
<1>5. ASSUME NEW b \in Both
      PROVE  /\ b \in Stacks /\ Append(b, "sandbox") \in Stacks
             /\ Tops(Append(b, "sandbox"), b, "sandbox") /\ Tops(Append(b, "creation"), b, "creation")
             /\ Tops(Append(Append(b, "sandbox"), "grading"), Append(b, "sandbox"), "grading")
             /\ ToSet(Append(b, "sandbox")) = {"provider", "credentials", "sandbox"}
  <2>1. b \in Stacks /\ Append(b, "sandbox") \in Stacks
    BY DEF Stacks, Bases, Created
  <2>2. b \in Seq(Scopes) /\ ToSet(b) = {"provider", "credentials"}
    BY BaseStacks
  <2>3. Tops(Append(b, "sandbox"), b, "sandbox") /\ Tops(Append(b, "creation"), b, "creation")
    BY <2>2, AppendTops, ScopeNames
  <2>4. Append(b, "sandbox") \in Seq(Scopes)
    BY <2>3 DEF Tops
  <2>5. ToSet(Append(b, "sandbox")) = {"provider", "credentials", "sandbox"}
    BY <2>2, <2>3 DEF Tops
  <2> QED
    BY <2>1, <2>3, <2>4, <2>5, AppendTops, ScopeNames
<1>6. ASSUME NEW b \in Bases
      PROVE  /\ b \in Stacks /\ Tops(Append(b, "grading"), b, "grading")
             /\ ToSet(b) = {"provider", "credentials"} \/ ToSet(b) = {"credentials"}
  <2>1. /\ b \in Seq(Scopes)
        /\ ToSet(b) = {"provider", "credentials"} \/ ToSet(b) = {"credentials"}
    BY BaseStacks DEF Bases, Tops
  <2> QED
    BY <2>1, AppendTops, ScopeNames DEF Stacks
<1>7. CASE \E b \in Bases : q = Append(b, "grading")
  BY <1>4, <1>6, <1>7
<1>8. CASE q \in Created
  <2>1. PICK b \in Both, x \in {"creation", "sandbox"} : q = Append(b, x)
    BY <1>8 DEF Created
  <2>2. b \in Stacks /\ Tops(q, b, x) /\ ToSet(b) = {"provider", "credentials"}
    BY <1>5, <2>1, BaseStacks
  <2> QED
    BY <1>4, <2>2
<1>9. CASE \E b \in Both : q = Append(Append(b, "sandbox"), "grading")
  BY <1>4, <1>5, <1>9
<1> QED
  BY <1>1, <1>2, <1>3, <1>7, <1>8, <1>9 DEF Stacks, Bases, Graded
-----------------------------------------------------------------------------
(* The invariant *)

\* What handler s has entered, by where it is; it holds what it has entered.
AtStep(s) ==
  /\ pc[s] \in {"off", "accept", "closed"} => scopes[s] = <<>>
  /\ pc[s] = "provider" => scopes[s] = IF Instance(s) THEN <<>> ELSE CredentialsOnly
  /\ pc[s] = "credentials" => scopes[s] = IF Instance(s) THEN ProviderOnly ELSE <<>>
  /\ pc[s] = "collect" => Instance(s) /\ scopes[s] \in Both
  /\ pc[s] = "load" => ~ Instance(s) /\ scopes[s] \in Bases
  /\ pc[s] = "save" => scopes[s] \in Both \cup Graded /\ (~ Instance(s) => In(s, "grading"))
  /\ pc[s] = "sandbox" => scopes[s] \in Bases
  /\ pc[s] = "creating" => scopes[s] \in {Append(b, "creation") : b \in Both}
  /\ pc[s] = "grade" => scopes[s] \in Graded

HeldInv(s) ==
  /\ scopes[s] \in Stacks /\ AtStep(s)
  /\ In(s, "credentials") <=> lease[s] = "live"
  /\ In(s, "creation") <=> box[s] = "creating"
  /\ In(s, "sandbox") <=> box[s] = "live"
  /\ In(s, "grading") => box[s] # "over"
  /\ pc[s] \in Steps \cup {"off"} => box[s] # "over" /\ lease[s] # "over"

\* The two sides of session s.
FlowInv(s) ==
  /\ client[s] = "open" <=> link[s] = "up"
  /\ link[s] = "down" => wire[s] = <<>> /\ result[s] = None
  /\ client[s] = "off" => pc[s] = "off" /\ first[s] = None
  /\ client[s] # "off" => pc[s] # "off"
  /\ pc[s] # "off" => request[s].kind # "none"
  /\ request[s].kind = "response" => request[s].from \in ToSet(held)
  /\ client[s] # "done" => verdict[s] = None
  /\ result[s] # None => Acknowledged(s) /\ result[s] = first[s] /\ result[s].graded \in ToSet(held)

Earned(s) ==
  verdict[s] \notin {None, Failed} =>
    /\ verdict[s] = first[s]
    /\ Pinned => acked[s]
    /\ verdict[s].graded \in ToSet(held)

\* Checkpoint c was graded from the input of checkpoint from, by its grader.
Descends(c, from) ==
  c.grader = from.grader /\ c.input.of = from.input.of /\ c.input.step >= from.input.step

Saved == {"sandbox", "creating", "grade"}

SavedInv(s) ==
  /\ pc[s] \in Saved => Checkpoint(s) \in store
  /\ request[s].kind = "response" /\ pc[s] \in Saved \cup {"save"} =>
       Descends(Checkpoint(s), request[s].from)
  /\ first[s] # None =>
       /\ first[s].graded \in store
       /\ request[s].kind = "response" => Descends(first[s].graded, request[s].from)

\* The chunks of wire w before its i-th, and the checkpoints h the caller holds,
\* include checkpoint c.
Backed(w, h, c, i) ==
  c \in h \/ \E j \in 1 .. i - 1 : w[j] = [type |-> "checkpoint", data |-> c]

ResultsBacked(w, h) ==
  \A i \in 1 .. Len(w) : w[i].type = "result" => Backed(w, h, w[i].data.graded, i)

CheckpointsIn(w, h) == \A i \in 1 .. Len(w) : w[i].type = "checkpoint" => w[i].data \in h

NoResult(w) == \A i \in 1 .. Len(w) : w[i].type # "result"

FirstIs(w, f) ==
  \E i \in 1 .. Len(w) :
    /\ w[i] = [type |-> "result", data |-> f]
    /\ \A j \in 1 .. i - 1 : w[j].type # "result"

WireInv(s) ==
  /\ CheckpointsIn(wire[s], store)
  /\ ResultsBacked(wire[s], ToSet(held))
  /\ link[s] = "up" /\ pc[s] \in Saved =>
       Backed(wire[s], ToSet(held), Checkpoint(s), Len(wire[s]) + 1)
  /\ first[s] = None => NoResult(wire[s])
  /\ link[s] = "up" /\ result[s] = None /\ first[s] # None => FirstIs(wire[s], first[s])

SessionInv(s) == HeldInv(s) /\ FlowInv(s) /\ Earned(s) /\ SavedInv(s) /\ WireInv(s)

IInv == TypeOK /\ CheckpointResolves /\ \A s \in Sessions : SessionInv(s)
-----------------------------------------------------------------------------
(* Types *)

LEMMA ChunkTypes ==
  /\ [type |-> "ack"] \in Chunks /\ [type |-> "error"] \in Chunks
  /\ [type |-> "close"] \in Chunks /\ [type |-> "abort"] \in Chunks
  /\ \A c \in Checkpoints : [type |-> "checkpoint", data |-> c] \in Chunks
  /\ \A r \in Results : [type |-> "result", data |-> r] \in Chunks
  BY DEF Chunks

StepTypes ==
  /\ pc \in [Sessions -> Steps \cup {"off", "unwind", "closed"}]
  /\ why \in [Sessions -> {"quiet", "error"}]

HeldTypes ==
  /\ scopes \in [Sessions -> Seq(Scopes)]
  /\ content \in [Sessions -> Inputs]
  /\ lease \in [Sessions -> {"none", "live", "over"}]
  /\ box \in [Sessions -> {"none", "creating", "live", "over"}]
  /\ items \in [Sessions -> 0 .. MaxItems]
  /\ grader \in [Sessions -> Graders]

WireTypes == wire \in [Sessions -> Seq(Chunks)]

ClientTypes ==
  /\ held \in Seq(Checkpoints)
  /\ request \in [Sessions -> [kind : {"none", "instance", "response"},
                               from : Checkpoints \cup {None}]]
  /\ first \in [Sessions -> Results \cup {None}]
  /\ link \in [Sessions -> {"down", "up"}]
  /\ client \in [Sessions -> {"off", "open", "done"}]
  /\ acked \in [Sessions -> BOOLEAN]
  /\ result \in [Sessions -> Results \cup {None}]
  /\ verdict \in [Sessions -> Results \cup {None, Failed}]

StoreTypes == deployed \in Graders /\ store \subseteq Checkpoints

LEMMA TypeParts ==
  TypeOK <=> StepTypes /\ HeldTypes /\ WireTypes /\ ClientTypes /\ StoreTypes
  BY DEF TypeOK, StepTypes, HeldTypes, WireTypes, ClientTypes, StoreTypes

LEMMA GotoTypes ==
  ASSUME StepTypes, NEW s \in Sessions, NEW at \in Steps, Goto(s, at)
  PROVE  StepTypes'
  BY DEF StepTypes, Goto

LEMMA LeaveTypes ==
  ASSUME StepTypes, NEW s \in Sessions, NEW reason \in {"quiet", "error"}, Leave(s, reason)
  PROVE  StepTypes'
  BY DEF StepTypes, Leave

LEMMA SendTypes ==
  ASSUME WireTypes, NEW s \in Sessions, NEW t \in Seq(Chunks), Send(s, t)
  PROVE  WireTypes'
  BY DEF WireTypes, Send

LEMMA ForwardTypes ==
  ASSUME StepTypes, WireTypes, NEW s \in Sessions, NEW c \in Chunks, NEW at \in Steps,
         Forward(s, c, at)
  PROVE  StepTypes' /\ WireTypes'
<1>1. CASE Send(s, <<c>>) /\ Goto(s, at)
  <2>1. <<c>> \in Seq(Chunks)
    OBVIOUS
  <2> QED
    BY <1>1, <2>1, SendTypes, GotoTypes
<1>2. CASE Leave(s, "quiet") /\ UNCHANGED wire
  BY <1>2, LeaveTypes DEF WireTypes
<1> QED
  BY <1>1, <1>2 DEF Forward

LEMMA RefuseTypes ==
  ASSUME StepTypes, WireTypes, NEW s \in Sessions, NEW t \in Seq(Chunks), Refuse(s, t)
  PROVE  StepTypes' /\ WireTypes'
<1>1. Append(t, [type |-> "abort"]) \in Seq(Chunks)
  BY ChunkTypes
<1> QED
  BY <1>1, SendTypes, LeaveTypes DEF Refuse

LEMMA CheckpointType ==
  ASSUME HeldTypes, NEW s \in Sessions
  PROVE  Checkpoint(s) \in Checkpoints
  BY DEF HeldTypes, Checkpoint, Checkpoints

LEMMA StepNames ==
  /\ "accept" \in Steps /\ "provider" \in Steps /\ "credentials" \in Steps
  /\ "collect" \in Steps /\ "load" \in Steps /\ "save" \in Steps /\ "sandbox" \in Steps
  /\ "creating" \in Steps /\ "grade" \in Steps
  /\ "off" \notin Steps /\ "unwind" \notin Steps /\ "closed" \notin Steps
  BY DEF Steps

\* The steps of a handler and the ends of its stack keep the types.
LEMMA AcceptTypes ==
  ASSUME StepTypes, WireTypes, NEW s \in Sessions, Accept(s)
  PROVE  StepTypes' /\ WireTypes'
<1>1. <<>> \in Seq(Chunks) /\ <<[type |-> "ack"]>> \in Seq(Chunks)
  BY ChunkTypes
<1>2. AfterAccept(s) \in Steps
  BY StepNames DEF AfterAccept
<1>3. CASE /\ IF Pinned THEN Send(s, <<[type |-> "ack"]>>) ELSE UNCHANGED wire
           /\ Goto(s, AfterAccept(s))
  <2>1. WireTypes'
    BY <1>1, <1>3, SendTypes DEF WireTypes
  <2> QED
    BY <1>2, <1>3, <2>1, GotoTypes
<1>4. CASE Refuse(s, <<>>) \/ Refuse(s, <<[type |-> "ack"]>>)
  BY <1>1, <1>4, RefuseTypes
<1>5. CASE (Leave(s, "error") \/ Leave(s, "quiet")) /\ UNCHANGED wire
  BY <1>5, LeaveTypes DEF WireTypes
<1> QED
  BY <1>3, <1>4, <1>5 DEF Accept

LEMMA EnterTypes ==
  ASSUME HeldTypes, NEW s \in Sessions, NEW e \in Scopes, Enter(s, e)
  PROVE  scopes' \in [Sessions -> Seq(Scopes)]
<1>1. Append(scopes[s], e) \in Seq(Scopes)
  BY DEF HeldTypes
<1> QED
  BY <1>1 DEF HeldTypes, Enter

\* The outer scopes of a handler that has entered any.
LEMMA OuterType ==
  ASSUME HeldTypes, NEW s \in Sessions, scopes[s] \in Stacks, scopes[s] # <<>>
  PROVE  /\ Outer(s) \in Seq(Scopes) /\ Outer(s) \in Stacks
         /\ [scopes EXCEPT ![s] = Outer(s)] \in [Sessions -> Seq(Scopes)]
<1>1. Outer(s) \in Stacks
  BY StackFacts DEF Outer
<1>2. Outer(s) \in Seq(Scopes)
  BY <1>1, StackFacts
<1> QED
  BY <1>1, <1>2 DEF HeldTypes

\* The two steps of a creation.
LEMMA CreatedScopes ==
  ASSUME NEW b \in Both
  PROVE  /\ Front(Append(b, "creation")) = b /\ Append(b, "creation") # <<>>
         /\ b \o <<"sandbox", "grading">> = Append(Append(b, "sandbox"), "grading")
         /\ b \o <<"sandbox", "grading">> \in Seq(Scopes) /\ Append(b, "sandbox") \in Seq(Scopes)
<1>1. b \in Seq(Scopes)
  BY BaseStacks
<1>2. Append(b, "sandbox") \in Seq(Scopes) /\ Front(Append(b, "creation")) = b /\ Append(b, "creation") # <<>>
  BY <1>1, ScopeNames, Entered
<1>3. Append(Append(b, "sandbox"), "grading") \in Seq(Scopes)
  BY <1>2, ScopeNames, Entered
<1>4. b \o <<"sandbox", "grading">> \in Seq(Scopes)
  BY <1>1, ScopeNames
<1>5. b \o <<"sandbox", "grading">> = Append(Append(b, "sandbox"), "grading")
  <2> DEFINE x == b \o <<"sandbox", "grading">>
             y == Append(Append(b, "sandbox"), "grading")
  <2>1. Len(x) = Len(b) + 2 /\ Len(y) = Len(b) + 2 /\ Len(b) \in Nat
    BY <1>1, <1>2
  <2>2. \A i \in 1 .. Len(b) : x[i] = b[i] /\ y[i] = b[i]
    BY <1>1, <1>2
  <2>3. x[Len(b) + 1] = "sandbox" /\ y[Len(b) + 1] = "sandbox"
    BY <1>1, <1>2
  <2>4. x[Len(b) + 2] = "grading" /\ y[Len(b) + 2] = "grading"
    BY <1>1, <1>2
  <2>5. \A i \in 1 .. Len(x) : x[i] = y[i]
    <3> SUFFICES ASSUME NEW i \in 1 .. Len(x) PROVE x[i] = y[i]
      OBVIOUS
    <3>1. i \in 1 .. Len(b) \/ i = Len(b) + 1 \/ i = Len(b) + 2
      BY <2>1
    <3> HIDE DEF x, y
    <3> QED
      BY <2>2, <2>3, <2>4, <3>1
  <2> HIDE DEF x, y
  <2> QED
    BY <1>3, <1>4, <2>1, <2>5, SeqEqual DEF x, y
<1> QED
  BY <1>2, <1>4, <1>5

LEMMA CreatingScopes ==
  ASSUME NEW s \in Sessions, HeldInv(s), pc[s] = "creating"
  PROVE  Outer(s) \in Both /\ scopes[s] = Append(Outer(s), "creation")
  BY CreatedScopes DEF HeldInv, AtStep, Outer

LEMMA ForgetTypes ==
  ASSUME HeldTypes, NEW s \in Sessions, Forget(s)
  PROVE  content' \in [Sessions -> Inputs] /\ items' \in [Sessions -> 0 .. MaxItems]
<1>1. 0 \in 0 .. MaxItems
  BY SessionAssumption
<1>2. [of |-> s, step |-> 0] \in Inputs
  BY <1>1 DEF Inputs
<1> QED
  BY <1>1, <1>2 DEF HeldTypes, Forget

\* The steps of a handler keep the types.
LEMMA ServerTypes ==
  ASSUME TypeOK, NEW s \in Sessions, HeldInv(s), Serve(s) \/ Cancel(s) \/ Teardown(s)
  PROVE  TypeOK'
<1>0. StepTypes /\ HeldTypes /\ WireTypes /\ ClientTypes /\ StoreTypes
  BY TypeParts
<1> SUFFICES StepTypes' /\ HeldTypes' /\ WireTypes' /\ ClientTypes' /\ StoreTypes'
  <2>1. (StepTypes /\ HeldTypes /\ WireTypes /\ ClientTypes /\ StoreTypes => TypeOK)'
    BY TypeParts, PTL
  <2> QED
    BY <2>1
<1>k. UNCHANGED <<deployed, store, clientVars, link>> => ClientTypes' /\ StoreTypes'
  BY <1>0 DEF clientVars, ClientTypes, StoreTypes
<1>h. UNCHANGED <<grader, scopes, content, lease, box, items>> => HeldTypes'
  BY <1>0 DEF HeldTypes
<1>w. UNCHANGED <<wire>> => WireTypes'
  BY <1>0 DEF WireTypes
<1>c. Checkpoint(s) \in Checkpoints
  BY <1>0, CheckpointType
<1>1. CASE Accept(s)
  <2>1. UNCHANGED <<deployed, store, clientVars, link, grader, scopes, content, lease, box, items>>
    BY <1>1 DEF Accept
  <2> QED
    BY <1>0, <1>1, <1>h, <1>k, <2>1, AcceptTypes
<1>2. CASE OpenProvider(s)
  <2>1. UNCHANGED <<deployed, store, clientVars, link, wire, grader, content, lease, box, items>>
    BY <1>2 DEF OpenProvider
  <2>2. AfterProvider(s) \in Steps
    BY StepNames DEF AfterProvider
  <2>3. StepTypes'
    BY <1>0, <1>2, <2>2, GotoTypes, LeaveTypes DEF OpenProvider
  <2>4. Enter(s, "provider") \/ UNCHANGED scopes
    BY <1>2 DEF OpenProvider
  <2>5. scopes' \in [Sessions -> Seq(Scopes)]
    BY <1>0, <2>4, EnterTypes, ScopeNames DEF HeldTypes
  <2>6. HeldTypes'
    BY <1>0, <2>1, <2>5 DEF HeldTypes
  <2> QED
    BY <1>k, <1>w, <2>1, <2>3, <2>6
<1>3. CASE BindCredentials(s)
  <2>1. UNCHANGED <<deployed, store, clientVars, link, wire, grader, content, box, items>>
    BY <1>3 DEF BindCredentials
  <2>2. AfterCredentials(s) \in Steps
    BY StepNames DEF AfterCredentials
  <2>3. StepTypes'
    BY <1>0, <1>3, <2>2, GotoTypes, LeaveTypes DEF BindCredentials
  <2>4. scopes' \in [Sessions -> Seq(Scopes)]
    <3>1. Enter(s, "credentials") \/ UNCHANGED scopes
      BY <1>3 DEF BindCredentials
    <3> QED
      BY <1>0, <3>1, EnterTypes, ScopeNames DEF HeldTypes
  <2>5. lease' \in [Sessions -> {"none", "live", "over"}]
    BY <1>0, <1>3 DEF BindCredentials, HeldTypes
  <2>6. HeldTypes'
    BY <1>0, <2>1, <2>4, <2>5 DEF HeldTypes
  <2> QED
    BY <1>k, <1>w, <2>1, <2>3, <2>6
<1>4. CASE CollectGradingInput(s)
  <2>1. UNCHANGED <<deployed, store, clientVars, link, grader, scopes, lease, box, items>>
    BY <1>4 DEF CollectGradingInput
  <2>2. StepTypes'
    BY <1>0, <1>4, StepNames, GotoTypes, LeaveTypes DEF CollectGradingInput
  <2>3. WireTypes'
    <3>1. <<[type |-> "error"]>> \in Seq(Chunks)
      BY ChunkTypes
    <3>2. Send(s, <<[type |-> "error"]>>) \/ UNCHANGED wire
      BY <1>4 DEF CollectGradingInput
    <3> QED
      BY <1>0, <1>w, <3>1, <3>2, SendTypes
  <2>4. content' \in [Sessions -> Inputs]
    <3>1. [of |-> s, step |-> 0] \in Inputs
      BY SessionAssumption DEF Inputs
    <3>2. content' = [content EXCEPT ![s] = [of |-> s, step |-> 0]] \/ UNCHANGED content
      BY <1>4 DEF CollectGradingInput
    <3> QED
      BY <1>0, <3>1, <3>2 DEF HeldTypes
  <2>5. HeldTypes'
    BY <1>0, <2>1, <2>4 DEF HeldTypes
  <2> QED
    BY <1>k, <2>1, <2>2, <2>3, <2>5
<1>5. CASE SaveGradingInput(s)
  <2>1. UNCHANGED <<deployed, clientVars, link, grader, scopes, content, lease, box, items>>
    BY <1>5 DEF SaveGradingInput
  <2>2. AfterSave(s) \in Steps /\ [type |-> "checkpoint", data |-> Checkpoint(s)] \in Chunks
    BY <1>c, StepNames, ChunkTypes DEF AfterSave
  <2>3. CASE /\ store' = store \cup {Checkpoint(s)}
             /\ Forward(s, [type |-> "checkpoint", data |-> Checkpoint(s)], AfterSave(s))
    <3>1. StepTypes' /\ WireTypes'
      BY <1>0, <2>2, <2>3, ForwardTypes
    <3>2. ClientTypes' /\ StoreTypes'
      BY <1>0, <1>c, <2>1, <2>3 DEF clientVars, ClientTypes, StoreTypes, SaveGradingInput
    <3> QED
      BY <1>h, <2>1, <3>1, <3>2
  <2>4. CASE Leave(s, "error") /\ UNCHANGED <<store, wire>>
    BY <1>0, <1>h, <1>k, <1>w, <2>1, <2>4, LeaveTypes
  <2> QED
    BY <1>5, <2>3, <2>4 DEF SaveGradingInput
<1>6. CASE LoadGradingInput(s)
  <2>1. UNCHANGED <<deployed, store, clientVars, link, wire, grader, scopes, lease, box, items>>
    BY <1>6 DEF LoadGradingInput
  <2>2. StepTypes'
    BY <1>0, <1>6, StepNames, GotoTypes, LeaveTypes DEF LoadGradingInput
  <2>3. content' \in [Sessions -> Inputs]
    BY <1>0, <1>6 DEF LoadGradingInput, Resolves, HeldTypes, StoreTypes, Checkpoints
  <2>4. HeldTypes'
    BY <1>0, <2>1, <2>3 DEF HeldTypes
  <2> QED
    BY <1>k, <1>w, <2>1, <2>2, <2>4
<1>7. CASE ChooseSandbox(s)
  <2>1. UNCHANGED <<deployed, store, clientVars, link, wire, grader, content, lease, items>>
    BY <1>7 DEF ChooseSandbox
  <2>2. StepTypes'
    BY <1>0, <1>7, StepNames, GotoTypes, LeaveTypes DEF ChooseSandbox
  <2>3. scopes' \in [Sessions -> Seq(Scopes)]
    <3>1. Enter(s, "grading") \/ Enter(s, "creation") \/ UNCHANGED scopes
      BY <1>7 DEF ChooseSandbox
    <3> QED
      BY <1>0, <3>1, EnterTypes, ScopeNames DEF HeldTypes
  <2>4. box' \in [Sessions -> {"none", "creating", "live", "over"}]
    BY <1>0, <1>7 DEF ChooseSandbox, HeldTypes
  <2>5. HeldTypes'
    BY <1>0, <2>1, <2>3, <2>4 DEF HeldTypes
  <2> QED
    BY <1>k, <1>w, <2>1, <2>2, <2>5
<1>8. CASE CreateSandbox(s)
  <2>1. UNCHANGED <<deployed, store, clientVars, link, wire, grader, content, lease, items>>
    BY <1>8 DEF CreateSandbox
  <2>2. StepTypes'
    BY <1>0, <1>8, StepNames, GotoTypes, LeaveTypes DEF CreateSandbox
  <2>3. pc[s] = "creating" /\ Outer(s) \in Both
    BY <1>8, CreatingScopes DEF CreateSandbox
  <2>4. /\ Outer(s) \in Seq(Scopes) /\ Append(Outer(s), "sandbox") \in Seq(Scopes)
        /\ Outer(s) \o <<"sandbox", "grading">> \in Seq(Scopes)
    BY <2>3, BaseStacks, CreatedScopes
  <2>5. \E q \in Seq(Scopes) : scopes' = [scopes EXCEPT ![s] = q]
    BY <1>8, <2>4 DEF CreateSandbox
  <2>6. scopes' \in [Sessions -> Seq(Scopes)]
    BY <1>0, <2>5 DEF HeldTypes
  <2>7. box' \in [Sessions -> {"none", "creating", "live", "over"}]
    BY <1>0, <1>8 DEF CreateSandbox, HeldTypes
  <2>8. HeldTypes'
    BY <1>0, <2>1, <2>6, <2>7 DEF HeldTypes
  <2> QED
    BY <1>k, <1>w, <2>1, <2>2, <2>8
<1>9. CASE YieldGradingInput(s)
  <2>1. UNCHANGED <<deployed, store, clientVars, link, wire, grader, scopes, lease, box>>
    BY <1>9 DEF YieldGradingInput
  <2>2. StepTypes'
    BY <1>0, <1>9, StepNames, GotoTypes DEF YieldGradingInput
  <2>3. items[s] + 1 \in 0 .. MaxItems /\ content[s].step + 1 \in 0 .. MaxItems
    BY <1>0, <1>9, SessionAssumption DEF YieldGradingInput, HeldTypes, Inputs
  <2>4. /\ items' = [items EXCEPT ![s] = items[s] + 1]
        /\ content' = [content EXCEPT ![s] = [content[s] EXCEPT !.step = content[s].step + 1]]
    BY <1>9 DEF YieldGradingInput
  <2>5. [content[s] EXCEPT !.step = content[s].step + 1] \in Inputs
    <3>1. content[s] \in Inputs
      BY <1>0 DEF HeldTypes
    <3> QED
      BY <2>3, <3>1 DEF Inputs
  <2>6. HeldTypes'
    BY <1>0, <2>1, <2>3, <2>4, <2>5 DEF HeldTypes
  <2> QED
    BY <1>k, <1>w, <2>1, <2>2, <2>6
<1>10. CASE YieldResult(s)
  <2> DEFINE g == [graded |-> Checkpoint(s), item |-> items[s]]
  <2>1. /\ UNCHANGED <<deployed, store, held, request, client, acked, result, verdict, link,
                       grader, scopes, content, lease, box>>
        /\ items' = [items EXCEPT ![s] = items[s] + 1]
        /\ first' = [first EXCEPT ![s] = IF first[s] = None /\ link[s] = "up" THEN g ELSE first[s]]
        /\ Forward(s, [type |-> "result", data |-> g], "grade")
    BY <1>10 DEF YieldResult
  <2>2. items[s] \in 0 .. MaxItems /\ items[s] + 1 \in 0 .. MaxItems
    BY <1>0, <1>10, SessionAssumption DEF YieldResult, HeldTypes
  <2>3. g \in Results
    BY <1>c, <2>2 DEF Results
  <2>4. [type |-> "result", data |-> g] \in Chunks
    BY <2>3, ChunkTypes
  <2> HIDE DEF g
  <2>5. StepTypes' /\ WireTypes'
    BY <1>0, <2>1, <2>4, StepNames, ForwardTypes
  <2>6. HeldTypes'
    BY <1>0, <2>1, <2>2 DEF HeldTypes
  <2>7. ClientTypes' /\ StoreTypes'
    BY <1>0, <2>1, <2>3 DEF ClientTypes, StoreTypes
  <2> QED
    BY <2>5, <2>6, <2>7
<1>11. CASE YieldError(s)
  <2>1. /\ UNCHANGED <<deployed, store, clientVars, link, grader, scopes, content, lease, box>>
        /\ items' = [items EXCEPT ![s] = items[s] + 1]
        /\ Forward(s, [type |-> "error"], "grade")
    BY <1>11 DEF YieldError
  <2>2. items[s] + 1 \in 0 .. MaxItems
    BY <1>0, <1>11, SessionAssumption DEF YieldError, HeldTypes
  <2>3. HeldTypes'
    BY <1>0, <2>1, <2>2 DEF HeldTypes
  <2>4. StepTypes' /\ WireTypes'
    BY <1>0, <2>1, StepNames, ChunkTypes, ForwardTypes
  <2> QED
    BY <1>k, <2>1, <2>3, <2>4
<1>12. CASE EndGrading(s)
  <2>1. UNCHANGED <<deployed, store, clientVars, link, wire, grader, scopes, content, lease, box, items>>
    BY <1>12 DEF EndGrading
  <2>2. StepTypes'
    BY <1>0, <1>12, LeaveTypes DEF EndGrading
  <2> QED
    BY <1>h, <1>k, <1>w, <2>1, <2>2
<1>13. CASE Cancel(s)
  <2>1. UNCHANGED <<deployed, clientVars, link, wire, grader, scopes, content, lease, box, items>>
    BY <1>13 DEF Cancel
  <2>2. StepTypes'
    BY <1>0, <1>13, LeaveTypes DEF Cancel
  <2>3. store' \subseteq Checkpoints
    BY <1>0, <1>13, <1>c DEF Cancel, StoreTypes
  <2>4. ClientTypes' /\ StoreTypes'
    BY <1>0, <2>1, <2>3 DEF clientVars, ClientTypes, StoreTypes
  <2> QED
    BY <1>h, <1>w, <2>1, <2>2, <2>4
<1>14. CASE LeaveScope(s)
  <2>1. UNCHANGED <<deployed, store, clientVars, link, wire, grader, pc>>
    BY <1>14 DEF LeaveScope
  <2>2. why' \in [Sessions -> {"quiet", "error"}]
    BY <1>0, <1>14 DEF LeaveScope, StepTypes
  <2>3. scopes' \in [Sessions -> Seq(Scopes)]
    BY <1>0, <1>14, OuterType DEF LeaveScope, HeldInv
  <2>4. box' \in [Sessions -> {"none", "creating", "live", "over"}]
    BY <1>0, <1>14 DEF LeaveScope, HeldTypes
  <2>5. lease' \in [Sessions -> {"none", "live", "over"}]
    BY <1>0, <1>14 DEF LeaveScope, HeldTypes
  <2>6. content' \in [Sessions -> Inputs] /\ items' \in [Sessions -> 0 .. MaxItems]
    BY <1>0, <1>14, ForgetTypes DEF LeaveScope, HeldTypes
  <2>7. StepTypes' /\ HeldTypes'
    BY <1>0, <2>1, <2>2, <2>3, <2>4, <2>5, <2>6 DEF StepTypes, HeldTypes
  <2> QED
    BY <1>k, <1>w, <2>1, <2>7
<1>15. CASE CloseSession(s)
  <2>1. UNCHANGED <<deployed, store, clientVars, link, scopes>>
    BY <1>15 DEF CloseSession
  <2>2. StepTypes'
    BY <1>0, <1>15 DEF CloseSession, StepTypes
  <2>3. WireTypes'
    <3>1. /\ <<[type |-> "error"]>> \in Seq(Chunks) /\ <<>> \in Seq(Chunks)
          /\ <<[type |-> "close"]>> \in Seq(Chunks) /\ wire[s] \in Seq(Chunks)
      BY <1>0, ChunkTypes DEF WireTypes
    <3> DEFINE said == IF why[s] = "error" THEN <<[type |-> "error"]>> ELSE <<>>
    <3>2. said \in Seq(Chunks)
      BY <3>1
    <3>3. wire' = IF link[s] # "up" THEN wire
                  ELSE [wire EXCEPT ![s] = (wire[s] \o said) \o <<[type |-> "close"]>>]
      BY <1>15 DEF CloseSession
    <3> HIDE DEF said
    <3>4. (wire[s] \o said) \o <<[type |-> "close"]>> \in Seq(Chunks)
      BY <3>1, <3>2
    <3> QED
      BY <1>0, <3>3, <3>4 DEF WireTypes
  <2>4. content' \in [Sessions -> Inputs] /\ items' \in [Sessions -> 0 .. MaxItems]
    BY <1>0, <1>15, ForgetTypes DEF CloseSession
  <2>5. /\ lease' \in [Sessions -> {"none", "live", "over"}]
        /\ box' \in [Sessions -> {"none", "creating", "live", "over"}]
    BY <1>0, <1>15 DEF CloseSession, HeldTypes
  <2>6. grader' \in [Sessions -> Graders]
    <3>1. 1 \in Graders
      BY SessionAssumption DEF Graders
    <3> QED
      BY <1>0, <1>15, <3>1 DEF CloseSession, HeldTypes
  <2>7. HeldTypes'
    BY <1>0, <2>1, <2>4, <2>5, <2>6 DEF HeldTypes
  <2> QED
    BY <1>k, <2>1, <2>2, <2>3, <2>7
<1> QED
  BY <1>1, <1>2, <1>3, <1>4, <1>5, <1>6, <1>7, <1>8, <1>9, <1>10, <1>11, <1>12, <1>13, <1>14,
     <1>15 DEF Serve, Teardown

LEMMA FinishTypes ==
  ASSUME ClientTypes, WireTypes, NEW s \in Sessions, NEW o \in Results \cup {Failed},
         Finish(s, o), UNCHANGED <<held, request>>
  PROVE  ClientTypes' /\ WireTypes'
<1>1. acked' \in [Sessions -> BOOLEAN]
  <2> DEFINE told == acked[s] /\ o # Failed
  <2>1. acked' = [acked EXCEPT ![s] = told] /\ told \in BOOLEAN
    BY DEF Finish
  <2> HIDE DEF told
  <2> QED
    BY <2>1 DEF ClientTypes
<1>2. /\ client' \in [Sessions -> {"off", "open", "done"}]
      /\ verdict' \in [Sessions -> Results \cup {None, Failed}]
      /\ link' \in [Sessions -> {"down", "up"}]
  BY DEF Finish, ClientTypes
<1>3. /\ first' \in [Sessions -> Results \cup {None}]
      /\ result' \in [Sessions -> Results \cup {None}]
  BY DEF Finish, ClientTypes
<1>4. WireTypes'
  BY DEF Finish, WireTypes
<1> QED
  BY <1>1, <1>2, <1>3, <1>4 DEF ClientTypes

\* The head of the wire is read.
LEMMA ConsumeTypes ==
  ASSUME WireTypes, NEW s \in Sessions, wire[s] # <<>>
  PROVE  Head(wire[s]) \in Chunks /\ (Consume(s) => WireTypes')
<1>1. wire[s] \in Seq(Chunks)
  BY DEF WireTypes
<1>2. Head(wire[s]) \in Chunks /\ Tail(wire[s]) \in Seq(Chunks)
  BY <1>1
<1> QED
  BY <1>2 DEF Consume, WireTypes

LEMMA ChunkData ==
  ASSUME NEW c \in Chunks
  PROVE  /\ c.type = "checkpoint" => c.data \in Checkpoints
         /\ c.type = "result" => c.data \in Results
  BY DEF Chunks

LEMMA ReceiveCases ==
  ASSUME NEW s, Receive(s)
  PROVE  /\ client[s] = "open" /\ wire[s] # <<>>
         /\ UNCHANGED <<deployed, store, serverVars, request>>
         /\ LET chunk == Head(wire[s]) IN
            \/ /\ chunk.type = "ack" /\ acked' = [acked EXCEPT ![s] = TRUE]
               /\ Consume(s) /\ Goes /\ UNCHANGED <<held, result>>
            \/ Finish(s, Failed) /\ UNCHANGED held
            \/ /\ chunk.type = "checkpoint" /\ held' = Append(held, chunk.data)
               /\ Consume(s) /\ Goes /\ UNCHANGED <<acked, result>>
            \/ /\ chunk.type = "result" /\ Acknowledged(s)
               /\ result' = [result EXCEPT ![s] = IF @ = None THEN chunk.data ELSE @]
               /\ Consume(s) /\ Goes /\ UNCHANGED <<held, acked>>
            \/ /\ Finish(s, IF result[s] = None THEN Failed ELSE result[s])
               /\ UNCHANGED held
  BY DEF Receive, StoreCheckpoint

\* The steps of the client and of the deployment keep the types.
LEMMA ClientStepTypes ==
  ASSUME TypeOK, NEW s \in Sessions, OpenSession(s) \/ Receive(s) \/ GiveUp(s) \/ Redeploy
  PROVE  TypeOK'
<1>0. StepTypes /\ HeldTypes /\ WireTypes /\ ClientTypes /\ StoreTypes
  BY TypeParts
<1> SUFFICES StepTypes' /\ HeldTypes' /\ WireTypes' /\ ClientTypes' /\ StoreTypes'
  <2>1. (StepTypes /\ HeldTypes /\ WireTypes /\ ClientTypes /\ StoreTypes => TypeOK)'
    BY TypeParts, PTL
  <2> QED
    BY <2>1
<1>v. UNCHANGED <<deployed, store, serverVars>> => StepTypes' /\ HeldTypes' /\ StoreTypes'
  BY <1>0 DEF serverVars, StepTypes, HeldTypes, StoreTypes
<1>1. CASE OpenSession(s)
  <2>1. /\ UNCHANGED <<deployed, store, held, scopes, why, content, lease, box, items, first,
                       wire, acked, result, verdict>>
        /\ client' = [client EXCEPT ![s] = "open"] /\ link' = [link EXCEPT ![s] = "up"]
        /\ pc' = [pc EXCEPT ![s] = "accept"] /\ grader' = [grader EXCEPT ![s] = deployed]
        /\ request' = [request EXCEPT ![s] =
                         IF held = <<>> THEN [kind |-> "instance", from |-> None]
                         ELSE [kind |-> "response", from |-> Last(held)]]
    BY <1>1 DEF OpenSession
  <2>2. held # <<>> => Last(held) \in Checkpoints
    BY <1>0 DEF ClientTypes, Last
  <2>3. request' \in [Sessions -> [kind : {"none", "instance", "response"},
                                  from : Checkpoints \cup {None}]]
    BY <1>0, <2>1, <2>2 DEF ClientTypes
  <2>4. ClientTypes'
    BY <1>0, <2>1, <2>3 DEF ClientTypes
  <2>5. StepTypes' /\ HeldTypes' /\ WireTypes' /\ StoreTypes'
    BY <1>0, <2>1, StepNames DEF StepTypes, HeldTypes, WireTypes, StoreTypes
  <2> QED
    BY <2>4, <2>5
<1>2. CASE Receive(s)
  <2> DEFINE chunk == Head(wire[s])
  <2>1. UNCHANGED <<deployed, store, serverVars, request>> /\ wire[s] # <<>>
    BY <1>2, ReceiveCases
  <2>2. chunk \in Chunks /\ (Consume(s) => WireTypes')
    BY <1>0, <2>1, ConsumeTypes
  <2>3. CASE /\ acked' = [acked EXCEPT ![s] = TRUE] /\ Consume(s) /\ Goes
             /\ UNCHANGED <<held, result>>
    BY <1>0, <1>v, <2>1, <2>2, <2>3 DEF ClientTypes, Goes
  <2>4. CASE Finish(s, Failed) /\ UNCHANGED held
    BY <1>0, <1>v, <2>1, <2>4, FinishTypes
  <2>5. CASE /\ chunk.type = "checkpoint" /\ held' = Append(held, chunk.data)
             /\ Consume(s) /\ Goes /\ UNCHANGED <<acked, result>>
    <3>1. chunk.data \in Checkpoints
      BY <2>2, <2>5, ChunkData
    <3>2. held' \in Seq(Checkpoints)
      BY <1>0, <2>5, <3>1 DEF ClientTypes
    <3>3. ClientTypes'
      BY <1>0, <2>1, <2>5, <3>2 DEF ClientTypes, Goes
    <3> QED
      BY <1>v, <2>1, <2>2, <2>5, <3>3
  <2>6. CASE /\ chunk.type = "result"
             /\ result' = [result EXCEPT ![s] = IF @ = None THEN chunk.data ELSE @]
             /\ Consume(s) /\ Goes /\ UNCHANGED <<held, acked>>
    <3>1. chunk.data \in Results
      BY <2>2, <2>6, ChunkData
    <3>2. result' \in [Sessions -> Results \cup {None}]
      BY <1>0, <2>6, <3>1 DEF ClientTypes
    <3>3. ClientTypes'
      BY <1>0, <2>1, <2>6, <3>2 DEF ClientTypes, Goes
    <3> QED
      BY <1>v, <2>1, <2>2, <2>6, <3>3
  <2>7. CASE Finish(s, IF result[s] = None THEN Failed ELSE result[s]) /\ UNCHANGED held
    <3>1. (IF result[s] = None THEN Failed ELSE result[s]) \in Results \cup {Failed}
      BY <1>0 DEF ClientTypes
    <3> QED
      BY <1>0, <1>v, <2>1, <2>7, <3>1, FinishTypes
  <2> QED
    BY <1>2, <2>3, <2>4, <2>5, <2>6, <2>7, ReceiveCases
<1>3. CASE GiveUp(s)
  BY <1>0, <1>3, <1>v, FinishTypes DEF GiveUp
<1>4. CASE Redeploy
  <2>1. UNCHANGED <<store, serverVars, clientVars, link, wire>> /\ deployed' = deployed + 1
    BY <1>4 DEF Redeploy
  <2>2. deployed' \in Graders
    BY <1>0, <1>4, SessionAssumption DEF Redeploy, StoreTypes, Graders
  <2> QED
    BY <1>0, <2>1, <2>2
       DEF serverVars, clientVars, StepTypes, HeldTypes, WireTypes, ClientTypes, StoreTypes
<1> QED
  BY <1>1, <1>2, <1>3, <1>4
-----------------------------------------------------------------------------
(* What a handler holds *)

\* A handler that leaves without having given anything back holds what it has entered.
LEMMA LeaveKeeps ==
  ASSUME NEW s \in Sessions, HeldInv(s), pc'[s] = "unwind",
         scopes'[s] = scopes[s], lease'[s] = lease[s], box'[s] = box[s]
  PROVE  HeldInv(s)'
  BY StepNames DEF HeldInv, AtStep, In

\* Nor does a step that changes only where it is, to a place of the same stack.
LEMMA GotoKeeps ==
  ASSUME NEW s \in Sessions, HeldInv(s), pc[s] \in Steps, AtStep(s)',
         scopes'[s] = scopes[s], lease'[s] = lease[s], box'[s] = box[s]
  PROVE  HeldInv(s)'
  BY DEF HeldInv, In

LEMMA EnterScope ==
  ASSUME TypeOK, NEW s \in Sessions, NEW e \in Scopes, Enter(s, e)
  PROVE  scopes'[s] = Append(scopes[s], e) /\ ToSet(scopes'[s]) = ToSet(scopes[s]) \cup {e}
<1>1. scopes[s] \in Seq(Scopes) /\ scopes'[s] = Append(scopes[s], e)
  BY DEF TypeOK, Enter
<1> QED
  BY <1>1, Entered

LEMMA LeavePc ==
  ASSUME TypeOK, NEW s \in Sessions, NEW reason, Leave(s, reason)
  PROVE  pc'[s] = "unwind"
  BY DEF TypeOK, Leave

LEMMA GotoPc ==
  ASSUME TypeOK, NEW s \in Sessions, NEW at, Goto(s, at)
  PROVE  pc'[s] = at
  BY DEF TypeOK, Goto

LEMMA ForwardPc ==
  ASSUME TypeOK, NEW s \in Sessions, NEW c, NEW at, Forward(s, c, at)
  PROVE  pc'[s] = at \/ pc'[s] = "unwind"
  BY GotoPc, LeavePc DEF Forward

LEMMA GradedSets ==
  /\ \A q \in Graded : "grading" \in ToSet(q) /\ q \in Stacks
  /\ \A b \in Both : "grading" \notin ToSet(b) /\ "provider" \in ToSet(b)
  /\ \A b \in Bases :
       /\ ToSet(b) \subseteq {"provider", "credentials"} /\ "credentials" \in ToSet(b)
       /\ Append(b, "grading") \in Graded /\ ("provider" \in ToSet(b) => b \in Both)
<1>1. \A b \in Bases :
       /\ b \in Seq(Scopes) /\ ToSet(b) \subseteq {"provider", "credentials"}
       /\ "credentials" \in ToSet(b) /\ ("provider" \in ToSet(b) => b \in Both)
  BY BaseStacks DEF Bases, Tops
<1>2. \A b \in Bases : Append(b, "grading") \in Graded
  BY DEF Graded
<1>3. ASSUME NEW q \in Graded PROVE "grading" \in ToSet(q) /\ q \in Stacks
  <2>1. CASE \E b \in Bases : q = Append(b, "grading")
    BY <1>1, <2>1, Entered, ScopeNames DEF Stacks, Graded
  <2>2. CASE \E b \in Both : q = Append(Append(b, "sandbox"), "grading")
    <3>1. PICK b \in Both : q = Append(Append(b, "sandbox"), "grading")
      BY <2>2
    <3>2. Append(b, "sandbox") \in Seq(Scopes)
      BY <3>1, CreatedScopes
    <3>3. q \in Stacks
      BY DEF Stacks
    <3>4. ToSet(q) = ToSet(Append(b, "sandbox")) \cup {"grading"}
      BY <3>1, <3>2, Entered, ScopeNames
    <3> QED
      BY <3>3, <3>4
  <2> QED
    BY <2>1, <2>2 DEF Graded
<1>4. \A b \in Both : "grading" \notin ToSet(b) /\ "provider" \in ToSet(b)
  BY BaseStacks
<1> QED
  BY <1>1, <1>2, <1>3, <1>4

LEMMA HeldStep ==
  ASSUME TypeOK, NEW s \in Sessions, HeldInv(s), request[s].kind # "none" \/ pc[s] = "off",
         Serve(s) \/ Cancel(s) \/ Teardown(s)
  PROVE  HeldInv(s)'
<1>i. Instance(s)' = Instance(s)
  BY DEF Serve, Cancel, Teardown, Accept, OpenProvider, BindCredentials, CollectGradingInput,
     SaveGradingInput, LoadGradingInput, ChooseSandbox, CreateSandbox, YieldGradingInput,
     YieldResult, YieldError, EndGrading, LeaveScope, CloseSession, clientVars, Instance
<1>n. pc[s] \in Steps => box[s] # "over" /\ lease[s] # "over"
  BY DEF HeldInv
<1>1. CASE Accept(s)
  <2>1. /\ pc[s] = "accept" /\ scopes[s] = <<>> /\ UNCHANGED <<scopes, lease, box>>
    BY <1>1 DEF Accept, HeldInv, AtStep
  <2>2. pc'[s] = AfterAccept(s) \/ pc'[s] = "unwind"
    BY <1>1, GotoPc, LeavePc DEF Accept, Refuse
  <2>3. CASE pc'[s] = "unwind"
    BY <2>1, <2>3, LeaveKeeps
  <2>4. CASE pc'[s] = AfterAccept(s)
    BY <1>i, <2>1, <2>4, GotoKeeps, StepNames DEF AfterAccept, AtStep
  <2> QED
    BY <2>2, <2>3, <2>4
<1>2. CASE OpenProvider(s)
  <2>1. /\ pc[s] = "provider" /\ UNCHANGED <<lease, box>>
        /\ scopes[s] = IF Instance(s) THEN <<>> ELSE CredentialsOnly
    BY <1>2 DEF OpenProvider, HeldInv, AtStep
  <2>2. CASE Leave(s, "error") /\ UNCHANGED scopes
    BY <2>1, <2>2, LeavePc, LeaveKeeps
  <2>3. CASE ~ Instance(s) /\ Goto(s, AfterProvider(s)) /\ UNCHANGED scopes
    <3>1. pc'[s] = "load" /\ scopes'[s] \in Bases
      BY <2>1, <2>3, GotoPc DEF AfterProvider, Bases
    <3>2. AtStep(s)'
      BY <1>i, <2>3, <3>1 DEF AtStep
    <3> QED
      BY <2>1, <2>3, <3>2, GotoKeeps, StepNames
  <2>4. ASSUME Enter(s, "provider"),
               Goto(s, AfterProvider(s)) \/ (Instance(s) /\ Leave(s, "error"))
        PROVE  HeldInv(s)'
    <3>1. /\ scopes'[s] = Append(scopes[s], "provider")
          /\ ToSet(scopes'[s]) = ToSet(scopes[s]) \cup {"provider"}
      BY <2>4, EnterScope, ScopeNames
    <3>2. pc'[s] = AfterProvider(s) \/ (Instance(s) /\ pc'[s] = "unwind")
      BY <2>4, GotoPc, LeavePc
    <3>3. CASE Instance(s)
      <4>1. scopes'[s] = ProviderOnly /\ scopes'[s] \in Stacks
        BY <2>1, <3>1, <3>3 DEF ProviderOnly, Stacks
      <4>2. AtStep(s)'
        BY <1>i, <3>2, <3>3, <4>1 DEF AtStep, AfterProvider
      <4> QED
        BY <1>n, <2>1, <3>1, <4>1, <4>2, StepNames DEF HeldInv, In
    <3>4. CASE ~ Instance(s)
      <4>1. scopes'[s] \in Bases /\ scopes'[s] \in Stacks
        BY <2>1, <3>1, <3>4 DEF Bases, Both, Stacks
      <4>2. AtStep(s)'
        BY <1>i, <3>2, <3>4, <4>1 DEF AtStep, AfterProvider
      <4> QED
        BY <1>n, <2>1, <3>1, <4>1, <4>2, StepNames DEF HeldInv, In
    <3> QED
      BY <3>3, <3>4
  <2>5. \/ Enter(s, "provider") /\ Goto(s, AfterProvider(s))
        \/ ~ Instance(s) /\ Goto(s, AfterProvider(s)) /\ UNCHANGED scopes
        \/ Leave(s, "error") /\ UNCHANGED scopes
        \/ Instance(s) /\ Enter(s, "provider") /\ Leave(s, "error")
    BY <1>2 DEF OpenProvider
  <2> QED
    BY <2>2, <2>3, <2>4, <2>5
<1>3. CASE BindCredentials(s)
  <2>1. /\ pc[s] = "credentials" /\ box' = box
        /\ scopes[s] = IF Instance(s) THEN ProviderOnly ELSE <<>>
    BY <1>3 DEF BindCredentials, HeldInv, AtStep
  <2>2. CASE Leave(s, "error") /\ UNCHANGED <<scopes, lease>>
    BY <2>1, <2>2, LeavePc, LeaveKeeps
  <2>3. CASE /\ Enter(s, "credentials") /\ Goto(s, AfterCredentials(s))
             /\ lease' = [lease EXCEPT ![s] = "live"]
    <3>1. /\ scopes'[s] = Append(scopes[s], "credentials")
          /\ ToSet(scopes'[s]) = ToSet(scopes[s]) \cup {"credentials"}
      BY <2>3, EnterScope, ScopeNames
    <3>2. pc'[s] = AfterCredentials(s) /\ lease'[s] = "live"
      BY <2>3, GotoPc DEF TypeOK
    <3>3. /\ Instance(s) => scopes'[s] \in Both
          /\ ~ Instance(s) => scopes'[s] = CredentialsOnly
      BY <2>1, <3>1 DEF Both, CredentialsOnly
    <3>4. scopes'[s] \in Stacks
      BY <3>3 DEF Stacks, Bases
    <3>5. AtStep(s)'
      BY <1>i, <3>2, <3>3 DEF AtStep, AfterCredentials
    <3> QED
      BY <1>n, <2>1, <3>1, <3>2, <3>4, <3>5, StepNames DEF HeldInv, In
  <2> QED
    BY <1>3, <2>2, <2>3 DEF BindCredentials
<1>4. CASE CollectGradingInput(s)
  <2>1. pc[s] = "collect" /\ UNCHANGED <<scopes, lease, box>> /\ Instance(s) /\ scopes[s] \in Both
    BY <1>4 DEF CollectGradingInput, HeldInv, AtStep
  <2>2. pc'[s] = "save" \/ pc'[s] = "unwind"
    BY <1>4, GotoPc, LeavePc DEF CollectGradingInput
  <2>3. CASE pc'[s] = "save"
    BY <1>i, <2>1, <2>3, GotoKeeps, StepNames DEF AtStep
  <2> QED
    BY <2>1, <2>2, <2>3, LeaveKeeps
<1>5. CASE SaveGradingInput(s)
  <2>1. /\ pc[s] = "save" /\ UNCHANGED <<scopes, lease, box>> /\ scopes[s] \in Both \cup Graded
        /\ ~ Instance(s) => In(s, "grading")
    BY <1>5 DEF SaveGradingInput, HeldInv, AtStep
  <2>2. pc'[s] = AfterSave(s) \/ pc'[s] = "unwind"
    BY <1>5, ForwardPc, LeavePc DEF SaveGradingInput
  <2>3. CASE pc'[s] = AfterSave(s)
    <3>1. CASE In(s, "grading")
      <4>1. scopes[s] \in Graded
        BY <2>1, <3>1, GradedSets DEF In
      <4> QED
        BY <2>1, <2>3, <3>1, <4>1, GotoKeeps, StepNames DEF AfterSave, AtStep
    <3>2. CASE ~ In(s, "grading")
      <4>1. scopes[s] \in Bases
        BY <2>1, <3>2, GradedSets DEF In, Bases
      <4> QED
        BY <2>1, <2>3, <3>2, <4>1, GotoKeeps, StepNames DEF AfterSave, AtStep
    <3> QED
      BY <3>1, <3>2
  <2> QED
    BY <2>1, <2>2, <2>3, LeaveKeeps
<1>6. CASE LoadGradingInput(s)
  <2>1. pc[s] = "load" /\ UNCHANGED <<scopes, lease, box>> /\ scopes[s] \in Bases
    BY <1>6 DEF LoadGradingInput, HeldInv, AtStep
  <2>2. pc'[s] = "sandbox" \/ pc'[s] = "unwind"
    BY <1>6, GotoPc, LeavePc DEF LoadGradingInput
  <2>3. CASE pc'[s] = "sandbox"
    BY <2>1, <2>3, GotoKeeps, StepNames DEF AtStep
  <2> QED
    BY <2>1, <2>2, <2>3, LeaveKeeps
<1>7. CASE ChooseSandbox(s)
  <2>1. pc[s] = "sandbox" /\ UNCHANGED lease /\ scopes[s] \in Bases
    BY <1>7 DEF ChooseSandbox, HeldInv, AtStep
  <2>b. /\ ToSet(scopes[s]) \subseteq {"provider", "credentials"} /\ lease[s] = "live"
        /\ "credentials" \in ToSet(scopes[s])
    BY <2>1, GradedSets DEF HeldInv, In
  <2>2. CASE Leave(s, "error") /\ UNCHANGED <<scopes, box>>
    BY <2>1, <2>2, LeavePc, LeaveKeeps
  <2>3. CASE Goto(s, "grade") /\ Enter(s, "grading") /\ UNCHANGED box
    <3>1. /\ scopes'[s] = Append(scopes[s], "grading")
          /\ ToSet(scopes'[s]) = ToSet(scopes[s]) \cup {"grading"} /\ pc'[s] = "grade"
      BY <2>3, EnterScope, GotoPc, ScopeNames
    <3>2. scopes'[s] \in Graded /\ scopes'[s] \in Stacks
      BY <2>1, <3>1, GradedSets
    <3>3. AtStep(s)'
      BY <3>1, <3>2 DEF AtStep
    <3>4. box'[s] # "over" /\ lease'[s] # "over"
      BY <1>n, <2>1, <2>3, StepNames
    <3> QED
      BY <2>1, <2>3, <2>b, <3>1, <3>2, <3>3, <3>4 DEF HeldInv, In
  <2>4. CASE /\ In(s, "provider") /\ Goto(s, "creating") /\ Enter(s, "creation")
             /\ box' = [box EXCEPT ![s] = "creating"]
    <3>1. /\ scopes'[s] = Append(scopes[s], "creation")
          /\ ToSet(scopes'[s]) = ToSet(scopes[s]) \cup {"creation"} /\ pc'[s] = "creating"
      BY <2>4, EnterScope, GotoPc, ScopeNames
    <3>2. scopes[s] \in Both
      BY <2>1, <2>4, GradedSets DEF In
    <3>3. scopes'[s] \in Stacks
      BY <3>1, <3>2 DEF Stacks, Created
    <3>4. AtStep(s)'
      BY <3>1, <3>2 DEF AtStep
    <3>5. box'[s] = "creating"
      BY <2>4 DEF TypeOK
    <3> QED
      BY <2>1, <2>b, <3>1, <3>3, <3>4, <3>5 DEF HeldInv, In
  <2> QED
    BY <1>7, <2>2, <2>3, <2>4 DEF ChooseSandbox
<1>8. CASE CreateSandbox(s)
  <2>1. /\ pc[s] = "creating" /\ UNCHANGED lease /\ Outer(s) \in Both
        /\ scopes[s] = Append(Outer(s), "creation")
    BY <1>8, CreatingScopes DEF CreateSandbox
  <2>2. /\ Outer(s) \in Seq(Scopes) /\ ToSet(Outer(s)) = {"provider", "credentials"}
        /\ ToSet(scopes[s]) = ToSet(Outer(s)) \cup {"creation"}
        /\ Append(Outer(s), "sandbox") \in Seq(Scopes)
        /\ ToSet(Append(Outer(s), "sandbox")) = ToSet(Outer(s)) \cup {"sandbox"}
    BY <2>1, BaseStacks, Entered, ScopeNames
  <2>3. lease[s] = "live"
    BY <2>2 DEF HeldInv, In
  <2>4. CASE /\ box' = [box EXCEPT ![s] = "live"] /\ Goto(s, "grade")
             /\ scopes' = [scopes EXCEPT ![s] = Outer(s) \o <<"sandbox", "grading">>]
    <3>1. scopes'[s] = Append(Append(Outer(s), "sandbox"), "grading")
      BY <2>1, <2>4, CreatedScopes DEF TypeOK
    <3>2. ToSet(scopes'[s]) = {"provider", "credentials", "sandbox", "grading"}
      <4> DEFINE b == Append(Outer(s), "sandbox")
      <4>1. b \in Seq(Scopes) /\ ToSet(b) = {"provider", "credentials", "sandbox"}
        BY <2>2
      <4>2. scopes'[s] = Append(b, "grading")
        BY <3>1
      <4> HIDE DEF b
      <4>3. ToSet(scopes'[s]) = ToSet(b) \cup {"grading"}
        BY <4>1, <4>2, Entered, ScopeNames
      <4> QED
        BY <4>1, <4>3
    <3>3. scopes'[s] \in Graded /\ scopes'[s] \in Stacks
      BY <2>1, <3>1 DEF Graded, Stacks
    <3>4. pc'[s] = "grade" /\ box'[s] = "live"
      BY <2>4, GotoPc DEF TypeOK
    <3>5. AtStep(s)'
      BY <3>3, <3>4 DEF AtStep
    <3> QED
      BY <2>1, <2>3, <3>2, <3>3, <3>4, <3>5 DEF HeldInv, In
  <2>5. CASE /\ box' = [box EXCEPT ![s] = "live"] /\ Leave(s, "error")
             /\ scopes' = [scopes EXCEPT ![s] = Append(Outer(s), "sandbox")]
    <3>1. scopes'[s] = Append(Outer(s), "sandbox") /\ box'[s] = "live" /\ pc'[s] = "unwind"
      BY <2>5, LeavePc DEF TypeOK
    <3>2. scopes'[s] \in Stacks
      BY <2>1, <3>1 DEF Stacks, Created
    <3> QED
      BY <2>1, <2>2, <2>3, <3>1, <3>2, StepNames DEF HeldInv, In, AtStep
  <2>6. CASE /\ box' = [box EXCEPT ![s] = "none"] /\ Leave(s, "error")
             /\ scopes' = [scopes EXCEPT ![s] = Outer(s)]
    <3>1. scopes'[s] = Outer(s) /\ box'[s] = "none" /\ pc'[s] = "unwind"
      BY <2>6, LeavePc DEF TypeOK
    <3>2. scopes'[s] \in Stacks
      BY <2>1, <3>1 DEF Stacks, Bases
    <3> QED
      BY <2>1, <2>2, <2>3, <3>1, <3>2, StepNames DEF HeldInv, In, AtStep
  <2> QED
    BY <1>8, <2>4, <2>5, <2>6 DEF CreateSandbox
<1>9. CASE YieldGradingInput(s)
  <2>1. pc[s] = "grade" /\ UNCHANGED <<scopes, lease, box>> /\ scopes[s] \in Graded
    BY <1>9 DEF YieldGradingInput, HeldInv, AtStep
  <2>2. pc'[s] = "save" /\ In(s, "grading")'
    BY <1>9, <2>1, GotoPc, GradedSets DEF YieldGradingInput, In
  <2>3. AtStep(s)'
    BY <2>1, <2>2 DEF AtStep
  <2> QED
    BY <2>1, <2>3, GotoKeeps, StepNames
<1>10. CASE YieldResult(s) \/ YieldError(s)
  <2>1. pc[s] = "grade" /\ UNCHANGED <<scopes, lease, box>> /\ scopes[s] \in Graded
    BY <1>10 DEF YieldResult, YieldError, HeldInv, AtStep
  <2>2. pc'[s] = "grade" \/ pc'[s] = "unwind"
    BY <1>10, ForwardPc DEF YieldResult, YieldError
  <2>3. CASE pc'[s] = "grade"
    BY <2>1, <2>3, GotoKeeps, StepNames DEF AtStep
  <2> QED
    BY <2>1, <2>2, <2>3, LeaveKeeps
<1>11. CASE EndGrading(s) \/ Cancel(s)
  BY <1>11, LeavePc, LeaveKeeps DEF EndGrading, Cancel
<1>12. CASE LeaveScope(s)
  <2> DEFINE e == Last(scopes[s])
  <2>1. /\ pc[s] = "unwind" /\ pc'[s] = "unwind" /\ scopes[s] \in Stacks /\ scopes[s] # <<>>
        /\ scopes'[s] = Outer(s)
    BY <1>12 DEF LeaveScope, HeldInv, TypeOK
  <2>2. /\ scopes'[s] \in Stacks /\ e \in Scopes /\ e \notin ToSet(scopes'[s])
        /\ ToSet(scopes[s]) = ToSet(scopes'[s]) \cup {e}
        /\ e \in {"creation", "sandbox"} => "grading" \notin ToSet(scopes'[s])
    BY <2>1, StackFacts DEF Outer
  <2>3. /\ lease'[s] = IF e = "credentials" THEN "over" ELSE lease[s]
        /\ box'[s] = IF e \in {"creation", "sandbox"} THEN "over" ELSE box[s]
    BY <1>12 DEF LeaveScope, TypeOK
  <2>4. \A x \in Scopes : x # e => (x \in ToSet(scopes'[s]) <=> x \in ToSet(scopes[s]))
    BY <2>2
  <2> HIDE DEF e
  <2>5. In(s, "credentials")' <=> lease'[s] = "live"
    BY <2>2, <2>3, <2>4, ScopeNames DEF HeldInv, In
  <2>6. In(s, "creation")' => box'[s] = "creating"
    <3> SUFFICES ASSUME "creation" \in ToSet(scopes'[s]) PROVE box'[s] = "creating"
      BY DEF In
    <3>1. box[s] = "creating" /\ "creation" \in ToSet(scopes[s])
      BY <2>2, <2>4, ScopeNames DEF HeldInv, In
    <3>2. "sandbox" \notin ToSet(scopes[s])
      BY <3>1 DEF HeldInv, In
    <3>3. e \notin {"creation", "sandbox"}
      BY <2>2, <3>2
    <3> QED
      BY <2>3, <3>1, <3>3
  <2>7. box'[s] = "creating" => In(s, "creation")'
    BY <2>2, <2>3, <2>4, ScopeNames DEF HeldInv, In
  <2>8. In(s, "sandbox")' => box'[s] = "live"
    <3> SUFFICES ASSUME "sandbox" \in ToSet(scopes'[s]) PROVE box'[s] = "live"
      BY DEF In
    <3>1. box[s] = "live" /\ "sandbox" \in ToSet(scopes[s])
      BY <2>2, <2>4, ScopeNames DEF HeldInv, In
    <3>2. "creation" \notin ToSet(scopes[s])
      BY <3>1 DEF HeldInv, In
    <3>3. e \notin {"creation", "sandbox"}
      BY <2>2, <3>2
    <3> QED
      BY <2>3, <3>1, <3>3
  <2>9. box'[s] = "live" => In(s, "sandbox")'
    BY <2>2, <2>3, <2>4, ScopeNames DEF HeldInv, In
  <2>10. In(s, "grading")' => box'[s] # "over"
    BY <2>2, <2>3, <2>4, ScopeNames DEF HeldInv, In
  <2>11. AtStep(s)'
    BY <2>1 DEF AtStep
  <2> QED
    BY <2>1, <2>2, <2>5, <2>6, <2>7, <2>8, <2>9, <2>10, <2>11, StepNames DEF HeldInv
<1>13. CASE CloseSession(s)
  <2>1. /\ pc'[s] = "closed" /\ scopes[s] = <<>> /\ scopes'[s] = <<>>
        /\ lease'[s] = IF lease[s] = "live" THEN "live" ELSE "none"
        /\ box'[s] = IF box[s] \in {"creating", "live"} THEN box[s] ELSE "none"
    BY <1>13 DEF CloseSession, TypeOK
  <2>2. lease[s] # "live" /\ box[s] \notin {"creating", "live"}
    BY <2>1, EmptyStack DEF HeldInv, In
  <2> QED
    BY <2>1, <2>2, EmptyStack DEF HeldInv, AtStep, In, Stacks
<1> QED
  BY <1>1, <1>2, <1>3, <1>4, <1>5, <1>6, <1>7, <1>8, <1>9, <1>10, <1>11, <1>12, <1>13
     DEF Serve, Teardown
-----------------------------------------------------------------------------
(* What is under way to the client *)

\* Chunks that carry neither a checkpoint nor a result.
Quiet(t) == \A i \in 1 .. Len(t) : t[i].type \notin {"checkpoint", "result"}

LEMMA Extended ==
  ASSUME NEW w \in Seq(Chunks), NEW t \in Seq(Chunks)
  PROVE  /\ w \o t \in Seq(Chunks) /\ Len(w \o t) = Len(w) + Len(t)
         /\ Len(w) \in Nat /\ Len(t) \in Nat
         /\ \A i \in 1 .. Len(w) : (w \o t)[i] = w[i]
         /\ \A i \in 1 .. Len(w \o t) :
              i \in 1 .. Len(w) \/ (i - Len(w) \in 1 .. Len(t) /\ (w \o t)[i] = t[i - Len(w)])
  OBVIOUS

\* What the chunks say keeps its ground when others follow.
LEMMA BackedExtended ==
  ASSUME NEW w \in Seq(Chunks), NEW t \in Seq(Chunks), NEW h, NEW c,
         NEW i \in 1 .. Len(w) + 1, NEW k \in Int, i <= k, Backed(w, h, c, i)
  PROVE  Backed(w \o t, h, c, k)
<1>1. Len(w) \in Nat
  OBVIOUS
<1>2. CASE c \in h
  BY <1>2 DEF Backed
<1>3. CASE \E j \in 1 .. i - 1 : w[j] = [type |-> "checkpoint", data |-> c]
  <2>1. PICK j \in 1 .. i - 1 : w[j] = [type |-> "checkpoint", data |-> c]
    BY <1>3
  <2>2. j \in 1 .. Len(w) /\ j \in 1 .. k - 1
    BY <1>1
  <2>3. (w \o t)[j] = w[j]
    BY <2>2, Extended
  <2> QED
    BY <2>1, <2>2, <2>3 DEF Backed
<1> QED
  BY <1>2, <1>3 DEF Backed

LEMMA FirstExtended ==
  ASSUME NEW w \in Seq(Chunks), NEW t \in Seq(Chunks), NEW f, FirstIs(w, f)
  PROVE  FirstIs(w \o t, f)
<1>1. PICK i \in 1 .. Len(w) : /\ w[i] = [type |-> "result", data |-> f]
                               /\ \A j \in 1 .. i - 1 : w[j].type # "result"
  BY DEF FirstIs
<1>2. /\ i \in 1 .. Len(w \o t) /\ (w \o t)[i] = w[i]
      /\ \A j \in 1 .. i - 1 : j \in 1 .. Len(w)
  BY Extended
<1>3. \A j \in 1 .. i - 1 : (w \o t)[j] = w[j]
  BY <1>2, Extended
<1> QED
  BY <1>1, <1>2, <1>3 DEF FirstIs

LEMMA CheckpointsExtended ==
  ASSUME NEW w \in Seq(Chunks), NEW t \in Seq(Chunks), NEW h,
         CheckpointsIn(w, h), CheckpointsIn(t, h)
  PROVE  CheckpointsIn(w \o t, h)
<1> SUFFICES ASSUME NEW i \in 1 .. Len(w \o t), (w \o t)[i].type = "checkpoint"
             PROVE  (w \o t)[i].data \in h
  BY DEF CheckpointsIn
<1>1. CASE i \in 1 .. Len(w)
  BY <1>1, Extended DEF CheckpointsIn
<1>2. CASE i - Len(w) \in 1 .. Len(t) /\ (w \o t)[i] = t[i - Len(w)]
  BY <1>2 DEF CheckpointsIn
<1> QED
  BY <1>1, <1>2, Extended

LEMMA ResultsExtended ==
  ASSUME NEW w \in Seq(Chunks), NEW t \in Seq(Chunks), NEW h, ResultsBacked(w, h),
         \A k \in 1 .. Len(t) : t[k].type = "result" => Backed(w, h, t[k].data.graded, Len(w) + 1)
  PROVE  ResultsBacked(w \o t, h)
<1> SUFFICES ASSUME NEW i \in 1 .. Len(w \o t), (w \o t)[i].type = "result"
             PROVE  Backed(w \o t, h, (w \o t)[i].data.graded, i)
  BY DEF ResultsBacked
<1>0. Len(w) \in Nat /\ Len(w \o t) \in Nat
  BY Extended
<1>1. CASE i \in 1 .. Len(w)
  <2>1. (w \o t)[i] = w[i]
    BY <1>1, Extended
  <2>2. Backed(w, h, (w \o t)[i].data.graded, i)
    BY <1>1, <2>1 DEF ResultsBacked
  <2>3. i \in 1 .. Len(w) + 1 /\ i \in Int /\ i <= i
    BY <1>0, <1>1
  <2> QED
    BY <2>2, <2>3, BackedExtended
<1>2. CASE i - Len(w) \in 1 .. Len(t) /\ (w \o t)[i] = t[i - Len(w)]
  <2>1. Backed(w, h, (w \o t)[i].data.graded, Len(w) + 1)
    BY <1>2
  <2>2. Len(w) + 1 \in 1 .. Len(w) + 1 /\ i \in Int /\ Len(w) + 1 <= i
    BY <1>0, <1>2
  <2> QED
    BY <2>1, <2>2, BackedExtended
<1> QED
  BY <1>1, <1>2, Extended

LEMMA NoResultExtended ==
  ASSUME NEW w \in Seq(Chunks), NEW t \in Seq(Chunks), NoResult(w), NoResult(t)
  PROVE  NoResult(w \o t)
<1> SUFFICES ASSUME NEW i \in 1 .. Len(w \o t) PROVE (w \o t)[i].type # "result"
  BY DEF NoResult
<1>1. CASE i \in 1 .. Len(w)
  BY <1>1, Extended DEF NoResult
<1>2. CASE i - Len(w) \in 1 .. Len(t) /\ (w \o t)[i] = t[i - Len(w)]
  BY <1>2 DEF NoResult
<1> QED
  BY <1>1, <1>2, Extended

\* The first result sent.
LEMMA FirstSent ==
  ASSUME NEW w \in Seq(Chunks), NEW f, [type |-> "result", data |-> f] \in Chunks, NoResult(w)
  PROVE  FirstIs(w \o <<[type |-> "result", data |-> f]>>, f)
<1> DEFINE t == <<[type |-> "result", data |-> f]>>
<1>1. t \in Seq(Chunks) /\ Len(t) = 1 /\ t[1] = [type |-> "result", data |-> f]
  OBVIOUS
<1> HIDE DEF t
<1>0. Len(w \o t) = Len(w) + Len(t) /\ \A j \in 1 .. Len(w) : (w \o t)[j] = w[j]
  BY <1>1, Extended
<1>2. /\ Len(w) \in Nat /\ Len(w \o t) = Len(w) + 1
      /\ \A j \in 1 .. Len(w) : (w \o t)[j] = w[j]
  BY <1>0, <1>1
<1>3. (w \o t)[Len(w) + 1] = [type |-> "result", data |-> f]
  BY <1>1, <1>2
<1>4. \A j \in 1 .. (Len(w) + 1) - 1 : (w \o t)[j].type # "result"
  BY <1>2 DEF NoResult
<1>5. FirstIs(w \o t, f)
  BY <1>2, <1>3, <1>4 DEF FirstIs
<1> QED
  BY <1>5 DEF t

LEMMA TailFacts ==
  ASSUME NEW w \in Seq(Chunks), w # <<>>
  PROVE  /\ Tail(w) \in Seq(Chunks) /\ Len(w) \in Nat /\ Len(w) >= 1 /\ Len(Tail(w)) = Len(w) - 1
         /\ \A i \in 1 .. Len(Tail(w)) : Tail(w)[i] = w[i + 1] /\ i + 1 \in 1 .. Len(w)
         /\ Head(w) = w[1]
  OBVIOUS

\* What the caller holds after it has read chunk c.
Read(h, c) == h \cup IF c.type = "checkpoint" THEN {c.data} ELSE {}

LEMMA BackedRead ==
  ASSUME NEW w \in Seq(Chunks), w # <<>>, NEW h, NEW c, NEW i \in 1 .. Len(w),
         Backed(w, h, c, i + 1)
  PROVE  Backed(Tail(w), Read(h, Head(w)), c, i)
<1>1. CASE c \in h
  BY <1>1 DEF Backed, Read
<1>2. CASE \E j \in 1 .. (i + 1) - 1 : w[j] = [type |-> "checkpoint", data |-> c]
  <2>1. PICK j \in 1 .. (i + 1) - 1 : w[j] = [type |-> "checkpoint", data |-> c]
    BY <1>2
  <2>2. CASE j = 1
    BY <2>1, <2>2, TailFacts DEF Backed, Read
  <2>3. CASE j # 1
    <3>1. j - 1 \in 1 .. Len(Tail(w)) /\ j - 1 \in 1 .. i - 1
      BY <2>3, TailFacts
    <3>2. Tail(w)[j - 1] = w[(j - 1) + 1] /\ (j - 1) + 1 = j
      BY <3>1, TailFacts
    <3>3. Tail(w)[j - 1] = [type |-> "checkpoint", data |-> c]
      BY <2>1, <3>2
    <3> QED
      BY <3>1, <3>3 DEF Backed
  <2> QED
    BY <2>2, <2>3
<1> QED
  BY <1>1, <1>2 DEF Backed

LEMMA ResultsRead ==
  ASSUME NEW w \in Seq(Chunks), w # <<>>, NEW h, ResultsBacked(w, h)
  PROVE  ResultsBacked(Tail(w), Read(h, Head(w)))
<1> SUFFICES ASSUME NEW i \in 1 .. Len(Tail(w)), Tail(w)[i].type = "result"
             PROVE  Backed(Tail(w), Read(h, Head(w)), Tail(w)[i].data.graded, i)
  BY DEF ResultsBacked
<1>1. Tail(w)[i] = w[i + 1] /\ i + 1 \in 1 .. Len(w) /\ i \in 1 .. Len(w)
  BY TailFacts
<1>2. Backed(w, h, Tail(w)[i].data.graded, i + 1)
  BY <1>1 DEF ResultsBacked
<1> QED
  BY <1>1, <1>2, BackedRead

LEMMA CheckpointsRead ==
  ASSUME NEW w \in Seq(Chunks), w # <<>>, NEW h, CheckpointsIn(w, h)
  PROVE  CheckpointsIn(Tail(w), h) /\ (Head(w).type = "checkpoint" => Head(w).data \in h)
  BY TailFacts DEF CheckpointsIn

LEMMA NoResultRead ==
  ASSUME NEW w \in Seq(Chunks), w # <<>>, NoResult(w)
  PROVE  NoResult(Tail(w)) /\ Head(w).type # "result"
  BY TailFacts DEF NoResult

LEMMA FirstRead ==
  ASSUME NEW w \in Seq(Chunks), w # <<>>, NEW f, FirstIs(w, f)
  PROVE  /\ Head(w).type # "result" => FirstIs(Tail(w), f)
         /\ Head(w).type = "result" => Head(w).data = f
<1>1. PICK i \in 1 .. Len(w) : /\ w[i] = [type |-> "result", data |-> f]
                               /\ \A j \in 1 .. i - 1 : w[j].type # "result"
  BY DEF FirstIs
<1>2. CASE i = 1
  BY <1>1, <1>2, TailFacts
<1>3. CASE i # 1
  <2>1. 1 \in 1 .. i - 1 /\ i - 1 \in 1 .. Len(Tail(w))
    BY <1>3, TailFacts
  <2>2. Head(w).type # "result"
    BY <1>1, <2>1, TailFacts
  <2>3. Tail(w)[i - 1] = w[(i - 1) + 1] /\ (i - 1) + 1 = i
    BY <2>1, TailFacts
  <2>4. \A j \in 1 .. (i - 1) - 1 : Tail(w)[j] = w[j + 1] /\ j + 1 \in 1 .. i - 1
    BY <2>1, TailFacts
  <2>5. FirstIs(Tail(w), f)
    BY <1>1, <2>1, <2>3, <2>4 DEF FirstIs
  <2> QED
    BY <2>2, <2>5
<1> QED
  BY <1>2, <1>3
-----------------------------------------------------------------------------
(* The sessions apart *)

\* Nothing of session q changes, and what is saved and stored only grows.
Same(q) ==
  /\ request'[q] = request[q] /\ grader'[q] = grader[q] /\ pc'[q] = pc[q]
  /\ scopes'[q] = scopes[q] /\ content'[q] = content[q] /\ lease'[q] = lease[q]
  /\ box'[q] = box[q] /\ first'[q] = first[q] /\ link'[q] = link[q] /\ wire'[q] = wire[q]
  /\ client'[q] = client[q] /\ acked'[q] = acked[q] /\ result'[q] = result[q]
  /\ verdict'[q] = verdict[q]

Grows == ToSet(held) \subseteq ToSet(held)' /\ store \subseteq store'

LEMMA BackedMore ==
  ASSUME NEW w, NEW h, NEW g, h \subseteq g, NEW c, NEW i, Backed(w, h, c, i)
  PROVE  Backed(w, g, c, i)
  BY DEF Backed

LEMMA Untouched ==
  ASSUME NEW q, SessionInv(q), Same(q), Grows
  PROVE  SessionInv(q)'
<1>1. Instance(q)' = Instance(q) /\ \A x : In(q, x)' = In(q, x)
  BY DEF Same, Instance, In
<1>2. Checkpoint(q)' = Checkpoint(q) /\ Acknowledged(q)' = Acknowledged(q)
  BY DEF Same, Checkpoint, Acknowledged
<1>3. HeldInv(q)'
  <2>1. AtStep(q)'
    BY <1>1 DEF SessionInv, HeldInv, AtStep, Same
  <2> QED
    BY <1>1, <2>1 DEF SessionInv, HeldInv, Same
<1>4. FlowInv(q)'
  BY <1>2 DEF SessionInv, FlowInv, Same, Grows
<1>5. Earned(q)'
  BY DEF SessionInv, Earned, Same, Grows
<1>6. SavedInv(q)'
  BY <1>2 DEF SessionInv, SavedInv, Same, Grows
<1>7. WireInv(q)'
  <2>1. CheckpointsIn(wire[q], store')
    BY DEF SessionInv, WireInv, CheckpointsIn, Grows
  <2>2. ResultsBacked(wire[q], ToSet(held)')
    BY BackedMore DEF SessionInv, WireInv, ResultsBacked, Grows
  <2>3. link[q] = "up" /\ pc[q] \in Saved =>
          Backed(wire[q], ToSet(held)', Checkpoint(q), Len(wire[q]) + 1)
    BY BackedMore DEF SessionInv, WireInv, Grows
  <2> QED
    BY <1>2, <2>1, <2>2, <2>3 DEF SessionInv, WireInv, Same
<1> QED
  BY <1>3, <1>4, <1>5, <1>6, <1>7 DEF SessionInv

LEMMA LeaveElsewhere ==
  ASSUME TypeOK, NEW s \in Sessions, NEW q \in Sessions, q # s
  PROVE  /\ \A at : Goto(s, at) => pc'[q] = pc[q]
         /\ \A r : Leave(s, r) => pc'[q] = pc[q]
         /\ \A e : Enter(s, e) => scopes'[q] = scopes[q]
         /\ \A t : Send(s, t) => wire'[q] = wire[q]
         /\ \A c, at : Forward(s, c, at) => pc'[q] = pc[q] /\ wire'[q] = wire[q]
         /\ \A t : Refuse(s, t) => pc'[q] = pc[q] /\ wire'[q] = wire[q]
         /\ Forget(s) => content'[q] = content[q]
<1>1. \A at : Goto(s, at) => pc'[q] = pc[q]
  BY DEF TypeOK, Goto
<1>2. \A r : Leave(s, r) => pc'[q] = pc[q]
  BY DEF TypeOK, Leave
<1>3. \A e : Enter(s, e) => scopes'[q] = scopes[q]
  BY DEF TypeOK, Enter
<1>4. \A t : Send(s, t) => wire'[q] = wire[q]
  BY DEF TypeOK, Send
<1>5. \A c, at : Forward(s, c, at) => pc'[q] = pc[q] /\ wire'[q] = wire[q]
  BY <1>1, <1>2, <1>4 DEF Forward
<1>6. \A t : Refuse(s, t) => pc'[q] = pc[q] /\ wire'[q] = wire[q]
  BY <1>2, <1>4 DEF Refuse
<1>7. Forget(s) => content'[q] = content[q]
  BY DEF TypeOK, Forget
<1> QED
  BY <1>1, <1>2, <1>3, <1>4, <1>5, <1>6, <1>7

\* A handler's step touches no other session and nothing of its client but the
\* first result.
LEMMA HandlerElsewhere ==
  ASSUME TypeOK, NEW s \in Sessions, NEW q \in Sessions, q # s,
         Serve(s) \/ Cancel(s) \/ Teardown(s)
  PROVE  Same(q) /\ Grows
<1> DEFINE Client == UNCHANGED <<held, request, link, client, acked, result, verdict>>
           Rest == first'[q] = first[q] /\ grader'[q] = grader[q]
<1>c. UNCHANGED clientVars /\ UNCHANGED <<link, grader>> => Client /\ Rest
  BY DEF clientVars
<1>g. Client => ToSet(held)' = ToSet(held)
  OBVIOUS
<1>1. CASE Accept(s) \/ CollectGradingInput(s) \/ YieldError(s) \/ SaveGradingInput(s)
  <2>1. UNCHANGED <<clientVars, link, grader, scopes, lease, box>> /\ store \subseteq store'
    BY <1>1 DEF Accept, CollectGradingInput, YieldError, SaveGradingInput
  <2>2. pc'[q] = pc[q] /\ wire'[q] = wire[q]
    BY <1>1, LeaveElsewhere DEF Accept, CollectGradingInput, YieldError, SaveGradingInput
  <2>3. content'[q] = content[q]
    BY <1>1 DEF TypeOK, Accept, CollectGradingInput, YieldError, SaveGradingInput
  <2> QED
    BY <1>c, <1>g, <2>1, <2>2, <2>3 DEF Same, Grows
<1>2. CASE OpenProvider(s) \/ BindCredentials(s) \/ ChooseSandbox(s) \/ CreateSandbox(s)
  <2>1. UNCHANGED <<clientVars, link, grader, store, wire, content>>
    BY <1>2 DEF OpenProvider, BindCredentials, ChooseSandbox, CreateSandbox
  <2>2. pc'[q] = pc[q]
    BY <1>2, LeaveElsewhere DEF OpenProvider, BindCredentials, ChooseSandbox, CreateSandbox
  <2>3. lease'[q] = lease[q] /\ box'[q] = box[q]
    BY <1>2 DEF TypeOK, OpenProvider, BindCredentials, ChooseSandbox, CreateSandbox
  <2>4. scopes'[q] = scopes[q]
    <3>1. CASE CreateSandbox(s)
      BY <3>1 DEF TypeOK, CreateSandbox
    <3> QED
      BY <1>2, <3>1, LeaveElsewhere DEF OpenProvider, BindCredentials, ChooseSandbox
  <2> QED
    BY <1>c, <1>g, <2>1, <2>2, <2>3, <2>4 DEF Same, Grows
<1>3. CASE LoadGradingInput(s) \/ YieldGradingInput(s) \/ EndGrading(s) \/ Cancel(s)
  <2>1. UNCHANGED <<clientVars, link, grader, wire, scopes, lease, box>> /\ store \subseteq store'
    BY <1>3 DEF LoadGradingInput, YieldGradingInput, EndGrading, Cancel
  <2>2. pc'[q] = pc[q]
    BY <1>3, LeaveElsewhere DEF LoadGradingInput, YieldGradingInput, EndGrading, Cancel
  <2>3. content'[q] = content[q]
    BY <1>3 DEF TypeOK, LoadGradingInput, YieldGradingInput, EndGrading, Cancel
  <2> QED
    BY <1>c, <1>g, <2>1, <2>2, <2>3 DEF Same, Grows
<1>4. CASE YieldResult(s)
  <2>1. /\ UNCHANGED <<held, request, client, acked, result, verdict, link, grader, scopes,
                       content, lease, box, store>>
    BY <1>4 DEF YieldResult
  <2>2. pc'[q] = pc[q] /\ wire'[q] = wire[q]
    BY <1>4, LeaveElsewhere DEF YieldResult
  <2>3. first'[q] = first[q]
    BY <1>4 DEF TypeOK, YieldResult
  <2> QED
    BY <1>g, <2>1, <2>2, <2>3 DEF Same, Grows
<1>5. CASE LeaveScope(s)
  <2>1. UNCHANGED <<clientVars, link, grader, store, wire, pc>>
    BY <1>5 DEF LeaveScope
  <2>2. lease'[q] = lease[q] /\ box'[q] = box[q] /\ scopes'[q] = scopes[q]
    BY <1>5 DEF TypeOK, LeaveScope
  <2>3. content'[q] = content[q]
    BY <1>5, LeaveElsewhere DEF LeaveScope
  <2> QED
    BY <1>c, <1>g, <2>1, <2>2, <2>3 DEF Same, Grows
<1>6. CASE CloseSession(s)
  <2>1. UNCHANGED <<clientVars, link, store, scopes>>
    BY <1>6 DEF CloseSession
  <2>2. /\ lease'[q] = lease[q] /\ box'[q] = box[q] /\ grader'[q] = grader[q]
        /\ pc'[q] = pc[q] /\ wire'[q] = wire[q]
    BY <1>6 DEF TypeOK, CloseSession
  <2>3. content'[q] = content[q]
    BY <1>6, LeaveElsewhere DEF CloseSession
  <2> QED
    BY <1>g, <2>1, <2>2, <2>3 DEF Same, Grows, clientVars
<1> QED
  BY <1>1, <1>2, <1>3, <1>4, <1>5, <1>6 DEF Serve, Teardown
-----------------------------------------------------------------------------
(* What a handler sends and saves *)

\* The handler of a session acts between its opening and its close, and leaves the
\* client alone.
LEMMA HandlerFrame ==
  ASSUME TypeOK, NEW s \in Sessions, Serve(s) \/ Cancel(s) \/ Teardown(s)
  PROVE  /\ pc[s] \in Steps \cup {"unwind"} /\ pc'[s] \in Steps \cup {"unwind", "closed"}
         /\ UNCHANGED <<held, request, link, client, acked, result, verdict>>
         /\ store \subseteq store'
         /\ YieldResult(s) \/ UNCHANGED first
<1>1. CASE Accept(s)
  BY <1>1, GotoPc, LeavePc, StepNames DEF Accept, AfterAccept, Refuse, clientVars
<1>2. CASE OpenProvider(s)
  BY <1>2, GotoPc, LeavePc, StepNames DEF OpenProvider, AfterProvider, clientVars
<1>3. CASE BindCredentials(s)
  BY <1>3, GotoPc, LeavePc, StepNames DEF BindCredentials, AfterCredentials, clientVars
<1>4. CASE CollectGradingInput(s) \/ LoadGradingInput(s) \/ ChooseSandbox(s) \/ CreateSandbox(s)
  BY <1>4, GotoPc, LeavePc, StepNames
     DEF CollectGradingInput, LoadGradingInput, ChooseSandbox, CreateSandbox, clientVars
<1>5. CASE SaveGradingInput(s)
  BY <1>5, ForwardPc, LeavePc, StepNames DEF SaveGradingInput, AfterSave, clientVars
<1>6. CASE YieldGradingInput(s) \/ YieldError(s) \/ EndGrading(s)
  BY <1>6, GotoPc, ForwardPc, LeavePc, StepNames
     DEF YieldGradingInput, YieldError, EndGrading, clientVars
<1>7. CASE YieldResult(s)
  BY <1>7, ForwardPc, StepNames DEF YieldResult
<1>8. CASE Cancel(s)
  BY <1>8, LeavePc DEF Cancel, clientVars
<1>9. CASE LeaveScope(s)
  BY <1>9 DEF LeaveScope, clientVars
<1>10. CASE CloseSession(s)
  BY <1>10 DEF TypeOK, CloseSession, clientVars
<1> QED
  BY <1>1, <1>2, <1>3, <1>4, <1>5, <1>6, <1>7, <1>8, <1>9, <1>10 DEF Serve, Teardown

\* A first result is not replaced, and none is noted when nobody listens.
LEMMA FirstStays ==
  ASSUME TypeOK, NEW s \in Sessions, Serve(s) \/ Cancel(s) \/ Teardown(s),
         first[s] # None \/ link[s] # "up"
  PROVE  first'[s] = first[s]
<1>1. CASE YieldResult(s)
  BY <1>1 DEF TypeOK, YieldResult
<1> QED
  BY <1>1, HandlerFrame

\* What is sent when the peer is gone is lost.
LEMMA NothingSent ==
  ASSUME TypeOK, NEW s \in Sessions, Serve(s) \/ Cancel(s) \/ Teardown(s), link[s] # "up"
  PROVE  wire'[s] = wire[s]
<1>1. \A t : Send(s, t) => wire' = wire
  BY DEF Send
<1>2. \A c, at : Forward(s, c, at) => wire' = wire
  BY <1>1 DEF Forward
<1>3. \A t : Refuse(s, t) => wire' = wire
  BY <1>1 DEF Refuse
<1>4. CASE Accept(s) \/ CollectGradingInput(s) \/ SaveGradingInput(s) \/ YieldResult(s) \/ YieldError(s)
  BY <1>1, <1>2, <1>3, <1>4
     DEF Accept, CollectGradingInput, SaveGradingInput, YieldResult, YieldError
<1>5. CASE \/ OpenProvider(s) \/ BindCredentials(s) \/ LoadGradingInput(s) \/ ChooseSandbox(s)
           \/ CreateSandbox(s) \/ YieldGradingInput(s) \/ EndGrading(s) \/ Cancel(s) \/ LeaveScope(s)
  BY <1>5 DEF OpenProvider, BindCredentials, LoadGradingInput, ChooseSandbox, CreateSandbox,
              YieldGradingInput, EndGrading, Cancel, LeaveScope
<1>6. CASE CloseSession(s)
  BY <1>6 DEF CloseSession
<1> QED
  BY <1>4, <1>5, <1>6 DEF Serve, Teardown

LEMMA FlowStep ==
  ASSUME TypeOK, NEW s \in Sessions, SessionInv(s), Serve(s) \/ Cancel(s) \/ Teardown(s)
  PROVE  FlowInv(s)' /\ Earned(s)'
<1>1. /\ pc[s] # "off" /\ pc'[s] # "off" /\ client[s] # "off"
      /\ UNCHANGED <<held, request, link, client, acked, result, verdict>>
  BY HandlerFrame, StepNames DEF SessionInv, FlowInv
<1>2. Acknowledged(s)' = Acknowledged(s)
  BY <1>1 DEF Acknowledged
<1>3. link[s] = "down" => wire'[s] = wire[s]
  BY NothingSent
<1>4. first[s] # None \/ link[s] # "up" => first'[s] = first[s]
  BY FirstStays
<1>5. FlowInv(s)'
  <2>1. result[s] # None => first[s] # None
    BY DEF SessionInv, FlowInv
  <2> QED
    BY <1>1, <1>2, <1>3, <1>4, <2>1 DEF SessionInv, FlowInv
<1>6. Earned(s)'
  <2>1. verdict[s] \notin {None, Failed} => link[s] # "up"
    BY DEF SessionInv, FlowInv, TypeOK
  <2> QED
    BY <1>1, <1>4, <2>1 DEF SessionInv, Earned
<1> QED
  BY <1>5, <1>6

\* A step that grades nothing and does not touch what is graded keeps SavedInv.
LEMMA SavedKept ==
  ASSUME NEW s \in Sessions, SavedInv(s), store \subseteq store', UNCHANGED request,
         first'[s] = first[s],
         pc'[s] \in Saved => Checkpoint(s)' \in store',
         request[s].kind = "response" /\ pc'[s] \in Saved \cup {"save"} =>
           Descends(Checkpoint(s)', request[s].from)
  PROVE  SavedInv(s)'
  BY DEF SavedInv

LEMMA SavedStep ==
  ASSUME TypeOK, NEW s \in Sessions, SessionInv(s), Serve(s) \/ Cancel(s) \/ Teardown(s)
  PROVE  SavedInv(s)'
<1>0. SavedInv(s) /\ store \subseteq store' /\ UNCHANGED request
  BY HandlerFrame DEF SessionInv
<1>f. YieldResult(s) \/ UNCHANGED first
  BY HandlerFrame
<1>n. \A x \in {"accept", "provider", "credentials", "collect", "load", "unwind", "closed"} :
        x \notin Saved \cup {"save"}
  BY DEF Saved
<1>1. ASSUME pc'[s] \in {"accept", "provider", "credentials", "collect", "load", "unwind", "closed"},
             UNCHANGED first
      PROVE  SavedInv(s)'
  BY <1>0, <1>1, <1>n, SavedKept
<1>2. ASSUME pc[s] \in Saved, pc'[s] \in Saved \cup {"unwind"}, UNCHANGED <<first, grader, content>>
      PROVE  SavedInv(s)'
  <2>1. Checkpoint(s)' = Checkpoint(s)
    BY <1>2 DEF Checkpoint
  <2>2. CASE pc'[s] \in Saved
    BY <1>0, <1>2, <2>1, <2>2, SavedKept DEF SavedInv
  <2> QED
    BY <1>1, <1>2, <2>2
<1>3. CASE Accept(s) \/ OpenProvider(s) \/ BindCredentials(s)
  <2>1. UNCHANGED first
    BY <1>3 DEF Accept, OpenProvider, BindCredentials, clientVars
  <2>2. \/ pc'[s] \in {"accept", "provider", "credentials", "collect", "load", "unwind", "closed"}
    BY <1>3, GotoPc, LeavePc DEF Accept, OpenProvider, BindCredentials, Refuse,
       AfterAccept, AfterProvider, AfterCredentials
  <2> QED
    BY <1>1, <2>1, <2>2
<1>4. CASE CollectGradingInput(s)
  <2>1. Instance(s) /\ UNCHANGED first
    BY <1>4 DEF CollectGradingInput, SessionInv, HeldInv, AtStep, clientVars
  <2>2. pc'[s] \in {"save", "unwind"} /\ pc'[s] \notin Saved
    BY <1>4, GotoPc, LeavePc DEF CollectGradingInput, Saved
  <2> QED
    BY <1>0, <2>1, <2>2, SavedKept DEF Instance
<1>5. CASE SaveGradingInput(s)
  <2>1. UNCHANGED <<first, grader, content>> /\ pc[s] = "save"
    BY <1>5 DEF SaveGradingInput, clientVars
  <2>2. Checkpoint(s)' = Checkpoint(s)
    BY <2>1 DEF Checkpoint
  <2>3. pc'[s] = "unwind" \/ (pc'[s] = AfterSave(s) /\ Checkpoint(s) \in store')
    BY <1>5, ForwardPc, LeavePc DEF SaveGradingInput
  <2>4. CASE pc'[s] = "unwind"
    BY <1>1, <2>1, <2>4
  <2>5. CASE pc'[s] = AfterSave(s) /\ Checkpoint(s) \in store'
    BY <1>0, <2>1, <2>2, <2>5, SavedKept DEF SavedInv, Saved
  <2> QED
    BY <2>3, <2>4, <2>5
<1>6. CASE LoadGradingInput(s)
  <2>1. UNCHANGED <<first, grader, store>>
    BY <1>6 DEF LoadGradingInput, clientVars
  <2>2. CASE Leave(s, "error")
    BY <1>1, <2>1, <2>2, LeavePc
  <2>3. CASE /\ Resolves(s) /\ content' = [content EXCEPT ![s] = request[s].from.input]
             /\ Goto(s, "sandbox")
    <3> DEFINE from == request[s].from
    <3>1. from \in Checkpoints /\ from.grader = grader[s] /\ from \in store
      BY <2>3 DEF TypeOK, Resolves
    <3>2. content'[s] = from.input /\ pc'[s] = "sandbox"
      BY <2>3, GotoPc DEF TypeOK
    <3> HIDE DEF from
    <3>3. Checkpoint(s)' = from
      BY <2>1, <3>1, <3>2 DEF Checkpoint, Checkpoints
    <3>4. Descends(from, from)
      BY <3>1, SessionAssumption DEF Descends, Checkpoints, Inputs
    <3> QED
      BY <1>0, <2>1, <3>1, <3>3, <3>4, SavedKept DEF from
  <2> QED
    BY <1>6, <2>2, <2>3 DEF LoadGradingInput
<1>7. CASE ChooseSandbox(s) \/ CreateSandbox(s) \/ YieldError(s)
  <2>1. UNCHANGED <<first, grader, content>> /\ pc[s] \in Saved
    BY <1>7 DEF ChooseSandbox, CreateSandbox, YieldError, clientVars, Saved
  <2>2. pc'[s] \in Saved \cup {"unwind"}
    BY <1>7, GotoPc, LeavePc, ForwardPc DEF ChooseSandbox, CreateSandbox, YieldError, Saved
  <2> QED
    BY <1>2, <2>1, <2>2
<1>8. CASE YieldGradingInput(s)
  <2>1. /\ UNCHANGED <<first, grader>> /\ pc[s] = "grade"
        /\ content' = [content EXCEPT ![s] = [content[s] EXCEPT !.step = content[s].step + 1]]
    BY <1>8 DEF YieldGradingInput, clientVars
  <2>2. pc'[s] = "save" /\ pc'[s] \notin Saved
    BY <1>8, GotoPc DEF YieldGradingInput, Saved
  <2>3. content[s] \in Inputs /\ content[s].step \in Nat
    BY SessionAssumption DEF TypeOK, Inputs
  <2>4. /\ content'[s].of = content[s].of /\ content'[s].step = content[s].step + 1
    BY <2>1, <2>3 DEF TypeOK, Inputs
  <2>5. request[s].kind = "response" => Descends(Checkpoint(s), request[s].from)
    BY <2>1 DEF SessionInv, SavedInv, Saved
  <2>6. request[s].kind = "response" => request[s].from.input.step \in Nat
    <3>1. request[s].kind = "response" => request[s].from \in ToSet(held)
      BY DEF SessionInv, FlowInv
    <3>2. ToSet(held) \subseteq Checkpoints
      BY DEF TypeOK, ToSet
    <3> QED
      BY <3>1, <3>2, SessionAssumption DEF Checkpoints, Inputs
  <2>7. request[s].kind = "response" => Descends(Checkpoint(s)', request[s].from)
    BY <2>1, <2>3, <2>4, <2>5, <2>6 DEF Descends, Checkpoint
  <2> QED
    BY <1>0, <2>1, <2>2, <2>7, SavedKept
<1>9. CASE YieldResult(s)
  <2>1. UNCHANGED <<grader, content, store>> /\ pc[s] = "grade"
    BY <1>9 DEF YieldResult
  <2>2. pc'[s] \in {"grade", "unwind"}
    BY <1>9, ForwardPc DEF YieldResult
  <2>3. Checkpoint(s)' = Checkpoint(s)
    BY <2>1 DEF Checkpoint
  <2>4. Checkpoint(s) \in store /\ (request[s].kind = "response" => Descends(Checkpoint(s), request[s].from))
    BY <1>0, <2>1 DEF SavedInv, Saved
  <2>5. \/ first'[s] = first[s]
        \/ first'[s] = [graded |-> Checkpoint(s), item |-> items[s]]
    BY <1>9 DEF YieldResult, TypeOK
  <2>6. first'[s] # None =>
          /\ first'[s].graded \in store
          /\ request[s].kind = "response" => Descends(first'[s].graded, request[s].from)
    <3>1. CASE first'[s] = first[s]
      BY <1>0, <3>1 DEF SavedInv
    <3>2. CASE first'[s] = [graded |-> Checkpoint(s), item |-> items[s]]
      <4>1. first'[s].graded = Checkpoint(s)
        BY <3>2
      <4> QED
        BY <2>4, <4>1
    <3> QED
      BY <2>5, <3>1, <3>2
  <2>7. pc'[s] \in Saved => Checkpoint(s)' \in store'
    BY <2>1, <2>3, <2>4
  <2>8. request'[s].kind = "response" /\ pc'[s] \in Saved \cup {"save"} =>
          Descends(Checkpoint(s)', request'[s].from)
    BY <1>0, <2>3, <2>4
  <2> QED
    BY <1>0, <2>1, <2>6, <2>7, <2>8 DEF SavedInv
<1>10. CASE EndGrading(s) \/ Cancel(s)
  BY <1>1, <1>10, LeavePc DEF EndGrading, Cancel, clientVars
<1>11. CASE LeaveScope(s)
  BY <1>1, <1>11 DEF LeaveScope, clientVars
<1>12. CASE CloseSession(s)
  BY <1>1, <1>12 DEF CloseSession, clientVars, TypeOK
<1> QED
  BY <1>3, <1>4, <1>5, <1>6, <1>7, <1>8, <1>9, <1>10, <1>11, <1>12 DEF Serve, Teardown
-----------------------------------------------------------------------------
(* What the client may be told *)

LEMMA WireKept ==
  ASSUME TypeOK, NEW s \in Sessions, SessionInv(s), NEW t \in Seq(Chunks),
         link[s] = "up" => wire'[s] = wire[s] \o t,
         link[s] # "up" => wire'[s] = wire[s],
         UNCHANGED <<held, link, result>>, store \subseteq store', first'[s] = first[s],
         CheckpointsIn(t, store'), NoResult(t),
         link[s] = "up" /\ pc'[s] \in Saved =>
           Backed(wire[s] \o t, ToSet(held), Checkpoint(s)', Len(wire[s] \o t) + 1)
  PROVE  WireInv(s)'
<1>1. wire[s] \in Seq(Chunks) /\ WireInv(s)
  BY DEF TypeOK, SessionInv
<1>2. CheckpointsIn(wire[s], store')
  BY <1>1 DEF WireInv, CheckpointsIn
<1>3. CASE link[s] # "up"
  BY <1>1, <1>2, <1>3 DEF WireInv
<1>4. CASE link[s] = "up"
  <2>1. CheckpointsIn(wire[s] \o t, store')
    BY <1>1, <1>2, CheckpointsExtended
  <2>2. ResultsBacked(wire[s] \o t, ToSet(held))
    BY <1>1, ResultsExtended DEF WireInv, NoResult
  <2>3. NoResult(wire[s]) => NoResult(wire[s] \o t)
    BY <1>1, NoResultExtended
  <2>4. \A f : FirstIs(wire[s], f) => FirstIs(wire[s] \o t, f)
    BY <1>1, FirstExtended
  <2> QED
    BY <1>1, <1>4, <2>1, <2>2, <2>3, <2>4 DEF WireInv
<1> QED
  BY <1>3, <1>4

\* A step that says nothing of a checkpoint or a result, and saves nothing.
LEMMA WireQuiet ==
  ASSUME TypeOK, NEW s \in Sessions, SessionInv(s), NEW t \in Seq(Chunks), Quiet(t),
         link[s] = "up" => wire'[s] = wire[s] \o t,
         link[s] # "up" => wire'[s] = wire[s],
         UNCHANGED <<held, link, result>>, store \subseteq store', first'[s] = first[s],
         pc'[s] \in Saved => pc[s] \in Saved /\ UNCHANGED <<grader, content>>
  PROVE  WireInv(s)'
<1>1. wire[s] \in Seq(Chunks) /\ Len(wire[s]) \in Nat
  BY DEF TypeOK
<1>2. CheckpointsIn(t, store') /\ NoResult(t)
  BY DEF Quiet, CheckpointsIn, NoResult
<1>3. ASSUME link[s] = "up", pc'[s] \in Saved
      PROVE  Backed(wire[s] \o t, ToSet(held), Checkpoint(s)', Len(wire[s] \o t) + 1)
  <2>1. Checkpoint(s)' = Checkpoint(s)
    BY <1>3 DEF Checkpoint
  <2>2. Backed(wire[s], ToSet(held), Checkpoint(s), Len(wire[s]) + 1)
    BY <1>3 DEF SessionInv, WireInv
  <2>3. /\ Len(wire[s]) + 1 \in 1 .. Len(wire[s]) + 1 /\ Len(wire[s] \o t) + 1 \in Int
        /\ Len(wire[s]) + 1 <= Len(wire[s] \o t) + 1
    BY <1>1, Extended
  <2> QED
    BY <1>1, <2>1, <2>2, <2>3, BackedExtended
<1> QED
  BY <1>2, <1>3, WireKept

LEMMA WireUnsent ==
  ASSUME TypeOK, NEW s \in Sessions, SessionInv(s), wire'[s] = wire[s],
         UNCHANGED <<held, link, result>>, store \subseteq store', first'[s] = first[s],
         pc'[s] \in Saved => pc[s] \in Saved /\ UNCHANGED <<grader, content>>
  PROVE  WireInv(s)'
<1>1. /\ <<>> \in Seq(Chunks) /\ wire[s] \in Seq(Chunks)
      /\ Quiet(<<>>)
  BY DEF TypeOK, Quiet
<1>2. wire[s] \o <<>> = wire[s]
  BY <1>1
<1> QED
  BY <1>1, <1>2, WireQuiet

\* The chunks of which none is a checkpoint or a result.
LEMMA QuietChunks ==
  /\ <<[type |-> "ack"]>> \in Seq(Chunks) /\ Quiet(<<[type |-> "ack"]>>)
  /\ <<[type |-> "error"]>> \in Seq(Chunks) /\ Quiet(<<[type |-> "error"]>>)
  /\ Append(<<>>, [type |-> "abort"]) \in Seq(Chunks) /\ Quiet(Append(<<>>, [type |-> "abort"]))
  /\ Append(<<[type |-> "ack"]>>, [type |-> "abort"]) \in Seq(Chunks)
  /\ Quiet(Append(<<[type |-> "ack"]>>, [type |-> "abort"]))
  /\ <<[type |-> "close"]>> \in Seq(Chunks) /\ Quiet(<<[type |-> "close"]>>)
  /\ <<[type |-> "error"]>> \o <<[type |-> "close"]>> \in Seq(Chunks)
  /\ Quiet(<<[type |-> "error"]>> \o <<[type |-> "close"]>>)
<1>1. /\ <<[type |-> "ack"]>> \in Seq(Chunks) /\ <<[type |-> "error"]>> \in Seq(Chunks)
      /\ <<[type |-> "close"]>> \in Seq(Chunks) /\ <<>> \in Seq(Chunks)
  BY ChunkTypes
<1>2. Append(<<>>, [type |-> "abort"]) \in Seq(Chunks)
  BY <1>1, ChunkTypes
<1>3. Append(<<[type |-> "ack"]>>, [type |-> "abort"]) \in Seq(Chunks)
  BY <1>1, ChunkTypes
<1>4. <<[type |-> "error"]>> \o <<[type |-> "close"]>> \in Seq(Chunks)
  BY <1>1
<1>5. /\ Quiet(<<[type |-> "ack"]>>) /\ Quiet(<<[type |-> "error"]>>) /\ Quiet(<<[type |-> "close"]>>)
  BY DEF Quiet
<1>6. Quiet(Append(<<>>, [type |-> "abort"]))
  BY DEF Quiet
<1>7. Quiet(Append(<<[type |-> "ack"]>>, [type |-> "abort"]))
  BY DEF Quiet
<1>8. Quiet(<<[type |-> "error"]>> \o <<[type |-> "close"]>>)
  BY DEF Quiet
<1> QED
  BY <1>1, <1>2, <1>3, <1>4, <1>5, <1>6, <1>7, <1>8

LEMMA SentTo ==
  ASSUME TypeOK, NEW s \in Sessions, NEW t \in Seq(Chunks), Send(s, t)
  PROVE  /\ link[s] = "up" => wire'[s] = wire[s] \o t
         /\ link[s] # "up" => wire'[s] = wire[s]
  BY DEF TypeOK, Send
LEMMA NoneIsNoResult == \A g, i : [graded |-> g, item |-> i] # None
<1> SUFFICES ASSUME NEW g, NEW i, [graded |-> g, item |-> i] = None PROVE FALSE
  OBVIOUS
<1>1. DOMAIN [graded |-> g, item |-> i] = {"graded", "item"} /\ DOMAIN None = {"input"}
  BY DEF None
<1> QED
  BY <1>1

LEMMA WireResult ==
  ASSUME TypeOK, NEW s \in Sessions, SessionInv(s), YieldResult(s)
  PROVE  WireInv(s)'
<1> DEFINE g == [graded |-> Checkpoint(s), item |-> items[s]]
           t == <<[type |-> "result", data |-> g]>>
<1>1. /\ UNCHANGED <<held, result, link, grader, content, store>> /\ pc[s] = "grade"
      /\ first' = [first EXCEPT ![s] = IF first[s] = None /\ link[s] = "up" THEN g ELSE first[s]]
      /\ Forward(s, [type |-> "result", data |-> g], "grade")
  BY DEF YieldResult
<1>2. CASE link[s] # "up"
  <2>1. wire'[s] = wire[s] /\ first'[s] = first[s]
    BY <1>2, NothingSent, FirstStays DEF Serve
  <2> QED
    BY <1>1, <1>2, <2>1, WireUnsent DEF Saved
<1>3. CASE link[s] = "up"
  <2>1. g.graded = Checkpoint(s) /\ g # None /\ g \in Results
    <3>1. Checkpoint(s) \in Checkpoints
      BY CheckpointType, TypeParts
    <3>2. items[s] \in 0 .. MaxItems
      BY DEF TypeOK
    <3> QED
      BY <3>1, <3>2, NoneIsNoResult DEF Results
  <2>2. first'[s] = IF first[s] = None THEN g ELSE first[s]
    BY <1>1, <1>3 DEF TypeOK
  <2>3. Send(s, t) /\ pc'[s] = "grade"
    BY <1>1, <1>3, GotoPc DEF Forward
  <2> HIDE DEF g
  <2>4. t \in Seq(Chunks) /\ Len(t) = 1 /\ t[1] = [type |-> "result", data |-> g]
    BY <2>1, ChunkTypes
  <2>5. wire'[s] = wire[s] \o t
    BY <1>3, <2>3, <2>4, SentTo
  <2> HIDE DEF t
  <2>6. wire[s] \in Seq(Chunks) /\ Len(wire[s]) \in Nat /\ Len(wire[s] \o t) = Len(wire[s]) + 1
    <3>1. wire[s] \in Seq(Chunks)
      BY DEF TypeOK
    <3>2. Len(wire[s]) \in Nat /\ Len(wire[s] \o t) = Len(wire[s]) + Len(t)
      BY <2>4, <3>1, Extended
    <3> QED
      BY <2>4, <3>1, <3>2
  <2>7. Checkpoint(s)' = Checkpoint(s)
    BY <1>1 DEF Checkpoint
  <2>8. Backed(wire[s], ToSet(held), Checkpoint(s), Len(wire[s]) + 1) /\ WireInv(s)
    BY <1>1, <1>3 DEF SessionInv, WireInv, Saved
  <2>9. CheckpointsIn(wire'[s], store')
    <3>1. CheckpointsIn(t, store)
      BY <2>4 DEF CheckpointsIn
    <3> QED
      BY <1>1, <2>4, <2>5, <2>6, <2>8, <3>1, CheckpointsExtended DEF WireInv
  <2>10. ResultsBacked(wire'[s], ToSet(held)')
    <3>1. \A k \in 1 .. Len(t) : t[k].type = "result" =>
            Backed(wire[s], ToSet(held), t[k].data.graded, Len(wire[s]) + 1)
      BY <2>1, <2>4, <2>8
    <3> QED
      BY <1>1, <2>4, <2>5, <2>6, <2>8, <3>1, ResultsExtended DEF WireInv
  <2>11. Backed(wire'[s], ToSet(held)', Checkpoint(s)', Len(wire'[s]) + 1)
    <3>1. /\ Len(wire[s]) + 1 \in 1 .. Len(wire[s]) + 1 /\ Len(wire[s] \o t) + 1 \in Int
          /\ Len(wire[s]) + 1 <= Len(wire[s] \o t) + 1
      BY <2>6
    <3>2. Backed(wire[s] \o t, ToSet(held), Checkpoint(s), Len(wire[s] \o t) + 1)
      BY <2>4, <2>6, <2>8, <3>1, BackedExtended
    <3> QED
      BY <1>1, <2>5, <2>7, <3>2
  <2>12. CASE first[s] = None
    <3>1. FirstIs(wire[s] \o t, g)
      BY <2>4, <2>6, <2>8, <2>12, <2>1, ChunkTypes, FirstSent DEF WireInv, t
    <3> QED
      BY <2>1, <2>2, <2>5, <2>9, <2>10, <2>11, <2>12, <3>1 DEF WireInv
  <2>13. CASE first[s] # None
    <3>1. result[s] = None => FirstIs(wire[s] \o t, first[s])
      BY <1>3, <2>4, <2>6, <2>8, <2>13, FirstExtended DEF WireInv
    <3> QED
      BY <1>1, <2>2, <2>5, <2>9, <2>10, <2>11, <2>13, <3>1 DEF WireInv
  <2> QED
    BY <2>12, <2>13
<1> QED
  BY <1>2, <1>3

LEMMA WireCheckpoint ==
  ASSUME TypeOK, NEW s \in Sessions, SessionInv(s), SaveGradingInput(s)
  PROVE  WireInv(s)'
<1> DEFINE c == Checkpoint(s)
           t == <<[type |-> "checkpoint", data |-> c]>>
<1>1. /\ UNCHANGED <<held, result, link, grader, content, first>> /\ store \subseteq store'
      /\ \/ /\ store' = store \cup {c}
            /\ Forward(s, [type |-> "checkpoint", data |-> c], AfterSave(s))
         \/ Leave(s, "error") /\ UNCHANGED <<store, wire>>
  BY DEF SaveGradingInput, clientVars
<1>2. CASE pc'[s] = "unwind" /\ wire' = wire
  BY <1>1, <1>2, WireUnsent DEF Saved
<1>3. CASE store' = store \cup {c} /\ Send(s, t)
  <2>1. c \in Checkpoints /\ Checkpoint(s)' = c
    BY <1>1, CheckpointType, TypeParts DEF Checkpoint
  <2> HIDE DEF c
  <2>2. t \in Seq(Chunks) /\ Len(t) = 1 /\ t[1] = [type |-> "checkpoint", data |-> c]
    BY <2>1, ChunkTypes
  <2> HIDE DEF t
  <2>3. CheckpointsIn(t, store') /\ NoResult(t)
    BY <1>3, <2>2 DEF CheckpointsIn, NoResult
  <2>4. Backed(wire[s] \o t, ToSet(held), Checkpoint(s)', Len(wire[s] \o t) + 1)
    <3>1. wire[s] \in Seq(Chunks)
      BY DEF TypeOK
    <3>2. Len(wire[s]) \in Nat /\ Len(wire[s] \o t) = Len(wire[s]) + Len(t)
      BY <2>2, <3>1, Extended
    <3>3. (wire[s] \o t)[Len(wire[s]) + 1] = t[1]
      BY <2>2, <3>1, <3>2
    <3>4. Len(wire[s]) + 1 \in 1 .. (Len(wire[s] \o t) + 1) - 1
      BY <2>2, <3>2
    <3> QED
      BY <2>1, <2>2, <3>3, <3>4 DEF Backed
  <2> QED
    BY <1>1, <1>3, <2>2, <2>3, <2>4, SentTo, WireKept
<1> QED
  BY <1>1, <1>2, <1>3, LeavePc DEF Forward

LEMMA WireStep ==
  ASSUME TypeOK, NEW s \in Sessions, SessionInv(s), Serve(s) \/ Cancel(s) \/ Teardown(s)
  PROVE  WireInv(s)'
<1>f. UNCHANGED <<held, link, result>> /\ store \subseteq store'
  BY HandlerFrame
<1>1. CASE Accept(s)
  <2>1. pc'[s] \notin Saved /\ first'[s] = first[s]
    BY <1>1, GotoPc, LeavePc DEF Accept, AfterAccept, Refuse, Saved, clientVars
  <2>2. \/ \E t \in Seq(Chunks) : Quiet(t) /\ Send(s, t)
        \/ wire' = wire
    BY <1>1, QuietChunks DEF Accept, Refuse
  <2> QED
    BY <1>f, <2>1, <2>2, SentTo, WireQuiet, WireUnsent
<1>2. CASE OpenProvider(s) \/ BindCredentials(s)
  <2>1. pc'[s] \notin Saved /\ UNCHANGED <<first, wire>>
    BY <1>2, GotoPc, LeavePc
       DEF OpenProvider, BindCredentials, AfterProvider, AfterCredentials, Saved, clientVars
  <2> QED
    BY <1>f, <2>1, WireUnsent
<1>3. CASE CollectGradingInput(s)
  <2>1. pc'[s] \notin Saved /\ first'[s] = first[s]
    BY <1>3, GotoPc, LeavePc DEF CollectGradingInput, Saved, clientVars
  <2>2. (\E t \in Seq(Chunks) : Quiet(t) /\ Send(s, t)) \/ wire' = wire
    BY <1>3, QuietChunks DEF CollectGradingInput
  <2> QED
    BY <1>f, <2>1, <2>2, SentTo, WireQuiet, WireUnsent
<1>4. CASE LoadGradingInput(s)
  <2>1. UNCHANGED <<first, wire, grader, store>>
    BY <1>4 DEF LoadGradingInput, clientVars
  <2>2. CASE Leave(s, "error")
    BY <1>f, <2>1, <2>2, LeavePc, WireUnsent DEF Saved
  <2>3. CASE /\ Resolves(s) /\ content' = [content EXCEPT ![s] = request[s].from.input]
             /\ pc[s] = "load"
    <3> DEFINE from == request[s].from
    <3>1. from \in Checkpoints /\ from.grader = grader[s]
      BY <2>3 DEF TypeOK, Resolves
    <3>2. content'[s] = from.input
      BY <2>3 DEF TypeOK
    <3>3. from \in ToSet(held)
      <4>1. request[s].kind = "response"
        BY <2>3, StepNames DEF SessionInv, HeldInv, AtStep, FlowInv, Instance, TypeOK
      <4> QED
        BY <4>1 DEF SessionInv, FlowInv
    <3> HIDE DEF from
    <3>4. Checkpoint(s)' = from
      BY <2>1, <3>1, <3>2 DEF Checkpoint, Checkpoints
    <3>5. Backed(wire[s] \o <<>>, ToSet(held), Checkpoint(s)', Len(wire[s] \o <<>>) + 1)
      BY <3>3, <3>4 DEF Backed
    <3>6. <<>> \in Seq(Chunks) /\ wire[s] \o <<>> = wire[s]
      BY DEF TypeOK
    <3>7. CheckpointsIn(<<>>, store') /\ NoResult(<<>>)
      BY DEF CheckpointsIn, NoResult
    <3> QED
      BY <1>f, <2>1, <3>5, <3>6, <3>7, WireKept
  <2> QED
    BY <1>4, <2>2, <2>3 DEF LoadGradingInput
<1>5. CASE ChooseSandbox(s) \/ CreateSandbox(s)
  <2>1. pc[s] \in Saved /\ UNCHANGED <<first, wire, grader, content>>
    BY <1>5 DEF ChooseSandbox, CreateSandbox, Saved, clientVars
  <2> QED
    BY <1>f, <2>1, WireUnsent
<1>6. CASE YieldGradingInput(s)
  <2>1. pc'[s] \notin Saved /\ UNCHANGED <<first, wire>>
    BY <1>6, GotoPc DEF YieldGradingInput, Saved, clientVars
  <2> QED
    BY <1>f, <2>1, WireUnsent
<1>7. CASE YieldError(s)
  <2>1. pc[s] \in Saved /\ UNCHANGED <<first, grader, content>>
    BY <1>7 DEF YieldError, Saved, clientVars
  <2>2. Send(s, <<[type |-> "error"]>>) \/ wire' = wire
    BY <1>7 DEF YieldError, Forward
  <2> QED
    BY <1>f, <2>1, <2>2, QuietChunks, SentTo, WireQuiet, WireUnsent
<1>8. CASE EndGrading(s) \/ Cancel(s) \/ LeaveScope(s)
  <2>1. pc'[s] \notin Saved /\ UNCHANGED <<first, wire>>
    BY <1>8, LeavePc DEF EndGrading, Cancel, LeaveScope, Saved, clientVars
  <2> QED
    BY <1>f, <2>1, WireUnsent
<1>9. CASE CloseSession(s)
  <2>1. pc'[s] \notin Saved /\ UNCHANGED first
    BY <1>9 DEF CloseSession, Saved, clientVars, TypeOK
  <2> DEFINE said == IF why[s] = "error" THEN <<[type |-> "error"]>> ELSE <<>>
             t == said \o <<[type |-> "close"]>>
  <2>2. t \in Seq(Chunks) /\ Quiet(t)
    <3>1. CASE why[s] = "error"
      BY <3>1, QuietChunks
    <3>2. CASE why[s] # "error"
      <4>1. <<>> \o <<[type |-> "close"]>> = <<[type |-> "close"]>>
        OBVIOUS
      <4> QED
        BY <3>2, <4>1, QuietChunks
    <3> QED
      BY <3>1, <3>2
  <2>3. /\ link[s] = "up" => wire'[s] = (wire[s] \o said) \o <<[type |-> "close"]>>
        /\ link[s] # "up" => wire'[s] = wire[s]
    BY <1>9 DEF CloseSession, TypeOK
  <2>4. (wire[s] \o said) \o <<[type |-> "close"]>> = wire[s] \o t
    <3>1. /\ wire[s] \in Seq(Chunks) /\ said \in Seq(Chunks)
          /\ <<[type |-> "close"]>> \in Seq(Chunks)
      BY QuietChunks DEF TypeOK
    <3> HIDE DEF said
    <3>2. \A a, b, d \in Seq(Chunks) : (a \o b) \o d = a \o (b \o d)
      BY ConcatAssociative
    <3> QED
      BY <3>1, <3>2
  <2> HIDE DEF t, said
  <2> QED
    BY <1>f, <2>1, <2>2, <2>3, <2>4, WireQuiet
<1> QED
  BY <1>1, <1>2, <1>3, <1>4, <1>5, <1>6, <1>7, <1>8, <1>9, WireResult, WireCheckpoint
     DEF Serve, Teardown
-----------------------------------------------------------------------------
(* The client *)

LEMMA EmptyWire ==
  ASSUME NEW h
  PROVE  CheckpointsIn(<<>>, h) /\ ResultsBacked(<<>>, h) /\ NoResult(<<>>)
  BY DEF CheckpointsIn, ResultsBacked, NoResult

\* What a handler holds is not the client's.
LEMMA HeldElsewhere ==
  ASSUME NEW s, HeldInv(s), UNCHANGED <<serverVars, request>>
  PROVE  HeldInv(s)'
  BY DEF HeldInv, AtStep, Instance, In, serverVars

LEMMA FinishStep ==
  ASSUME TypeOK, NEW s \in Sessions, SessionInv(s), client[s] = "open",
         NEW o, o = Failed \/ (o = result[s] /\ result[s] # None), Finish(s, o),
         UNCHANGED <<store, serverVars, held, request>>
  PROVE  SessionInv(s)'
<1>1. /\ client'[s] = "done" /\ verdict'[s] = o /\ link'[s] = "down" /\ wire'[s] = <<>>
      /\ result'[s] = None /\ acked'[s] = (acked[s] /\ o # Failed)
      /\ first'[s] = IF o = Failed THEN None ELSE first[s]
  BY DEF Finish, TypeOK
<1>2. UNCHANGED <<pc, content, grader>>
  BY DEF serverVars
<1>3. HeldInv(s)'
  BY HeldElsewhere DEF SessionInv
<1>4. FlowInv(s)'
  BY <1>1, <1>2 DEF SessionInv, FlowInv
<1>5. Earned(s)'
  <2>1. CASE o = Failed
    BY <1>1, <2>1 DEF Earned
  <2>2. CASE o # Failed
    <3>1. o = result[s] /\ result[s] # None /\ FlowInv(s)
      BY <2>2 DEF SessionInv
    <3>2. result[s] = first[s] /\ Acknowledged(s) /\ result[s].graded \in ToSet(held)
      BY <3>1 DEF FlowInv
    <3> QED
      BY <1>1, <2>2, <3>1, <3>2 DEF Earned, Acknowledged, TypeOK
  <2> QED
    BY <2>1, <2>2
<1>6. SavedInv(s)'
  <2>1. Checkpoint(s)' = Checkpoint(s)
    BY <1>2 DEF Checkpoint
  <2> QED
    BY <1>1, <1>2, <2>1 DEF SessionInv, SavedInv
<1>7. WireInv(s)'
  BY <1>1, EmptyWire DEF WireInv
<1> QED
  BY <1>3, <1>4, <1>5, <1>6, <1>7 DEF SessionInv

LEMMA ConsumeStep ==
  ASSUME TypeOK, NEW s \in Sessions, SessionInv(s), client[s] = "open", wire[s] # <<>>,
         Consume(s), Goes, UNCHANGED <<store, serverVars, request>>,
         ToSet(held)' = Read(ToSet(held), Head(wire[s])),
         acked[s] => acked'[s],
         result'[s] = IF Head(wire[s]).type = "result" /\ result[s] = None
                      THEN Head(wire[s]).data ELSE result[s],
         Head(wire[s]).type = "result" => Acknowledged(s)
  PROVE  SessionInv(s)'
<1> DEFINE w == wire[s]
           c == Head(w)
<1>1. /\ w \in Seq(Chunks) /\ w # <<>> /\ wire'[s] = Tail(w) /\ link[s] = "up"
      /\ UNCHANGED <<client, verdict, link, first, pc, content, grader>>
  BY DEF TypeOK, Consume, Goes, serverVars, SessionInv, FlowInv
<1>2. ToSet(held) \subseteq ToSet(held)' /\ WireInv(s) /\ FlowInv(s)
  BY DEF Read, SessionInv
<1>3. Checkpoint(s)' = Checkpoint(s)
  BY <1>1 DEF Checkpoint
<1> HIDE DEF w
<1>4. ASSUME c.type = "result", result[s] = None
      PROVE  first[s] # None /\ c.data = first[s] /\ c.data.graded \in ToSet(held)
  <2>1. first[s] # None
    BY <1>1, <1>2, <1>4, NoResultRead DEF WireInv, w
  <2>2. c.data = first[s]
    BY <1>1, <1>2, <1>4, <2>1, FirstRead DEF WireInv, w
  <2>3. Backed(w, ToSet(held), c.data.graded, 1)
    <3>1. 1 \in 1 .. Len(w) /\ w[1] = c
      BY <1>1, TailFacts
    <3> QED
      BY <1>2, <1>4, <3>1 DEF WireInv, ResultsBacked, w
  <2>4. c.data.graded \in ToSet(held)
    BY <2>3 DEF Backed
  <2> QED
    BY <2>1, <2>2, <2>4
<1>5. HeldInv(s)'
  BY HeldElsewhere DEF SessionInv
<1>6. result'[s] # None =>
        Acknowledged(s)' /\ result'[s] = first'[s] /\ result'[s].graded \in ToSet(held)'
  <2>1. Acknowledged(s) => Acknowledged(s)'
    BY DEF Acknowledged
  <2>2. CASE c.type = "result" /\ result[s] = None
    BY <1>1, <1>2, <1>4, <2>1, <2>2 DEF w
  <2>3. CASE ~ (c.type = "result" /\ result[s] = None)
    BY <1>1, <1>2, <2>1, <2>3 DEF FlowInv, w
  <2> QED
    BY <2>2, <2>3
<1>7. FlowInv(s)'
  BY <1>1, <1>2, <1>6 DEF FlowInv
<1>8. Earned(s)'
  BY <1>1, <1>2 DEF FlowInv, Earned
<1>9. SavedInv(s)'
  BY <1>1, <1>3 DEF SessionInv, SavedInv
<1>10. WireInv(s)'
  <2>1. CheckpointsIn(Tail(w), store)
    BY <1>1, <1>2, CheckpointsRead DEF WireInv, w
  <2>2. ResultsBacked(Tail(w), ToSet(held)')
    BY <1>1, <1>2, ResultsRead DEF WireInv, w
  <2>3. pc[s] \in Saved => Backed(Tail(w), ToSet(held)', Checkpoint(s), Len(Tail(w)) + 1)
    <3>1. Len(Tail(w)) + 1 = Len(w) /\ Len(w) \in 1 .. Len(w)
      BY <1>1, TailFacts
    <3>2. pc[s] \in Saved => Backed(w, ToSet(held), Checkpoint(s), Len(w) + 1)
      BY <1>1, <1>2 DEF WireInv, w
    <3> QED
      BY <1>1, <3>1, <3>2, BackedRead DEF w
  <2>4. first[s] = None => NoResult(Tail(w))
    BY <1>1, <1>2, NoResultRead DEF WireInv, w
  <2>5. result'[s] = None /\ first[s] # None => FirstIs(Tail(w), first[s])
    <3> SUFFICES ASSUME result'[s] = None, first[s] # None PROVE FirstIs(Tail(w), first[s])
      OBVIOUS
    <3>1. result[s] = None
      BY <1>4 DEF w
    <3>2. c.type # "result"
      BY <1>4, <3>1 DEF w
    <3>3. FirstIs(w, first[s])
      BY <1>1, <1>2, <3>1 DEF WireInv, w
    <3> QED
      BY <1>1, <3>2, <3>3, FirstRead
  <2> QED
    BY <1>1, <1>3, <2>1, <2>2, <2>3, <2>4, <2>5 DEF WireInv
<1> QED
  BY <1>5, <1>7, <1>8, <1>9, <1>10 DEF SessionInv

LEMMA OpenStep ==
  ASSUME TypeOK, NEW s \in Sessions, SessionInv(s), OpenSession(s)
  PROVE  SessionInv(s)'
<1>1. /\ client[s] = "off" /\ client'[s] = "open" /\ link'[s] = "up" /\ pc'[s] = "accept"
      /\ request'[s] = IF held = <<>> THEN [kind |-> "instance", from |-> None]
                       ELSE [kind |-> "response", from |-> Last(held)]
      /\ UNCHANGED <<deployed, store, held, scopes, why, content, lease, box, items, first,
                     wire, acked, result, verdict>>
  BY DEF OpenSession, TypeOK
<1>2. /\ pc[s] = "off" /\ first[s] = None /\ link[s] = "down" /\ wire[s] = <<>>
      /\ result[s] = None /\ verdict[s] = None
  BY <1>1 DEF SessionInv, FlowInv, TypeOK
<1>3. HeldInv(s)'
  <2>1. scopes[s] = <<>> /\ box[s] # "over" /\ lease[s] # "over"
    BY <1>2 DEF SessionInv, HeldInv, AtStep
  <2>2. AtStep(s)'
    BY <1>1, <2>1 DEF AtStep
  <2> QED
    BY <1>1, <2>1, <2>2 DEF SessionInv, HeldInv, In
<1>4. FlowInv(s)'
  <2>1. request'[s].kind # "none" /\ (request'[s].kind = "response" => request'[s].from \in ToSet(held))
    <3>1. CASE held = <<>>
      BY <1>1, <3>1
    <3>2. CASE held # <<>>
      <4>1. Last(held) \in ToSet(held)
        <5>1. held \in Seq(Checkpoints) /\ Len(held) \in DOMAIN held
          BY <3>2 DEF TypeOK
        <5> QED
          BY <5>1 DEF Last, ToSet
      <4> QED
        BY <1>1, <3>2, <4>1
    <3> QED
      BY <3>1, <3>2
  <2> QED
    BY <1>1, <1>2, <2>1 DEF FlowInv
<1>5. Earned(s)' /\ SavedInv(s)'
  BY <1>1, <1>2 DEF Earned, SavedInv, Saved
<1>6. WireInv(s)'
  BY <1>1, <1>2, EmptyWire DEF WireInv, Saved
<1> QED
  BY <1>3, <1>4, <1>5, <1>6 DEF SessionInv
LEMMA FinishElsewhere ==
  ASSUME TypeOK, NEW s \in Sessions, NEW q \in Sessions, q # s, NEW o, Finish(s, o),
         UNCHANGED <<store, serverVars, held, request>>
  PROVE  Same(q) /\ Grows
<1>1. UNCHANGED <<grader, pc, scopes, content, lease, box>>
  BY DEF serverVars
<1>2. ToSet(held)' = ToSet(held)
  OBVIOUS
<1> QED
  BY <1>1, <1>2 DEF TypeOK, Finish, Same, Grows

LEMMA ConsumeElsewhere ==
  ASSUME TypeOK, NEW s \in Sessions, NEW q \in Sessions, q # s, Consume(s), Goes,
         UNCHANGED <<store, serverVars, request>>, ToSet(held) \subseteq ToSet(held)',
         acked'[q] = acked[q], result'[q] = result[q]
  PROVE  Same(q) /\ Grows
<1>1. UNCHANGED <<grader, pc, scopes, content, lease, box>>
  BY DEF serverVars
<1> QED
  BY <1>1 DEF TypeOK, Consume, Goes, Same, Grows

\* What the client reads it stores, notes or ends with.
LEMMA ReceiveStep ==
  ASSUME TypeOK, NEW s \in Sessions, SessionInv(s), CheckpointResolves, Receive(s)
  PROVE  /\ SessionInv(s)' /\ CheckpointResolves'
         /\ \A q \in Sessions \ {s} : Same(q) /\ Grows
<1> DEFINE c == Head(wire[s])
<1>1. /\ client[s] = "open" /\ wire[s] # <<>> /\ UNCHANGED <<store, serverVars, request>>
  BY ReceiveCases
<1>2. wire[s] \in Seq(Chunks) /\ CheckpointsIn(wire[s], store)
  BY DEF TypeOK, SessionInv, WireInv
<1>3. ASSUME NEW o, o = Failed \/ (o = result[s] /\ result[s] # None), Finish(s, o), UNCHANGED held
      PROVE  /\ SessionInv(s)' /\ CheckpointResolves'
             /\ \A q \in Sessions \ {s} : Same(q) /\ Grows
  <2>1. SessionInv(s)'
    BY <1>1, <1>3, FinishStep
  <2>2. \A q \in Sessions \ {s} : Same(q) /\ Grows
    BY <1>1, <1>3, FinishElsewhere
  <2> QED
    BY <1>1, <1>3, <2>1, <2>2 DEF CheckpointResolves
<1>4. CASE /\ c.type = "ack" /\ acked' = [acked EXCEPT ![s] = TRUE]
           /\ Consume(s) /\ Goes /\ UNCHANGED <<held, result>>
  <2>1. ToSet(held)' = Read(ToSet(held), c) /\ ToSet(held)' = ToSet(held)
    BY <1>4 DEF Read
  <2>2. SessionInv(s)'
    BY <1>1, <1>4, <2>1, ConsumeStep DEF TypeOK
  <2>3. \A q \in Sessions \ {s} : Same(q) /\ Grows
    BY <1>1, <1>4, <2>1, ConsumeElsewhere DEF TypeOK
  <2> QED
    BY <1>1, <2>1, <2>2, <2>3 DEF CheckpointResolves
<1>5. CASE /\ c.type = "checkpoint" /\ held' = Append(held, c.data)
           /\ Consume(s) /\ Goes /\ UNCHANGED <<acked, result>>
  <2>1. c.data \in Checkpoints /\ c.data \in store
    <3>1. c \in Chunks
      BY <1>1, <1>2
    <3> QED
      BY <1>1, <1>2, <1>5, <3>1, ChunkData, CheckpointsRead
  <2> HIDE DEF c
  <2>2. ToSet(held)' = ToSet(held) \cup {c.data}
    <3>1. held \in Seq(Checkpoints)
      BY DEF TypeOK
    <3>2. ToSet(Append(held, c.data)) = ToSet(held) \cup {c.data}
      BY <2>1, <3>1, LastOfAppend
    <3> QED
      BY <1>5, <3>2
  <2>3. ToSet(held)' = Read(ToSet(held), c)
    BY <1>5, <2>2 DEF Read
  <2>4. SessionInv(s)'
    BY <1>1, <1>5, <2>3, ConsumeStep DEF c
  <2>5. \A q \in Sessions \ {s} : Same(q) /\ Grows
    BY <1>1, <1>5, <2>2, ConsumeElsewhere
  <2> QED
    BY <1>1, <2>1, <2>2, <2>4, <2>5 DEF CheckpointResolves
<1>6. CASE /\ c.type = "result" /\ Acknowledged(s)
           /\ result' = [result EXCEPT ![s] = IF @ = None THEN c.data ELSE @]
           /\ Consume(s) /\ Goes /\ UNCHANGED <<held, acked>>
  <2>1. ToSet(held)' = Read(ToSet(held), c) /\ ToSet(held)' = ToSet(held)
    BY <1>6 DEF Read
  <2>2. result'[s] = IF c.type = "result" /\ result[s] = None THEN c.data ELSE result[s]
    BY <1>6 DEF TypeOK
  <2>3. SessionInv(s)'
    BY <1>1, <1>6, <2>1, <2>2, ConsumeStep
  <2>4. \A q \in Sessions \ {s} : Same(q) /\ Grows
    BY <1>1, <1>6, <2>1, ConsumeElsewhere DEF TypeOK
  <2> QED
    BY <1>1, <2>1, <2>3, <2>4 DEF CheckpointResolves
<1> QED
  BY <1>3, <1>4, <1>5, <1>6, ReceiveCases

LEMMA OpenElsewhere ==
  ASSUME TypeOK, NEW s \in Sessions, OpenSession(s)
  PROVE  \A q \in Sessions \ {s} : Same(q) /\ Grows
<1>1. ToSet(held)' = ToSet(held)
  BY DEF OpenSession
<1> QED
  BY <1>1 DEF OpenSession, TypeOK, Same, Grows

-----------------------------------------------------------------------------
(* The invariant is inductive *)

LEMMA InitIInv ==
  ASSUME Init
  PROVE  IInv
<1>0. /\ 1 \in Graders /\ 0 \in 0 .. MaxItems /\ <<>> \in Seq(Checkpoints)
      /\ <<>> \in Seq(Scopes) /\ <<>> \in Seq(Chunks)
  BY SessionAssumption DEF Graders
<1>1. TypeOK
  <2>1. StoreTypes /\ StepTypes /\ WireTypes
    BY <1>0 DEF Init, StoreTypes, StepTypes, WireTypes
  <2>2. HeldTypes
    BY <1>0 DEF Init, HeldTypes, Inputs
  <2>3. ClientTypes
    BY <1>0 DEF Init, ClientTypes
  <2> QED
    BY <2>1, <2>2, <2>3, TypeParts
<1>2. CheckpointResolves
  BY DEF Init, CheckpointResolves, ToSet
<1>3. ASSUME NEW s \in Sessions PROVE SessionInv(s)
  <2>1. /\ pc[s] = "off" /\ scopes[s] = <<>> /\ lease[s] = "none" /\ box[s] = "none"
        /\ request[s] = [kind |-> "none", from |-> None] /\ client[s] = "off"
        /\ link[s] = "down" /\ wire[s] = <<>> /\ result[s] = None /\ first[s] = None
        /\ verdict[s] = None
    BY DEF Init
  <2>2. HeldInv(s)
    BY <2>1, EmptyStack DEF HeldInv, AtStep, In, Stacks
  <2>3. FlowInv(s) /\ Earned(s)
    BY <2>1 DEF FlowInv, Earned
  <2>4. SavedInv(s)
    BY <2>1 DEF SavedInv, Saved
  <2>5. WireInv(s)
    BY <2>1, EmptyWire DEF WireInv
  <2> QED
    BY <2>2, <2>3, <2>4, <2>5 DEF SessionInv
<1> QED
  BY <1>1, <1>2, <1>3 DEF IInv

LEMMA NextIInv ==
  ASSUME IInv, [Next]_vars
  PROVE  IInv'
<1>0. TypeOK /\ CheckpointResolves /\ \A q \in Sessions : SessionInv(q)
  BY DEF IInv
<1>1. ASSUME NEW s \in Sessions, TypeOK', SessionInv(s)', CheckpointResolves',
             \A q \in Sessions \ {s} : Same(q) /\ Grows
      PROVE  IInv'
  <2>1. \A q \in Sessions \ {s} : SessionInv(q)'
    BY <1>0, <1>1, Untouched
  <2> QED
    BY <1>1, <2>1 DEF IInv
<1>2. ASSUME NEW s \in Sessions, Serve(s) \/ Cancel(s) \/ Teardown(s) PROVE IInv'
  <2>1. request[s].kind # "none" \/ pc[s] = "off"
    BY <1>0 DEF SessionInv, FlowInv
  <2>2. HeldInv(s)'
    BY <1>0, <1>2, <2>1, HeldStep DEF SessionInv
  <2>3. SessionInv(s)'
    BY <1>0, <1>2, <2>2, FlowStep, SavedStep, WireStep DEF SessionInv
  <2>4. TypeOK'
    BY <1>0, <1>2, ServerTypes DEF SessionInv
  <2>5. \A q \in Sessions \ {s} : Same(q) /\ Grows
    BY <1>0, <1>2, HandlerElsewhere
  <2>6. CheckpointResolves'
    BY <1>0, <1>2, HandlerFrame DEF CheckpointResolves
  <2> QED
    BY <1>1, <2>3, <2>4, <2>5, <2>6
<1>3. ASSUME NEW s \in Sessions, OpenSession(s) PROVE IInv'
  <2>1. CheckpointResolves'
    BY <1>0, <1>3 DEF OpenSession, CheckpointResolves
  <2> QED
    BY <1>0, <1>1, <1>3, <2>1, OpenStep, OpenElsewhere, ClientStepTypes
<1>4. ASSUME NEW s \in Sessions, Receive(s) PROVE IInv'
  BY <1>0, <1>1, <1>4, ReceiveStep, ClientStepTypes
<1>5. ASSUME NEW s \in Sessions, GiveUp(s) PROVE IInv'
  <2>1. /\ client[s] = "open" /\ Finish(s, Failed)
        /\ UNCHANGED <<store, serverVars, held, request>>
    BY <1>5 DEF GiveUp
  <2>2. SessionInv(s)' /\ \A q \in Sessions \ {s} : Same(q) /\ Grows
    BY <1>0, <2>1, FinishStep, FinishElsewhere
  <2>3. CheckpointResolves'
    BY <1>0, <2>1 DEF CheckpointResolves
  <2> QED
    BY <1>0, <1>1, <1>5, <2>2, <2>3, ClientStepTypes
<1>6. ASSUME UNCHANGED <<store, serverVars, clientVars, link, wire>>, TypeOK' PROVE IInv'
  <2>1. ASSUME NEW q \in Sessions PROVE Same(q) /\ Grows
    BY <1>6 DEF serverVars, clientVars, Same, Grows
  <2>2. CheckpointResolves'
    BY <1>0, <1>6 DEF CheckpointResolves, clientVars
  <2> QED
    BY <1>0, <1>6, <2>1, <2>2, Untouched DEF IInv
<1>7. CASE Redeploy
  <2>1. UNCHANGED <<store, serverVars, clientVars, link, wire>>
    BY <1>7 DEF Redeploy
  <2>2. 1 \in Sessions
    BY SessionAssumption DEF Sessions
  <2> QED
    BY <1>0, <1>6, <1>7, <2>1, <2>2, ClientStepTypes
<1>8. CASE UNCHANGED vars
  <2>1. UNCHANGED <<store, serverVars, clientVars, link, wire>>
    BY <1>8 DEF vars
  <2>2. TypeOK'
    BY <1>0, <1>8 DEF vars, serverVars, clientVars, TypeOK
  <2> QED
    BY <1>6, <2>1, <2>2
<1> QED
  BY <1>2, <1>3, <1>4, <1>5, <1>7, <1>8 DEF Next

\* In every reachable state the invariant holds.
THEOREM SessionsHold == Spec => []IInv
<1>1. Init => IInv
  BY InitIInv
<1>2. IInv /\ [Next]_vars => IInv'
  BY NextIInv
<1> QED
  BY <1>1, <1>2, PTL DEF Spec

\* The variables of every session keep their types, the stack of context managers of a
\* handler and what is under way to its client among them.
THEOREM SessionTyped == Spec => []TypeOK
  BY SessionsHold, PTL DEF IInv

\* Every checkpoint the caller stored is in S3: EvalResumeStore.save ends before the
\* checkpoint is streamed, whatever then becomes of the session.
THEOREM StoredIsSaved == Spec => []CheckpointResolves
  BY SessionsHold, PTL DEF IInv

\* What a session grades was saved before, for its grader, and a retry stays with the
\* input and the grader of the checkpoint it resumes from.
THEOREM GradedIsSaved == Spec => []GradesWhatWasSaved
<1>1. IInv => GradesWhatWasSaved
  BY DEF IInv, SessionInv, SavedInv, Descends, GradesWhatWasSaved
<1> QED
  BY <1>1, SessionsHold, PTL

\* A grading hook's token and sandbox last as long as its generator is open, and a
\* closed session leaves nothing behind that it did not try to release.
THEOREM GradingHolds == Spec => []ResourcesOutliveGrading
<1>1. IInv => ResourcesOutliveGrading
  <2> SUFFICES ASSUME IInv, NEW s \in Sessions
               PROVE  /\ In(s, "grading") => lease[s] \in {"none", "live"} /\ box[s] \in {"none", "live"}
                      /\ box[s] \in {"creating", "live"} => In(s, "provider")
                      /\ pc[s] = "closed" => lease[s] # "live" /\ box[s] \notin {"creating", "live"}
    BY DEF ResourcesOutliveGrading
  <2>1. HeldInv(s) /\ box[s] \in {"none", "creating", "live", "over"}
    BY DEF IInv, SessionInv, TypeOK
  <2>2. scopes[s] \in Stacks
    BY <2>1 DEF HeldInv
  <2>3. In(s, "grading") => lease[s] \in {"none", "live"} /\ box[s] \in {"none", "live"}
    BY <2>1, <2>2, StackFacts DEF HeldInv, In
  <2>4. box[s] \in {"creating", "live"} => In(s, "provider")
    BY <2>1, <2>2, StackFacts DEF HeldInv, In
  <2>5. pc[s] = "closed" => lease[s] # "live" /\ box[s] \notin {"creating", "live"}
    BY <2>1, EmptyStack DEF HeldInv, AtStep, In
  <2> QED
    BY <2>3, <2>4, <2>5
<1> QED
  BY <1>1, SessionsHold, PTL

\* The client reports the first result of its session, after the acknowledgment of its
\* pin, and only while its caller holds a checkpoint of the input that was graded.
THEOREM ReportedIsEarned == Spec => []ResultIsEarned
<1>1. IInv => ResultIsEarned
  BY DEF IInv, SessionInv, Earned, ResultIsEarned
<1> QED
  BY <1>1, SessionsHold, PTL
-----------------------------------------------------------------------------
(* One evaluation *)

\* The checkpoints under way to the client, and the latest the caller has stored.
Pending(w) == {w[i].data : i \in {k \in 1 .. Len(w) : w[k].type = "checkpoint"}}
Newest == IF held = <<>> THEN {} ELSE {Last(held)}

\* The checkpoints of a wire go only forward.
InOrder(w) ==
  \A i, j \in 1 .. Len(w) :
    i < j /\ w[i].type = "checkpoint" /\ w[j].type = "checkpoint" =>
      Contract!Beyond(w[j].data, w[i].data)

\* Where a handler has no input yet.
Begun == {"accept", "provider", "credentials", "collect", "load"}

\* What session s works on is its own, and was made by a grader that was deployed.
OwnInv(s) ==
  /\ grader[s] <= deployed
  /\ client[s] = "off" => request[s].kind = "none"
  /\ request[s].kind = "instance" =>
       /\ pc[s] \in Saved \cup {"save"} => content[s].of = s
       /\ first[s] # None => first[s].graded.input.of = s
  /\ request[s].kind = "response" /\ pc[s] = "save" =>
       content[s].step > request[s].from.input.step

\* While somebody listens, what is under way goes on from what the caller has stored,
\* and what the handler works on from both.
ChainInv(s) ==
  link[s] = "up" =>
    /\ InOrder(wire[s])
    /\ \A c \in Pending(wire[s]) :
         Contract!News(c, s) /\ \A d \in Newest : Contract!Beyond(c, d)
    /\ pc[s] \in Begun =>
         /\ Pending(wire[s]) = {}
         /\ Newest = IF Instance(s) THEN {} ELSE {request[s].from}
    /\ pc[s] \in Saved =>
         \A d \in Pending(wire[s]) \cup Newest : Contract!NotBefore(Checkpoint(s), d)
    /\ pc[s] = "save" =>
         \A d \in Pending(wire[s]) \cup Newest : Contract!Beyond(Checkpoint(s), d)

\* The caller's sessions come one after another.
TurnInv(s) == client[s] # "off" => \A q \in Sessions : q < s => client[q] = "done"

ProgressInv(s) == OwnInv(s) /\ ChainInv(s) /\ TurnInv(s)

CInv == IInv /\ \A s \in Sessions : ProgressInv(s)

\* The order of checkpoints.
LEMMA ContractOrder ==
  ASSUME NEW a \in Checkpoints, NEW b \in Checkpoints
  PROVE  /\ Contract!NotBefore(a, a)
         /\ Contract!Beyond(a, b) => Contract!NotBefore(a, b)
         /\ Contract!NotBefore(a, b) <=> Descends(a, b)
         /\ a.input.step \in Nat
  BY SessionAssumption
     DEF Contract!NotBefore, Contract!Beyond, Contract!SameGrade, Descends, Checkpoints, Inputs

LEMMA PendingTypes ==
  ASSUME TypeOK, NEW s \in Sessions
  PROVE  /\ Pending(wire[s]) \subseteq Checkpoints /\ Newest \subseteq Checkpoints
         /\ wire[s] \in Seq(Chunks)
<1>1. wire[s] \in Seq(Chunks) /\ held \in Seq(Checkpoints)
  BY DEF TypeOK
<1>2. \A i \in 1 .. Len(wire[s]) : wire[s][i].type = "checkpoint" => wire[s][i].data \in Checkpoints
  BY <1>1, ChunkData
<1>3. held # <<>> => Last(held) \in Checkpoints
  BY <1>1 DEF Last
<1> QED
  BY <1>1, <1>2, <1>3 DEF Pending, Newest

LEMMA PendingMember ==
  ASSUME NEW w \in Seq(Chunks), NEW i \in 1 .. Len(w), w[i].type = "checkpoint"
  PROVE  w[i].data \in Pending(w)
  BY DEF Pending

\* Chunks that are no checkpoints change nothing of that.
Plain(t) == \A i \in 1 .. Len(t) : t[i].type # "checkpoint"

LEMMA PlainSent ==
  ASSUME NEW w \in Seq(Chunks), NEW t \in Seq(Chunks), Plain(t), InOrder(w)
  PROVE  Pending(w \o t) = Pending(w) /\ InOrder(w \o t)
<1> DEFINE x == w \o t
<1>1. /\ Len(w) \in Nat /\ Len(x) = Len(w) + Len(t) /\ Len(t) \in Nat
      /\ \A i \in 1 .. Len(w) : x[i] = w[i]
  BY Extended
<1>2. \A i \in 1 .. Len(x) : x[i].type = "checkpoint" => i \in 1 .. Len(w)
  <2> SUFFICES ASSUME NEW i \in 1 .. Len(x), x[i].type = "checkpoint", i \notin 1 .. Len(w)
               PROVE  FALSE
    OBVIOUS
  <2>1. i - Len(w) \in 1 .. Len(t) /\ x[i] = t[i - Len(w)]
    BY Extended
  <2> HIDE DEF x
  <2> QED
    BY <2>1 DEF Plain
<1> HIDE DEF x
<1>3. Pending(x) = Pending(w)
  BY <1>1, <1>2 DEF Pending
<1>4. InOrder(x)
  BY <1>1, <1>2 DEF InOrder
<1> QED
  BY <1>3, <1>4 DEF x

\* A checkpoint beyond those under way is sent after them.
LEMMA CheckpointSent ==
  ASSUME NEW w \in Seq(Chunks), NEW c \in Checkpoints, InOrder(w),
         \A d \in Pending(w) : Contract!Beyond(c, d)
  PROVE  /\ Pending(w \o <<[type |-> "checkpoint", data |-> c]>>) = Pending(w) \cup {c}
         /\ InOrder(w \o <<[type |-> "checkpoint", data |-> c]>>)
<1> DEFINE t == <<[type |-> "checkpoint", data |-> c]>>
           x == w \o t
<1>1. t \in Seq(Chunks) /\ Len(t) = 1 /\ t[1] = [type |-> "checkpoint", data |-> c]
  BY ChunkTypes
<1> HIDE DEF t
<1>2. /\ Len(w) \in Nat /\ Len(x) = Len(w) + 1
      /\ \A i \in 1 .. Len(w) : x[i] = w[i]
  BY <1>1, Extended
<1>3. x[Len(w) + 1] = [type |-> "checkpoint", data |-> c]
  BY <1>1, <1>2
<1> HIDE DEF x
<1>4. x[Len(w) + 1].type = "checkpoint" /\ x[Len(w) + 1].data = c
  BY <1>3
<1>5. \A i \in 1 .. Len(x) : i \in 1 .. Len(w) \/ i = Len(w) + 1
  BY <1>2
<1>6. Pending(x) = Pending(w) \cup {c}
  <2>1. ASSUME NEW e \in Pending(x) PROVE e \in Pending(w) \cup {c}
    <3>1. PICK i \in 1 .. Len(x) : x[i].type = "checkpoint" /\ e = x[i].data
      BY <2>1 DEF Pending
    <3> QED
      BY <1>2, <1>4, <1>5, <3>1 DEF Pending
  <2>2. ASSUME NEW e \in Pending(w) PROVE e \in Pending(x)
    <3>1. PICK i \in 1 .. Len(w) : w[i].type = "checkpoint" /\ e = w[i].data
      BY <2>2 DEF Pending
    <3>2. i \in 1 .. Len(x)
      BY <1>2
    <3> QED
      BY <1>2, <3>1, <3>2 DEF Pending
  <2>3. c \in Pending(x)
    <3>1. Len(w) + 1 \in 1 .. Len(x)
      BY <1>2
    <3> QED
      BY <1>4, <3>1 DEF Pending
  <2> QED
    BY <2>1, <2>2, <2>3
<1>7. InOrder(x)
  <2> SUFFICES ASSUME NEW i \in 1 .. Len(x), NEW j \in 1 .. Len(x), i < j,
                      x[i].type = "checkpoint", x[j].type = "checkpoint"
               PROVE  Contract!Beyond(x[j].data, x[i].data)
    BY DEF InOrder
  <2>1. i \in 1 .. Len(w)
    BY <1>2
  <2>2. CASE j \in 1 .. Len(w)
    BY <1>2, <2>1, <2>2 DEF InOrder
  <2>3. CASE j = Len(w) + 1
    <3>1. x[i].data \in Pending(w)
      BY <1>2, <2>1, PendingMember
    <3> QED
      BY <1>4, <2>3, <3>1
  <2> QED
    BY <1>5, <2>2, <2>3
<1> QED
  BY <1>6, <1>7 DEF x, t

\* The head of the wire is read.
LEMMA PendingRead ==
  ASSUME NEW w \in Seq(Chunks), w # <<>>, InOrder(w)
  PROVE  /\ Pending(Tail(w)) \subseteq Pending(w) /\ InOrder(Tail(w))
         /\ Head(w).type = "checkpoint" =>
              /\ Head(w).data \in Pending(w)
              /\ \A c \in Pending(Tail(w)) : Contract!Beyond(c, Head(w).data)
<1> DEFINE v == Tail(w)
<1>1. /\ Len(w) \in Nat /\ Len(w) >= 1 /\ Len(v) = Len(w) - 1 /\ Head(w) = w[1]
      /\ \A i \in 1 .. Len(v) : v[i] = w[i + 1] /\ i + 1 \in 1 .. Len(w)
  BY TailFacts
<1> HIDE DEF v
<1>2. ASSUME NEW c \in Pending(v)
      PROVE  \E i \in 1 .. Len(w) : 1 < i /\ w[i].type = "checkpoint" /\ c = w[i].data
  <2>1. PICK i \in 1 .. Len(v) : v[i].type = "checkpoint" /\ c = v[i].data
    BY <1>2 DEF Pending
  <2>2. 1 < i + 1
    BY <1>1
  <2> QED
    BY <1>1, <2>1, <2>2
<1>3. Pending(v) \subseteq Pending(w)
  BY <1>2 DEF Pending
<1>4. InOrder(v)
  <2> SUFFICES ASSUME NEW i \in 1 .. Len(v), NEW j \in 1 .. Len(v), i < j,
                      v[i].type = "checkpoint", v[j].type = "checkpoint"
               PROVE  Contract!Beyond(v[j].data, v[i].data)
    BY DEF InOrder
  <2>1. i + 1 < j + 1
    BY <1>1
  <2> QED
    BY <1>1, <2>1 DEF InOrder
<1>5. Head(w).type = "checkpoint" =>
        /\ Head(w).data \in Pending(w)
        /\ \A c \in Pending(v) : Contract!Beyond(c, Head(w).data)
  <2>1. 1 \in 1 .. Len(w)
    BY <1>1
  <2> QED
    BY <1>1, <1>2, <2>1 DEF InOrder, Pending
<1> QED
  BY <1>3, <1>4, <1>5 DEF v

LEMMA QuietIsPlain ==
  ASSUME NEW t, Quiet(t)
  PROVE  Plain(t)
  BY DEF Quiet, Plain

LEMMA ContractFixed ==
  ASSUME NEW s, NEW c, request'[s] = request[s]
  PROVE  Contract!News(c, s)' <=> Contract!News(c, s)
  BY DEF Contract!News, Contract!Beyond, Contract!SameGrade

\* A step that tells nothing of a checkpoint and works on with the same input, or
\* works on nothing.
LEMMA ChainKept ==
  ASSUME TypeOK, NEW s \in Sessions, ChainInv(s), NEW t \in Seq(Chunks), Plain(t),
         link[s] = "up" => wire'[s] = wire[s] \o t,
         UNCHANGED <<held, request, link>>,
         \/ pc'[s] \in {"unwind", "closed"}
         \/ pc[s] \in Begun /\ pc'[s] \in Begun
         \/ pc[s] \in Saved /\ pc'[s] \in Saved /\ Checkpoint(s)' = Checkpoint(s)
  PROVE  ChainInv(s)'
<1> SUFFICES ASSUME link[s] = "up" PROVE ChainInv(s)'
  BY DEF ChainInv
<1>1. Pending(wire'[s]) = Pending(wire[s]) /\ InOrder(wire'[s])
  BY PendingTypes, PlainSent DEF ChainInv
<1>2. Newest' = Newest /\ Instance(s)' = Instance(s)
  BY DEF Newest, Instance
<1>3. \A c : Contract!News(c, s)' <=> Contract!News(c, s)
  BY ContractFixed
<1>4. \A c \in Pending(wire[s]) : Contract!News(c, s) /\ \A d \in Newest : Contract!Beyond(c, d)
  BY DEF ChainInv
<1>5. pc'[s] \in Begun =>
        /\ Pending(wire[s]) = {}
        /\ Newest = IF Instance(s) THEN {} ELSE {request[s].from}
  BY DEF ChainInv, Begun, Saved
<1>6. pc'[s] \in Saved =>
        \A d \in Pending(wire[s]) \cup Newest : Contract!NotBefore(Checkpoint(s)', d)
  BY DEF ChainInv, Begun, Saved
<1>7. pc'[s] # "save"
  BY DEF Begun, Saved
<1> QED
  BY <1>1, <1>2, <1>3, <1>4, <1>5, <1>6, <1>7 DEF ChainInv

LEMMA ChainUnsent ==
  ASSUME TypeOK, NEW s \in Sessions, ChainInv(s), wire'[s] = wire[s],
         UNCHANGED <<held, request, link>>,
         \/ pc'[s] \in {"unwind", "closed"}
         \/ pc[s] \in Begun /\ pc'[s] \in Begun
         \/ pc[s] \in Saved /\ pc'[s] \in Saved /\ Checkpoint(s)' = Checkpoint(s)
  PROVE  ChainInv(s)'
<1>1. <<>> \in Seq(Chunks) /\ Plain(<<>>) /\ wire[s] \o <<>> = wire[s]
  BY DEF TypeOK, Plain
<1> QED
  BY <1>1, ChainKept

\* The input just collected, loaded or made of another is beyond what is under way.
LEMMA ChainAtSave ==
  ASSUME TypeOK, NEW s \in Sessions, ChainInv(s), wire'[s] = wire[s],
         UNCHANGED <<held, request, link>>, pc'[s] \in Saved \cup {"save"},
         link[s] = "up" /\ pc'[s] = "save" =>
           \A d \in Pending(wire[s]) \cup Newest : Contract!Beyond(Checkpoint(s)', d),
         link[s] = "up" /\ pc'[s] \in Saved =>
           \A d \in Pending(wire[s]) \cup Newest : Contract!NotBefore(Checkpoint(s)', d)
  PROVE  ChainInv(s)'
<1>1. Newest' = Newest /\ pc'[s] \notin Begun /\ "save" \notin Saved
  BY DEF Newest, Begun, Saved
<1>2. \A c : Contract!News(c, s)' <=> Contract!News(c, s)
  BY ContractFixed
<1> QED
  BY <1>1, <1>2 DEF ChainInv

\* A saved checkpoint is news of its session.
LEMMA SavedIsNews ==
  ASSUME TypeOK, NEW s \in Sessions, SessionInv(s), OwnInv(s), pc[s] = "save"
  PROVE  Contract!News(Checkpoint(s), s)
<1>1. request[s].kind \in {"instance", "response"}
  BY DEF TypeOK, SessionInv, FlowInv
<1>2. CASE request[s].kind = "instance"
  BY <1>2 DEF OwnInv, Checkpoint, Contract!News
<1>3. CASE request[s].kind = "response"
  <2>1. Descends(Checkpoint(s), request[s].from) /\ content[s].step > request[s].from.input.step
    BY <1>3 DEF SessionInv, SavedInv, OwnInv
  <2> QED
    BY <1>3, <2>1 DEF Descends, Checkpoint, Contract!News, Contract!Beyond, Contract!SameGrade
<1> QED
  BY <1>1, <1>2, <1>3

LEMMA ChainSave ==
  ASSUME TypeOK, NEW s \in Sessions, SessionInv(s), OwnInv(s), ChainInv(s), SaveGradingInput(s)
  PROVE  ChainInv(s)'
<1> DEFINE c == Checkpoint(s)
           t == <<[type |-> "checkpoint", data |-> c]>>
<1>1. /\ UNCHANGED <<held, request, link, grader, content>> /\ pc[s] = "save"
      /\ \/ Forward(s, [type |-> "checkpoint", data |-> c], AfterSave(s))
         \/ Leave(s, "error") /\ UNCHANGED wire
  BY DEF SaveGradingInput, clientVars
<1>2. CASE pc'[s] = "unwind" /\ wire' = wire
  BY <1>1, <1>2, ChainUnsent
<1>3. CASE Send(s, t) /\ pc'[s] = AfterSave(s)
  <2> SUFFICES ASSUME link[s] = "up" PROVE ChainInv(s)'
    BY <1>1 DEF ChainInv
  <2>1. c \in Checkpoints /\ Checkpoint(s)' = c
    BY <1>1, CheckpointType, TypeParts DEF Checkpoint
  <2>2. wire'[s] = wire[s] \o t
    <3>1. t \in Seq(Chunks)
      BY <2>1, ChunkTypes
    <3> QED
      BY <1>3, <3>1, SentTo
  <2>3. \A d \in Pending(wire[s]) \cup Newest : Contract!Beyond(c, d)
    BY <1>1 DEF ChainInv
  <2>4. Contract!News(c, s)
    BY <1>1, SavedIsNews
  <2> HIDE DEF c
  <2>5. Pending(wire'[s]) = Pending(wire[s]) \cup {c} /\ InOrder(wire'[s])
    BY <2>1, <2>2, <2>3, PendingTypes, CheckpointSent DEF ChainInv
  <2>6. Newest' = Newest /\ pc'[s] \in Saved /\ pc'[s] # "save" /\ pc'[s] \notin Begun
    BY <1>1, <1>3 DEF Newest, AfterSave, Saved, Begun
  <2>7. \A d \in Pending(wire'[s]) \cup Newest : Contract!NotBefore(c, d)
    BY <2>1, <2>3, <2>5, PendingTypes, ContractOrder
  <2>8. \A d \in Pending(wire'[s]) : Contract!News(d, s)' /\ \A e \in Newest : Contract!Beyond(d, e)
    <3>1. \A d : Contract!News(d, s)' <=> Contract!News(d, s)
      BY <1>1, ContractFixed
    <3> QED
      BY <2>3, <2>4, <2>5, <3>1 DEF ChainInv
  <2> QED
    BY <2>1, <2>5, <2>6, <2>7, <2>8 DEF ChainInv
<1> QED
  BY <1>1, <1>2, <1>3, GotoPc, LeavePc DEF Forward

\* A handler sends after what it sent, and never takes anything back.
LEMMA ChainStep ==
  ASSUME TypeOK, NEW s \in Sessions, SessionInv(s), OwnInv(s), ChainInv(s),
         Serve(s) \/ Cancel(s) \/ Teardown(s)
  PROVE  ChainInv(s)'
<1>f. UNCHANGED <<held, request, link>> /\ (pc[s] # "off" => request[s].kind # "none")
  BY HandlerFrame DEF SessionInv, FlowInv
<1>q. \A t \in Seq(Chunks) : Quiet(t) => Plain(t)
  BY QuietIsPlain
<1>1. CASE Accept(s)
  <2>1. pc[s] \in Begun /\ pc'[s] \in Begun \cup {"unwind"}
    BY <1>1, GotoPc, LeavePc DEF Accept, AfterAccept, Refuse, Begun
  <2>2. \/ \E t \in Seq(Chunks) : Quiet(t) /\ Send(s, t)
        \/ wire' = wire
    BY <1>1, QuietChunks DEF Accept, Refuse
  <2> QED
    BY <1>f, <1>q, <2>1, <2>2, SentTo, ChainKept, ChainUnsent
<1>2. CASE OpenProvider(s) \/ BindCredentials(s)
  <2>1. pc[s] \in Begun /\ pc'[s] \in Begun \cup {"unwind"} /\ wire' = wire
    BY <1>2, GotoPc, LeavePc
       DEF OpenProvider, BindCredentials, AfterProvider, AfterCredentials, Begun
  <2> QED
    BY <1>f, <2>1, ChainUnsent
<1>3. CASE CollectGradingInput(s)
  <2>1. pc[s] = "collect" /\ Instance(s)
    BY <1>3 DEF CollectGradingInput, SessionInv, HeldInv, AtStep
  <2>2. CASE Goto(s, "save") /\ wire' = wire
    <3>1. pc'[s] = "save" /\ "save" \notin Saved
      BY <2>2, GotoPc DEF Saved
    <3>2. link[s] = "up" => Pending(wire[s]) \cup Newest = {}
      BY <2>1 DEF ChainInv, Begun
    <3> QED
      BY <1>f, <2>2, <3>1, <3>2, ChainAtSave
  <2>3. CASE (Send(s, <<[type |-> "error"]>>) \/ wire' = wire) /\ pc'[s] = "unwind"
    BY <1>f, <1>q, <2>3, QuietChunks, SentTo, ChainKept, ChainUnsent
  <2> QED
    BY <1>3, <2>2, <2>3, LeavePc DEF CollectGradingInput
<1>4. CASE LoadGradingInput(s)
  <2>1. UNCHANGED <<wire, grader>> /\ pc[s] = "load" /\ request[s].kind = "response"
    BY <1>4, <1>f, StepNames DEF LoadGradingInput, SessionInv, HeldInv, AtStep, Instance, TypeOK
  <2>2. CASE Leave(s, "error")
    BY <1>f, <2>1, <2>2, LeavePc, ChainUnsent
  <2>3. CASE /\ Resolves(s) /\ content' = [content EXCEPT ![s] = request[s].from.input]
             /\ Goto(s, "sandbox")
    <3> DEFINE from == request[s].from
    <3>1. from \in Checkpoints /\ from.grader = grader[s]
      BY <2>3 DEF TypeOK, Resolves
    <3>2. content'[s] = from.input /\ pc'[s] = "sandbox"
      BY <2>3, GotoPc DEF TypeOK
    <3>3. link[s] = "up" => Pending(wire[s]) = {} /\ Newest = {from}
      BY <2>1 DEF ChainInv, Begun, Instance
    <3> HIDE DEF from
    <3>4. Checkpoint(s)' = from
      BY <2>1, <3>1, <3>2 DEF Checkpoint, Checkpoints
    <3>5. Contract!NotBefore(from, from)
      BY <3>1, ContractOrder
    <3>6. link[s] = "up" =>
            \A d \in Pending(wire[s]) \cup Newest : Contract!NotBefore(Checkpoint(s)', d)
      BY <3>3, <3>4, <3>5
    <3>7. pc'[s] \in Saved \cup {"save"} /\ pc'[s] # "save"
      BY <3>2 DEF Saved
    <3> QED
      BY <1>f, <2>1, <3>6, <3>7, ChainAtSave
  <2> QED
    BY <1>4, <2>2, <2>3 DEF LoadGradingInput
<1>5. CASE ChooseSandbox(s) \/ CreateSandbox(s)
  <2>1. /\ pc[s] \in Saved /\ pc'[s] \in Saved \cup {"unwind"}
        /\ UNCHANGED <<wire, grader, content>>
    BY <1>5, GotoPc, LeavePc DEF ChooseSandbox, CreateSandbox, Saved
  <2>2. Checkpoint(s)' = Checkpoint(s)
    BY <2>1 DEF Checkpoint
  <2> QED
    BY <1>f, <2>1, <2>2, ChainUnsent
<1>6. CASE YieldGradingInput(s)
  <2>1. /\ UNCHANGED <<grader, wire>> /\ pc[s] = "grade" /\ pc'[s] = "save"
        /\ content' = [content EXCEPT ![s] = [content[s] EXCEPT !.step = content[s].step + 1]]
    BY <1>6, GotoPc DEF YieldGradingInput
  <2>2. content[s] \in Inputs /\ content[s].step \in Nat
    BY SessionAssumption DEF TypeOK, Inputs
  <2>3. /\ content'[s].of = content[s].of /\ content'[s].step = content[s].step + 1
    BY <2>1, <2>2 DEF TypeOK, Inputs
  <2>4. link[s] = "up" =>
          \A d \in Pending(wire[s]) \cup Newest : Contract!NotBefore(Checkpoint(s), d)
    BY <2>1 DEF ChainInv, Saved
  <2>5. \A d \in Checkpoints : Contract!NotBefore(Checkpoint(s), d) =>
                                Contract!Beyond(Checkpoint(s)', d)
    <3> SUFFICES ASSUME NEW d \in Checkpoints, Contract!NotBefore(Checkpoint(s), d)
                 PROVE  Contract!Beyond(Checkpoint(s)', d)
      OBVIOUS
    <3>1. d.input.step \in Nat
      BY ContractOrder
    <3> QED
      BY <2>1, <2>2, <2>3, <3>1
         DEF Contract!NotBefore, Contract!Beyond, Contract!SameGrade, Checkpoint
  <2>6. link[s] = "up" =>
          \A d \in Pending(wire[s]) \cup Newest : Contract!Beyond(Checkpoint(s)', d)
    BY <2>4, <2>5, PendingTypes
  <2>7. "save" \notin Saved
    BY DEF Saved
  <2> QED
    BY <1>f, <2>1, <2>6, <2>7, ChainAtSave
<1>7. CASE YieldError(s) \/ YieldResult(s)
  <2>1. /\ pc[s] \in Saved /\ pc'[s] \in Saved \cup {"unwind"} /\ UNCHANGED <<grader, content>>
    BY <1>7, ForwardPc DEF YieldError, YieldResult, Saved
  <2>2. Checkpoint(s)' = Checkpoint(s)
    BY <2>1 DEF Checkpoint
  <2>3. \/ \E t \in Seq(Chunks) : Plain(t) /\ Send(s, t)
        \/ wire' = wire
    <3>1. CASE YieldError(s)
      BY <1>q, <3>1, QuietChunks DEF YieldError, Forward
    <3>2. CASE YieldResult(s)
      <4> DEFINE g == [graded |-> Checkpoint(s), item |-> items[s]]
                 t == <<[type |-> "result", data |-> g]>>
      <4>1. Checkpoint(s) \in Checkpoints /\ items[s] \in 0 .. MaxItems
        BY CheckpointType, TypeParts DEF TypeOK
      <4>2. g \in Results
        BY <4>1 DEF Results
      <4> HIDE DEF g
      <4>3. t \in Seq(Chunks) /\ Plain(t)
        BY <4>2, ChunkTypes DEF Plain
      <4>4. Send(s, t) \/ wire' = wire
        BY <3>2 DEF YieldResult, Forward, g
      <4> QED
        BY <4>3, <4>4
    <3> QED
      BY <1>7, <3>1, <3>2
  <2> QED
    BY <1>f, <2>1, <2>2, <2>3, SentTo, ChainKept, ChainUnsent
<1>8. CASE EndGrading(s) \/ Cancel(s) \/ LeaveScope(s)
  <2>1. pc'[s] = "unwind" /\ wire' = wire
    BY <1>8, LeavePc DEF EndGrading, Cancel, LeaveScope
  <2> QED
    BY <1>f, <2>1, ChainUnsent
<1>9. CASE CloseSession(s)
  <2>1. pc'[s] = "closed"
    BY <1>9 DEF CloseSession, TypeOK
  <2> DEFINE said == IF why[s] = "error" THEN <<[type |-> "error"]>> ELSE <<>>
             t == said \o <<[type |-> "close"]>>
  <2>2. t \in Seq(Chunks) /\ Quiet(t)
    <3>1. CASE why[s] = "error"
      BY <3>1, QuietChunks
    <3>2. CASE why[s] # "error"
      <4>1. <<>> \o <<[type |-> "close"]>> = <<[type |-> "close"]>>
        OBVIOUS
      <4> QED
        BY <3>2, <4>1, QuietChunks
    <3> QED
      BY <3>1, <3>2
  <2>3. link[s] = "up" => wire'[s] = wire[s] \o t
    <3>1. link[s] = "up" => wire'[s] = (wire[s] \o said) \o <<[type |-> "close"]>>
      BY <1>9 DEF CloseSession, TypeOK
    <3>2. /\ wire[s] \in Seq(Chunks) /\ said \in Seq(Chunks)
          /\ <<[type |-> "close"]>> \in Seq(Chunks)
      BY QuietChunks DEF TypeOK
    <3> HIDE DEF said
    <3>3. \A a, b, d \in Seq(Chunks) : (a \o b) \o d = a \o (b \o d)
      BY ConcatAssociative
    <3> QED
      BY <3>1, <3>2, <3>3
  <2> HIDE DEF t, said
  <2> QED
    BY <1>f, <1>q, <2>1, <2>2, <2>3, ChainKept
<1> QED
  BY <1>1, <1>2, <1>3, <1>4, <1>5, <1>6, <1>7, <1>8, <1>9, ChainSave DEF Serve, Teardown

LEMMA GraderStays ==
  ASSUME TypeOK, NEW s \in Sessions, Serve(s) \/ Cancel(s) \/ Teardown(s)
  PROVE  /\ deployed' = deployed
         /\ grader'[s] = grader[s] \/ grader'[s] = 1
<1>1. CASE Serve(s)
  BY <1>1 DEF Serve, Accept, OpenProvider, BindCredentials, CollectGradingInput,
     SaveGradingInput, LoadGradingInput, ChooseSandbox, CreateSandbox, YieldGradingInput,
     YieldResult, YieldError, EndGrading
<1>2. CASE Cancel(s) \/ LeaveScope(s)
  BY <1>2 DEF Cancel, LeaveScope
<1>3. CASE CloseSession(s)
  BY <1>3 DEF CloseSession, TypeOK
<1> QED
  BY <1>1, <1>2, <1>3 DEF Teardown

\* A handler works on its own input, or on the one it was asked to go on from, and
\* saves it anew only when it has gone on.
LEMMA OwnStep ==
  ASSUME TypeOK, NEW s \in Sessions, SessionInv(s), OwnInv(s),
         Serve(s) \/ Cancel(s) \/ Teardown(s)
  PROVE  OwnInv(s)'
<1>f. UNCHANGED <<request, client>> /\ (YieldResult(s) \/ UNCHANGED first)
  BY HandlerFrame
<1>g. grader'[s] <= deployed'
  <2>1. grader[s] <= deployed /\ 1 <= deployed
    BY SessionAssumption DEF OwnInv, TypeOK, Graders
  <2> QED
    BY <2>1, GraderStays
<1>1. ASSUME first'[s] = first[s],
             request[s].kind = "instance" /\ pc'[s] \in Saved \cup {"save"} => content'[s].of = s,
             request[s].kind = "response" /\ pc'[s] = "save" =>
               content'[s].step > request[s].from.input.step
      PROVE  OwnInv(s)'
  BY <1>1, <1>f, <1>g DEF OwnInv
<1>2. ASSUME UNCHANGED first, pc'[s] \notin Saved \cup {"save"} PROVE OwnInv(s)'
  BY <1>1, <1>2
<1>3. CASE Accept(s) \/ OpenProvider(s) \/ BindCredentials(s)
  <2>1. pc'[s] \notin Saved \cup {"save"} /\ UNCHANGED first
    BY <1>3, GotoPc, LeavePc
       DEF Accept, OpenProvider, BindCredentials, AfterAccept, AfterProvider, AfterCredentials,
           Refuse, Saved, clientVars
  <2> QED
    BY <1>2, <2>1
<1>4. CASE CollectGradingInput(s)
  <2>1. UNCHANGED first /\ Instance(s)
    BY <1>4 DEF CollectGradingInput, clientVars, SessionInv, HeldInv, AtStep
  <2>2. CASE content' = [content EXCEPT ![s] = [of |-> s, step |-> 0]]
    BY <1>1, <2>1, <2>2 DEF Instance, TypeOK
  <2>3. CASE pc'[s] = "unwind"
    BY <1>2, <2>1, <2>3 DEF Saved
  <2> QED
    BY <1>4, <2>2, <2>3, LeavePc DEF CollectGradingInput
<1>5. CASE SaveGradingInput(s)
  <2>1. UNCHANGED <<first, content>> /\ pc[s] = "save"
    BY <1>5 DEF SaveGradingInput, clientVars
  <2>2. pc'[s] \in Saved \cup {"unwind"} /\ pc'[s] # "save"
    BY <1>5, ForwardPc, LeavePc DEF SaveGradingInput, AfterSave, Saved
  <2> QED
    BY <1>1, <2>1, <2>2 DEF OwnInv
<1>6. CASE LoadGradingInput(s)
  <2>1. UNCHANGED first /\ ~ Instance(s)
    BY <1>6 DEF LoadGradingInput, clientVars, SessionInv, HeldInv, AtStep
  <2>2. pc'[s] # "save"
    BY <1>6, GotoPc, LeavePc DEF LoadGradingInput
  <2> QED
    BY <1>1, <2>1, <2>2 DEF Instance
<1>7. CASE ChooseSandbox(s) \/ CreateSandbox(s) \/ YieldError(s)
  <2>1. UNCHANGED <<first, content>> /\ pc[s] \in Saved
    BY <1>7 DEF ChooseSandbox, CreateSandbox, YieldError, clientVars, Saved
  <2>2. pc'[s] # "save"
    BY <1>7, GotoPc, LeavePc, ForwardPc DEF ChooseSandbox, CreateSandbox, YieldError
  <2> QED
    BY <1>1, <2>1, <2>2 DEF OwnInv
<1>8. CASE YieldGradingInput(s)
  <2>1. /\ UNCHANGED <<first, grader>> /\ pc[s] = "grade" /\ pc[s] \in Saved
        /\ content' = [content EXCEPT ![s] = [content[s] EXCEPT !.step = content[s].step + 1]]
    BY <1>8 DEF YieldGradingInput, clientVars, Saved
  <2>2. content[s] \in Inputs /\ content[s].step \in Nat
    BY SessionAssumption DEF TypeOK, Inputs
  <2>3. content'[s].of = content[s].of /\ content'[s].step = content[s].step + 1
    BY <2>1, <2>2 DEF TypeOK, Inputs
  <2>4. request[s].kind = "response" => content[s].step >= request[s].from.input.step
    BY <2>1 DEF SessionInv, SavedInv, Descends, Checkpoint
  <2>5. request[s].kind = "response" => request[s].from.input.step \in Nat
    <3>1. request[s].kind = "response" => request[s].from \in ToSet(held)
      BY DEF SessionInv, FlowInv
    <3>2. ToSet(held) \subseteq Checkpoints
      BY DEF TypeOK, ToSet
    <3> QED
      BY <3>1, <3>2, SessionAssumption DEF Checkpoints, Inputs
  <2>6. request[s].kind = "response" => content'[s].step > request[s].from.input.step
    BY <2>2, <2>3, <2>4, <2>5
  <2> QED
    BY <1>1, <2>1, <2>3, <2>6 DEF OwnInv
<1>9. CASE YieldResult(s)
  <2>1. UNCHANGED content /\ pc[s] = "grade" /\ pc[s] \in Saved
    BY <1>9 DEF YieldResult, Saved
  <2>2. pc'[s] # "save"
    BY <1>9, ForwardPc DEF YieldResult
  <2>3. \/ first'[s] = first[s]
        \/ first'[s] = [graded |-> Checkpoint(s), item |-> items[s]]
    BY <1>9 DEF YieldResult, TypeOK
  <2>4. request[s].kind = "instance" => content[s].of = s
    BY <2>1 DEF OwnInv
  <2>5. CASE first'[s] = first[s]
    BY <1>1, <2>1, <2>2, <2>4, <2>5
  <2>6. CASE first'[s] = [graded |-> Checkpoint(s), item |-> items[s]]
    <3>1. first'[s].graded.input.of = content[s].of
      BY <2>6 DEF Checkpoint
    <3> QED
      BY <1>f, <1>g, <2>1, <2>2, <2>4, <3>1 DEF OwnInv
  <2> QED
    BY <2>3, <2>5, <2>6
<1>10. CASE EndGrading(s) \/ Cancel(s) \/ LeaveScope(s)
  <2>1. pc'[s] = "unwind" /\ UNCHANGED first
    BY <1>10, LeavePc DEF EndGrading, Cancel, LeaveScope, clientVars
  <2> QED
    BY <1>2, <2>1 DEF Saved
<1>11. CASE CloseSession(s)
  <2>1. pc'[s] = "closed" /\ UNCHANGED first
    BY <1>11 DEF CloseSession, clientVars, TypeOK
  <2> QED
    BY <1>2, <2>1 DEF Saved
<1> QED
  BY <1>3, <1>4, <1>5, <1>6, <1>7, <1>8, <1>9, <1>10, <1>11 DEF Serve, Teardown

\* A session that is not touched keeps its part, also when another grader is deployed.
LEMMA ProgressElsewhere ==
  ASSUME NEW q, OwnInv(q), ChainInv(q), Same(q), held' = held \/ link[q] # "up",
         deployed' = deployed \/ deployed' = deployed + 1, deployed \in Nat, grader[q] \in Nat
  PROVE  OwnInv(q)' /\ ChainInv(q)'
<1>1. OwnInv(q)'
  BY DEF OwnInv, Same
<1>2. CASE held' = held
  <2>1. Newest' = Newest /\ Instance(q)' = Instance(q) /\ Checkpoint(q)' = Checkpoint(q)
    BY <1>2 DEF Newest, Instance, Checkpoint, Same
  <2>2. \A c : Contract!News(c, q)' <=> Contract!News(c, q)
    BY ContractFixed DEF Same
  <2> QED
    BY <1>1, <2>1, <2>2 DEF ChainInv, Same
<1>3. CASE link[q] # "up"
  BY <1>1, <1>3 DEF ChainInv, Same
<1> QED
  BY <1>2, <1>3

\* Only one session is open.
LEMMA OneOpen ==
  ASSUME CInv, NEW s \in Sessions, NEW q \in Sessions, q # s, client[s] = "open"
  PROVE  link[q] # "up"
<1>1. TurnInv(s) /\ TurnInv(q) /\ FlowInv(q)
  BY DEF CInv, ProgressInv, IInv, SessionInv
<1>2. s < q \/ q < s
  BY SessionAssumption DEF Sessions
<1>3. client[q] # "open"
  BY <1>1, <1>2 DEF TurnInv
<1> QED
  BY <1>1, <1>3 DEF FlowInv

LEMMA TurnKept ==
  ASSUME CInv, NEW s \in Sessions, client'[s] = client[s] \/ (client[s] = "open" /\ client'[s] = "done"),
         \A q \in Sessions \ {s} : client'[q] = client[q]
  PROVE  \A q \in Sessions : TurnInv(q)'
<1>1. \A q \in Sessions : TurnInv(q)
  BY DEF CInv, ProgressInv
<1>2. \A q \in Sessions :
        /\ client'[q] # "off" => client[q] # "off"
        /\ client[q] = "done" => client'[q] = "done"
  OBVIOUS
<1> QED
  BY <1>1, <1>2 DEF TurnInv

LEMMA OpenProgress ==
  ASSUME CInv, NEW s \in Sessions, OpenSession(s)
  PROVE  OwnInv(s)' /\ ChainInv(s)' /\ \A q \in Sessions : TurnInv(q)'
<1>0. TypeOK /\ SessionInv(s) /\ \A q \in Sessions : TurnInv(q)
  BY DEF CInv, IInv, ProgressInv
<1>1. /\ client[s] = "off" /\ client' = [client EXCEPT ![s] = "open"] /\ pc'[s] = "accept"
      /\ s > 1 => client[s - 1] = "done"
      /\ grader'[s] = deployed
      /\ request'[s] = IF held = <<>> THEN [kind |-> "instance", from |-> None]
                       ELSE [kind |-> "response", from |-> Last(held)]
      /\ UNCHANGED <<deployed, held, first, wire>>
  BY <1>0 DEF OpenSession, TypeOK
<1>2. first[s] = None /\ wire[s] = <<>> /\ client'[s] = "open" /\ deployed \in Nat
  BY <1>0, <1>1 DEF SessionInv, FlowInv, TypeOK, Graders
<1>3. OwnInv(s)'
  BY <1>1, <1>2 DEF OwnInv, Saved
<1>4. ChainInv(s)'
  <2>1. Pending(<<>>) = {} /\ InOrder(<<>>)
    BY DEF Pending, InOrder
  <2>2. Newest' = IF held = <<>> THEN {} ELSE {Last(held)}
    BY <1>1 DEF Newest
  <2>3. Newest' = IF Instance(s)' THEN {} ELSE {request'[s].from}
    <3>1. CASE held = <<>>
      BY <1>1, <2>2, <3>1 DEF Instance
    <3>2. CASE held # <<>>
      <4>1. request'[s].kind = "response" /\ request'[s].from = Last(held)
        BY <1>1, <3>2
      <4> QED
        BY <2>2, <3>2, <4>1 DEF Instance
    <3> QED
      BY <3>1, <3>2
  <2>4. wire'[s] = <<>> /\ pc'[s] \notin Saved \cup {"save"}
    BY <1>1, <1>2 DEF Saved
  <2> QED
    BY <2>1, <2>3, <2>4 DEF ChainInv
<1>5. ASSUME NEW q \in Sessions PROVE TurnInv(q)'
  <2> SUFFICES ASSUME client'[q] # "off", NEW p \in Sessions, p < q PROVE client'[p] = "done"
    BY DEF TurnInv
  <2>1. CASE q = s
    <3>1. s > 1 /\ s - 1 \in Sessions /\ (p = s - 1 \/ p < s - 1)
      BY <2>1, SessionAssumption DEF Sessions
    <3>2. client[p] = "done"
      BY <1>0, <1>1, <3>1 DEF TurnInv
    <3> QED
      BY <1>0, <1>1, <2>1, <3>2 DEF Sessions, TypeOK
  <2>2. CASE q # s
    <3>1. client[p] = "done"
      BY <1>0, <1>1, <2>2 DEF TurnInv, TypeOK
    <3> QED
      BY <1>0, <1>1, <3>1 DEF TypeOK
  <2> QED
    BY <2>1, <2>2
<1> QED
  BY <1>3, <1>4, <1>5

LEMMA FinishProgress ==
  ASSUME CInv, NEW s \in Sessions, client[s] = "open", NEW o, Finish(s, o),
         UNCHANGED <<deployed, store, serverVars, held, request>>
  PROVE  OwnInv(s)' /\ ChainInv(s)' /\ \A q \in Sessions : TurnInv(q)'
<1>0. TypeOK /\ OwnInv(s)
  BY DEF CInv, IInv, ProgressInv
<1>1. /\ client'[s] = "done" /\ link'[s] = "down" /\ first'[s] \in {None, first[s]}
      /\ UNCHANGED <<deployed, request, pc, content, grader>>
      /\ \A q \in Sessions \ {s} : client'[q] = client[q]
  BY <1>0 DEF Finish, TypeOK, serverVars
<1>2. OwnInv(s)'
  BY <1>0, <1>1 DEF OwnInv
<1>3. ChainInv(s)'
  BY <1>1 DEF ChainInv
<1>4. \A q \in Sessions : TurnInv(q)'
  BY <1>1, TurnKept
<1> QED
  BY <1>2, <1>3, <1>4

\* What the caller stores becomes the newest, and everything else under way is beyond.
LEMMA ReadProgress ==
  ASSUME CInv, NEW s \in Sessions, client[s] = "open", wire[s] # <<>>, Consume(s), Goes,
         held' = held \/ (Head(wire[s]).type = "checkpoint" /\ held' = Append(held, Head(wire[s]).data)),
         UNCHANGED <<deployed, store, serverVars, request>>
  PROVE  OwnInv(s)' /\ ChainInv(s)' /\ \A q \in Sessions : TurnInv(q)'
<1> DEFINE w == wire[s]
           c == Head(w)
<1>0. TypeOK /\ OwnInv(s) /\ ChainInv(s) /\ FlowInv(s)
  BY DEF CInv, IInv, ProgressInv, SessionInv
<1>1. /\ w \in Seq(Chunks) /\ wire'[s] = Tail(w) /\ link[s] = "up" /\ InOrder(w)
      /\ UNCHANGED <<deployed, request, pc, content, grader, client, link, first>>
  BY <1>0 DEF TypeOK, Consume, Goes, serverVars, FlowInv, ChainInv
<1>2. OwnInv(s)'
  BY <1>0, <1>1 DEF OwnInv
<1>3. \A q \in Sessions : TurnInv(q)'
  BY <1>1, TurnKept
<1>4. /\ Pending(Tail(w)) \subseteq Pending(w) /\ InOrder(Tail(w))
      /\ c.type = "checkpoint" =>
           c.data \in Pending(w) /\ \A d \in Pending(Tail(w)) : Contract!Beyond(d, c.data)
  BY <1>1, PendingRead
<1>5. \/ Newest' = Newest
      \/ c.type = "checkpoint" /\ Newest' = {c.data}
  <2>1. CASE held' = held
    BY <2>1 DEF Newest
  <2>2. CASE c.type = "checkpoint" /\ held' = Append(held, c.data)
    <3>1. c.data \in Checkpoints /\ held \in Seq(Checkpoints)
      BY <1>0, <1>4, <2>2, PendingTypes DEF TypeOK
    <3> HIDE DEF c
    <3>2. Last(Append(held, c.data)) = c.data /\ Append(held, c.data) # <<>>
      BY <3>1, LastOfAppend
    <3> QED
      BY <2>2, <3>2 DEF Newest
  <2> QED
    BY <2>1, <2>2
<1>6. /\ Instance(s)' = Instance(s) /\ Checkpoint(s)' = Checkpoint(s)
      /\ \A d : Contract!News(d, s)' <=> Contract!News(d, s)
  BY <1>1, ContractFixed DEF Instance, Checkpoint
<1>7. /\ \A d \in Pending(w) : Contract!News(d, s) /\ \A e \in Newest : Contract!Beyond(d, e)
      /\ pc[s] \in Begun => Pending(w) = {} /\ Newest = IF Instance(s) THEN {} ELSE {request[s].from}
      /\ pc[s] \in Saved => \A d \in Pending(w) \cup Newest : Contract!NotBefore(Checkpoint(s), d)
      /\ pc[s] = "save" => \A d \in Pending(w) \cup Newest : Contract!Beyond(Checkpoint(s), d)
  BY <1>0, <1>1 DEF ChainInv
<1> HIDE DEF w, c
<1>8. /\ \A d \in Pending(Tail(w)) : Contract!News(d, s) /\ \A e \in Newest' : Contract!Beyond(d, e)
      /\ pc[s] \in Begun =>
           Pending(Tail(w)) = {} /\ Newest' = IF Instance(s) THEN {} ELSE {request[s].from}
      /\ pc[s] \in Saved =>
           \A d \in Pending(Tail(w)) \cup Newest' : Contract!NotBefore(Checkpoint(s), d)
      /\ pc[s] = "save" =>
           \A d \in Pending(Tail(w)) \cup Newest' : Contract!Beyond(Checkpoint(s), d)
  BY <1>4, <1>5, <1>7
<1>9. ChainInv(s)'
  BY <1>1, <1>4, <1>6, <1>8 DEF ChainInv
<1> QED
  BY <1>2, <1>3, <1>9

LEMMA InitCInv ==
  ASSUME Init
  PROVE  CInv
<1>1. IInv
  BY InitIInv
<1>2. ASSUME NEW s \in Sessions PROVE ProgressInv(s)
  <2>1. /\ deployed = 1 /\ grader[s] = 1 /\ client[s] = "off" /\ pc[s] = "off"
        /\ request[s].kind = "none" /\ link[s] = "down"
    BY DEF Init
  <2> QED
    BY <2>1 DEF ProgressInv, OwnInv, ChainInv, TurnInv
<1> QED
  BY <1>1, <1>2 DEF CInv

LEMMA NextCInv ==
  ASSUME CInv, [Next]_vars
  PROVE  CInv'
<1>0. /\ IInv /\ TypeOK /\ CheckpointResolves
      /\ \A q \in Sessions : SessionInv(q) /\ OwnInv(q) /\ ChainInv(q) /\ TurnInv(q)
  BY DEF CInv, IInv, ProgressInv
<1>i. IInv'
  BY <1>0, NextIInv
<1>n. deployed \in Nat /\ \A q \in Sessions : grader[q] \in Nat
  BY <1>0, SessionAssumption DEF TypeOK, Graders
<1>1. ASSUME NEW s \in Sessions, OwnInv(s)', ChainInv(s)', \A q \in Sessions : TurnInv(q)',
             \A q \in Sessions \ {s} : Same(q), deployed' = deployed,
             held' = held \/ client[s] = "open"
      PROVE  CInv'
  <2>1. ASSUME NEW q \in Sessions \ {s} PROVE OwnInv(q)' /\ ChainInv(q)'
    <3>1. held' = held \/ link[q] # "up"
      BY <1>1, OneOpen
    <3> QED
      BY <1>0, <1>1, <1>n, <3>1, ProgressElsewhere
  <2> QED
    BY <1>1, <1>i, <2>1 DEF CInv, ProgressInv
<1>2. ASSUME NEW s \in Sessions, Serve(s) \/ Cancel(s) \/ Teardown(s) PROVE CInv'
  <2>1. OwnInv(s)' /\ ChainInv(s)'
    BY <1>0, <1>2, OwnStep, ChainStep
  <2>2. \A q \in Sessions \ {s} : Same(q)
    BY <1>0, <1>2, HandlerElsewhere
  <2>3. UNCHANGED <<held, client>> /\ deployed' = deployed
    BY <1>0, <1>2, HandlerFrame, GraderStays
  <2>4. \A q \in Sessions : TurnInv(q)'
    BY <2>3, TurnKept
  <2> QED
    BY <1>1, <2>1, <2>2, <2>3, <2>4
<1>3. ASSUME NEW s \in Sessions, OpenSession(s) PROVE CInv'
  <2>1. \A q \in Sessions \ {s} : Same(q)
    BY <1>0, <1>3, OpenElsewhere
  <2>2. UNCHANGED <<held, deployed>>
    BY <1>3 DEF OpenSession
  <2> QED
    BY <1>1, <1>3, <2>1, <2>2, OpenProgress
<1>4. ASSUME NEW s \in Sessions, Receive(s) PROVE CInv'
  <2> DEFINE c == Head(wire[s])
  <2>1. /\ client[s] = "open" /\ wire[s] # <<>>
        /\ UNCHANGED <<deployed, store, serverVars, request>>
    BY <1>4, ReceiveCases
  <2>2. \A q \in Sessions \ {s} : Same(q)
    BY <1>0, <1>4, ReceiveStep
  <2>3. CASE UNCHANGED held /\ \E o : Finish(s, o)
    BY <1>1, <2>1, <2>2, <2>3, FinishProgress
  <2>4. CASE Consume(s) /\ Goes /\ (held' = held \/ (c.type = "checkpoint" /\ held' = Append(held, c.data)))
    BY <1>1, <2>1, <2>2, <2>4, ReadProgress
  <2> QED
    BY <1>4, <2>3, <2>4, ReceiveCases
<1>5. ASSUME NEW s \in Sessions, GiveUp(s) PROVE CInv'
  <2>1. /\ client[s] = "open" /\ Finish(s, Failed)
        /\ UNCHANGED <<deployed, store, serverVars, held, request>>
    BY <1>5 DEF GiveUp
  <2>2. \A q \in Sessions \ {s} : Same(q)
    BY <1>0, <2>1, FinishElsewhere
  <2> QED
    BY <1>1, <2>1, <2>2, FinishProgress
<1>6. ASSUME UNCHANGED <<store, serverVars, clientVars, link, wire>>,
             deployed' = deployed \/ deployed' = deployed + 1
      PROVE  CInv'
  <2>1. ASSUME NEW q \in Sessions PROVE Same(q) /\ held' = held /\ client' = client
    BY <1>6 DEF serverVars, clientVars, Same
  <2>2. \A q \in Sessions : OwnInv(q)' /\ ChainInv(q)'
    BY <1>0, <1>6, <1>n, <2>1, ProgressElsewhere
  <2>3. \A q \in Sessions : TurnInv(q)'
    BY <1>0, <2>1 DEF TurnInv
  <2> QED
    BY <1>i, <2>2, <2>3 DEF CInv, ProgressInv
<1>7. CASE Redeploy
  BY <1>6, <1>7 DEF Redeploy
<1>8. CASE UNCHANGED vars
  BY <1>6, <1>8 DEF vars
<1> QED
  BY <1>2, <1>3, <1>4, <1>5, <1>7, <1>8 DEF Next

\* The sessions start as the evaluation does.
LEMMA InitContract ==
  ASSUME Init
  PROVE  Contract!ContractInit
  BY DEF Init, Contract!ContractInit

\* What a handler saves is news of an attempt; nothing else it does is seen.
LEMMA HandlerMaps ==
  ASSUME CInv, NEW s \in Sessions, Serve(s) \/ Cancel(s) \/ Teardown(s)
  PROVE  Contract!ContractNext \/ UNCHANGED Contract!contractVars
<1>0. /\ TypeOK /\ SessionInv(s) /\ OwnInv(s)
  BY DEF CInv, IInv, ProgressInv
<1>1. UNCHANGED <<deployed, held, request, verdict>>
  BY <1>0, HandlerFrame, GraderStays
<1>2. CASE store' = store
  BY <1>1, <1>2 DEF Contract!contractVars
<1>3. CASE store' # store
  <2>1. pc[s] = "save" /\ store' = store \cup {Checkpoint(s)}
    <3>1. SaveGradingInput(s) \/ Cancel(s)
      BY <1>3 DEF Serve, Teardown, Accept, OpenProvider, BindCredentials, CollectGradingInput,
         LoadGradingInput, ChooseSandbox, CreateSandbox, YieldGradingInput, YieldResult,
         YieldError, EndGrading, LeaveScope, CloseSession
    <3> QED
      BY <1>3, <3>1 DEF SaveGradingInput, Cancel
  <2>2. Contract!News(Checkpoint(s), s)
    BY <1>0, <2>1, SavedIsNews
  <2>3. Checkpoint(s) \in Checkpoints /\ Checkpoint(s).grader <= deployed
    <3>1. Checkpoint(s) \in Checkpoints
      BY <1>0, CheckpointType, TypeParts
    <3> QED
      BY <1>0, <3>1 DEF OwnInv, Checkpoint
  <2>4. Contract!Save(s, Checkpoint(s))
    BY <1>1, <2>1, <2>2, <2>3 DEF Contract!Save
  <2> QED
    BY <2>3, <2>4 DEF Contract!ContractNext
<1> QED
  BY <1>2, <1>3

LEMMA KeptIsHeld ==
  ASSUME TypeOK
  PROVE  Contract!Kept = ToSet(held) /\ Contract!Latest = Last(held)
<1>1. held \in Seq(Checkpoints) /\ DOMAIN held = 1 .. Len(held)
  BY DEF TypeOK
<1> QED
  BY <1>1 DEF Contract!Kept, Contract!Latest, ToSet, Last

\* A new session is the next attempt.
LEMMA OpenMaps ==
  ASSUME CInv, NEW s \in Sessions, OpenSession(s)
  PROVE  Contract!ContractNext
<1>0. TypeOK /\ OwnInv(s)
  BY DEF CInv, IInv, ProgressInv
<1>1. request[s].kind = "none"
  BY <1>0 DEF OwnInv, OpenSession
<1>2. Contract!Latest = Last(held)
  BY <1>0, KeptIsHeld
<1>3. Contract!Ask(s)
  BY <1>1, <1>2 DEF OpenSession, Contract!Ask
<1> QED
  BY <1>3 DEF Contract!ContractNext

\* A call that ends is an attempt that fails or is answered.
LEMMA FinishMaps ==
  ASSUME CInv, NEW s \in Sessions, client[s] = "open",
         NEW o, o = Failed \/ (o = result[s] /\ result[s] # None), Finish(s, o),
         UNCHANGED <<deployed, store, held, request>>
  PROVE  Contract!ContractNext
<1>0. TypeOK /\ SessionInv(s) /\ OwnInv(s)
  BY DEF CInv, IInv, ProgressInv
<1>1. verdict[s] = None /\ request[s].kind \in {"instance", "response"}
  BY <1>0 DEF SessionInv, FlowInv, TypeOK
<1>2. verdict' = [verdict EXCEPT ![s] = o]
  BY DEF Finish
<1>3. CASE o = Failed
  <2>1. Contract!Fail(s)
    BY <1>1, <1>2, <1>3 DEF Contract!Fail
  <2> QED
    BY <2>1 DEF Contract!ContractNext
<1>4. CASE o = result[s] /\ result[s] # None
  <2>1. result[s] = first[s] /\ result[s].graded \in ToSet(held) /\ o \in Results
    BY <1>0, <1>4 DEF SessionInv, FlowInv, TypeOK
  <2>2. Contract!Reached(o.graded, s)
    <3>1. CASE request[s].kind = "instance"
      BY <1>0, <1>4, <2>1, <3>1 DEF OwnInv, Contract!Reached
    <3>2. CASE request[s].kind = "response"
      <4>1. Descends(o.graded, request[s].from)
        BY <1>0, <1>4, <2>1, <3>2 DEF SessionInv, SavedInv
      <4> QED
        BY <3>2, <4>1 DEF Descends, Contract!Reached, Contract!NotBefore, Contract!SameGrade
    <3> QED
      BY <1>1, <3>1, <3>2
  <2>3. o.graded \in Contract!Kept
    BY <1>0, <1>4, <2>1, KeptIsHeld
  <2>4. Contract!Answer(s, o)
    BY <1>1, <1>2, <2>2, <2>3 DEF Contract!Answer
  <2> QED
    BY <2>1, <2>4 DEF Contract!ContractNext
<1> QED
  BY <1>3, <1>4

\* What the caller stores is saved, is news and lies beyond what it had.
LEMMA KeepMaps ==
  ASSUME CInv, NEW s \in Sessions, client[s] = "open", wire[s] # <<>>,
         Head(wire[s]).type = "checkpoint", held' = Append(held, Head(wire[s]).data),
         UNCHANGED <<deployed, store, request, verdict>>
  PROVE  Contract!ContractNext
<1> DEFINE c == Head(wire[s]).data
<1>0. TypeOK /\ SessionInv(s) /\ ChainInv(s)
  BY DEF CInv, IInv, ProgressInv
<1>1. verdict[s] = None /\ link[s] = "up" /\ wire[s] \in Seq(Chunks)
  BY <1>0 DEF SessionInv, FlowInv, TypeOK
<1>2. c \in store
  BY <1>0, <1>1, CheckpointsRead DEF SessionInv, WireInv
<1>3. c \in Pending(wire[s])
  BY <1>0, <1>1, PendingRead DEF ChainInv
<1>4. Contract!News(c, s) /\ \A d \in Newest : Contract!Beyond(c, d)
  BY <1>0, <1>1, <1>3 DEF ChainInv
<1>5. held # <<>> => Contract!Beyond(c, Contract!Latest)
  BY <1>0, <1>4, KeptIsHeld DEF Newest
<1>6. c \in Checkpoints
  BY <1>0, <1>2 DEF TypeOK
<1>7. Contract!Keep(s, c)
  BY <1>1, <1>2, <1>4, <1>5 DEF Contract!Keep
<1> QED
  BY <1>6, <1>7 DEF Contract!ContractNext

LEMMA StepMaps ==
  ASSUME CInv, [Next]_vars
  PROVE  [Contract!ContractNext]_Contract!contractVars
<1> SUFFICES Contract!ContractNext \/ UNCHANGED Contract!contractVars
  OBVIOUS
<1>1. ASSUME NEW s \in Sessions, Receive(s)
      PROVE  Contract!ContractNext \/ UNCHANGED Contract!contractVars
  <2> DEFINE c == Head(wire[s])
  <2>1. /\ client[s] = "open" /\ wire[s] # <<>>
        /\ UNCHANGED <<deployed, store, serverVars, request>>
    BY <1>1, ReceiveCases
  <2>2. CASE Finish(s, Failed) /\ UNCHANGED held
    BY <2>1, <2>2, FinishMaps
  <2>3. CASE Finish(s, IF result[s] = None THEN Failed ELSE result[s]) /\ UNCHANGED held
    <3>1. PICK o : o = IF result[s] = None THEN Failed ELSE result[s]
      OBVIOUS
    <3>2. (o = Failed \/ (o = result[s] /\ result[s] # None)) /\ Finish(s, o)
      BY <2>3, <3>1
    <3> QED
      BY <2>1, <2>3, <3>2, FinishMaps
  <2>4. CASE c.type = "checkpoint" /\ held' = Append(held, c.data) /\ Goes
    BY <2>1, <2>4, KeepMaps DEF Goes
  <2>5. CASE UNCHANGED held /\ Goes
    BY <2>1, <2>5 DEF Goes, Contract!contractVars
  <2> QED
    BY <1>1, <2>2, <2>3, <2>4, <2>5, ReceiveCases
<1>2. ASSUME NEW s \in Sessions, GiveUp(s) PROVE Contract!ContractNext
  BY <1>2, FinishMaps DEF GiveUp
<1>3. CASE Redeploy
  <2>1. Contract!Deploy
    BY <1>3 DEF Redeploy, clientVars, Contract!Deploy
  <2> QED
    BY <2>1 DEF Contract!ContractNext
<1>4. CASE UNCHANGED vars
  BY <1>4 DEF vars, clientVars, Contract!contractVars
<1> QED
  BY <1>1, <1>2, <1>3, <1>4, HandlerMaps, OpenMaps DEF Next

\* The sessions of a task, with their connections, handlers and deployments, are one
\* evaluation: an attempt goes on from the caller's latest checkpoint, what the caller
\* stores only goes forward, and a verdict is about something it stored.
THEOREM SessionsKeepContract == Spec => KeepsEvaluationContract
<1>1. Init => CInv
  BY InitCInv
<1>2. CInv /\ [Next]_vars => CInv'
  BY NextCInv
<1>3. Init => Contract!ContractInit
  BY InitContract
<1>4. CInv /\ [Next]_vars => [Contract!ContractNext]_Contract!contractVars
  BY StepMaps
<1> QED
  BY <1>1, <1>2, <1>3, <1>4, PTL DEF Spec, KeepsEvaluationContract, Contract!ContractSpec
===============================================================================
