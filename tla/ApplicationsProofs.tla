------------------------ MODULE ApplicationsProofs ------------------------
(***************************************************************************)
(* The safety of the end of a program, of the frames of coroutines, of the  *)
(* timer and of the echo client, for any number of loops, sessions, frames, *)
(* sleepers, workers and dummies.  Each of them has an invariant of its     *)
(* own, kept by its steps; they do not share a variable.                    *)
(***************************************************************************)
EXTENDS MCApplications, FiniteSetTheorems, SequenceTheorems, TLAPS

\* The instances count as this module does.
LEMMA SameCardinality ==
  ASSUME NEW S
  PROVE  /\ Ending!Cardinality(S) = Cardinality(S)
         /\ Frame!Cardinality(S) = Cardinality(S)
         /\ Clock!Cardinality(S) = Cardinality(S)
         /\ Ending!IsFiniteSet(S) <=> IsFiniteSet(S)
         /\ Clock!IsFiniteSet(S) <=> IsFiniteSet(S)
<1>1. /\ Ending!Cardinality(S) = Cardinality(S)
      /\ Frame!Cardinality(S) = Cardinality(S)
      /\ Clock!Cardinality(S) = Cardinality(S)
  BY DEF Ending!Cardinality, Frame!Cardinality, Clock!Cardinality, Cardinality
<1>2. /\ Ending!IsFiniteSet(S) <=> IsFiniteSet(S)
      /\ Clock!IsFiniteSet(S) <=> IsFiniteSet(S)
  BY DEF Ending!IsFiniteSet, Clock!IsFiniteSet, IsFiniteSet
<1>3. QED
  BY <1>1, <1>2

-----------------------------------------------------------------------------
(* The end of a program.  _stop_count is the number of loops that have not  *)
(* counted themselves down, so the destructor that reads zero is alone.     *)

Uncounted == {l \in Ending!Loops : loop[l] \in {"check", "body", "asleep"}}

EndingIsTyped ==
  /\ loop \in [Ending!Loops -> {"check", "body", "asleep", "counted", "ended"}]
  /\ main \in {"running", "load", "wait", "asleep", "clear", "spin", "gone"}
  /\ dummy \in [Slots -> {"absent", "living", "destroyed", "deleted"}]
  /\ sessions \in [Slots -> {"none", "ticked", "connecting", "failed", "open", "cancelled", "ended"}]
  /\ told \subseteq Slots
  /\ halted \in BOOLEAN

EndingIsRight ==
  /\ EndingIsTyped
  /\ stopCount = Cardinality(Uncounted)
  /\ main \in {"clear", "spin", "gone"} => Uncounted = {}
  /\ main = "gone" => \A s \in Slots : sessions[s] # "cancelled"

\* The constructor counts the loops it starts.
LEMMA EndingInit ==
  ASSUME Ending!Init
  PROVE  EndingIsRight
<1>1. Uncounted = Ending!Loops
  BY DEF Ending!Init, Uncounted
<1>2. EndingIsTyped
  BY DEF Ending!Init, EndingIsTyped
<1>3. QED
  BY <1>1, <1>2, SameCardinality DEF Ending!Init, EndingIsRight

\* A loop counts itself down once.
LEMMA LoopStepKeeps ==
  ASSUME EndingIsRight, Ending!ShutdownAssumption, NEW l \in Ending!Loops, Ending!LoopStep(l)
  PROVE  EndingIsRight'
<1> USE DEF EndingIsRight
<1>1. EndingIsTyped'
  <2>1. CASE Ending!Body(l)
    BY <2>1 DEF EndingIsTyped, Ending!Body, Ending!mainVars
  <2>2. CASE Ending!Check(l) \/ Ending!Leave(l) \/ Ending!Notify(l) \/ Ending!Wake(l)
    BY <2>2 DEF EndingIsTyped, Ending!Check, Ending!Leave, Ending!Notify, Ending!Wake,
       Ending!clientVars, Ending!mainVars
  <2>3. QED
    BY <2>1, <2>2 DEF Ending!LoopStep
<1>2. CASE Ending!Check(l) \/ Ending!Wake(l)
  <2>1. Uncounted' = Uncounted
    BY <1>2 DEF Ending!Check, Ending!Wake, EndingIsTyped, Uncounted
  <2>2. QED
    BY <1>1, <1>2, <2>1 DEF Ending!Check, Ending!Wake, Ending!mainVars, Ending!clientVars
\* The body is run by a loop that has not counted, so the destructor still waits.
<1>3. CASE Ending!Body(l)
  <2>1. Uncounted' = Uncounted /\ l \in Uncounted
    BY <1>3 DEF Ending!Body, EndingIsTyped, Uncounted
  <2>2. main' = main /\ stopCount' = stopCount /\ main # "gone"
    BY <1>3, <2>1 DEF Ending!Body, Ending!mainVars
  <2>3. QED
    BY <1>1, <2>1, <2>2
<1>4. CASE Ending!Leave(l)
  <2>1. Uncounted' = Uncounted \ {l} /\ l \in Uncounted
    BY <1>4 DEF Ending!Leave, EndingIsTyped, Uncounted
  <2>2. IsFiniteSet(Uncounted)
    BY FS_Subset, SameCardinality DEF Ending!ShutdownAssumption, Uncounted
  <2>3. Cardinality(Uncounted \ {l}) = Cardinality(Uncounted) - 1
    BY <2>1, <2>2, FS_RemoveElement
  <2>4. QED
    BY <1>1, <1>4, <2>1, <2>3 DEF Ending!Leave, Ending!mainVars, Ending!clientVars
<1>5. CASE Ending!Notify(l)
  <2>1. Uncounted' = Uncounted
    BY <1>5 DEF Ending!Notify, EndingIsTyped, Uncounted
  <2>2. QED
    BY <1>1, <1>5, <2>1 DEF Ending!Notify, Ending!clientVars
<1>6. QED
  BY <1>2, <1>3, <1>4, <1>5 DEF Ending!LoopStep

\* The destructor goes on when nobody is left to count down.
LEMMA MainStepKeeps ==
  ASSUME EndingIsRight, Ending!ShutdownAssumption, Ending!MainStep
  PROVE  EndingIsRight'
<1> USE DEF EndingIsRight
<1>1. Uncounted' = Uncounted /\ stopCount' = stopCount
  BY DEF Ending!MainStep, Ending!Load, Ending!Wait, Ending!Clear, Ending!EndScan, Ending!Spin,
     Ending!loopVars, Uncounted
<1>2. EndingIsTyped'
  BY DEF EndingIsTyped, Ending!MainStep, Ending!Load, Ending!Wait, Ending!Clear, Ending!EndScan,
     Ending!Spin, Ending!loopVars, Ending!clientVars
<1>3. CASE Ending!Load
  <2>1. IsFiniteSet(Uncounted)
    BY FS_Subset, SameCardinality DEF Ending!ShutdownAssumption, Uncounted
  <2>2. stopCount = 0 => Uncounted = {}
    BY <2>1, FS_EmptySet
  <2>3. QED
    BY <1>1, <1>2, <1>3, <2>2 DEF Ending!Load
<1>4. CASE Ending!Wait \/ Ending!Clear \/ Ending!EndScan
  BY <1>1, <1>2, <1>4 DEF Ending!Wait, Ending!Clear, Ending!EndScan
<1>5. CASE Ending!Spin
  BY <1>1, <1>2, <1>5 DEF Ending!Spin, Ending!Counted, Ending!clientVars
<1>6. QED
  BY <1>3, <1>4, <1>5 DEF Ending!MainStep

\* A command comes before the destructor.
LEMMA CommandKeeps ==
  ASSUME EndingIsRight, Ending!Command
  PROVE  EndingIsRight'
<1>1. Uncounted' = Uncounted /\ stopCount' = stopCount
  BY DEF Ending!Command, Ending!StopCommand, Ending!RequestStop, Ending!Start, Ending!loopVars, Uncounted
<1>2. main' \in {"running", "load"}
  BY DEF Ending!Command, Ending!StopCommand, Ending!RequestStop, Ending!Start, Ending!mainVars
<1>3. EndingIsTyped'
  <2>1. CASE Ending!StopCommand
    BY <2>1 DEF EndingIsRight, EndingIsTyped, Ending!StopCommand, Ending!loopVars, Ending!mainVars
  <2>2. CASE Ending!RequestStop
    BY <2>2 DEF EndingIsRight, EndingIsTyped, Ending!RequestStop, Ending!clientVars
  <2>3. ASSUME NEW s \in Slots, Ending!Start(s)
        PROVE  EndingIsTyped'
    BY <2>3 DEF EndingIsRight, EndingIsTyped, Ending!Start, Ending!loopVars, Ending!mainVars
  <2>4. QED
    BY <2>1, <2>2, <2>3 DEF Ending!Command
<1>4. QED
  BY <1>1, <1>2, <1>3 DEF EndingIsRight

\* A session that is not cancelled is not made so by its dummy or the network.
LEMMA SlotStepKeeps ==
  ASSUME EndingIsRight, NEW s \in Slots, Ending!SlotStep(s)
  PROVE  EndingIsRight'
<1> USE DEF EndingIsRight
<1>1. Uncounted' = Uncounted /\ stopCount' = stopCount /\ main' = main /\ loop' = loop
  BY DEF Ending!SlotStep, Ending!BeginConnect, Ending!Connect, Ending!ConnectFails, Ending!End,
     Ending!LastRelease, Ending!TakeDisconnect, Ending!Delete, Ending!loopVars, Ending!mainVars, Uncounted
<1>2. EndingIsTyped' /\ \A r \in Slots : sessions'[r] = "cancelled" => sessions[r] = "cancelled"
  <2>1. CASE Ending!BeginConnect(s) \/ Ending!Connect(s) \/ Ending!ConnectFails(s)
    BY <1>1, <2>1 DEF EndingIsTyped, Ending!BeginConnect, Ending!Connect, Ending!ConnectFails
  <2>2. CASE Ending!End(s)
    BY <1>1, <2>2 DEF EndingIsTyped, Ending!End
  <2>3. CASE Ending!LastRelease(s) \/ Ending!TakeDisconnect(s)
    BY <1>1, <2>3 DEF EndingIsTyped, Ending!LastRelease, Ending!TakeDisconnect
  <2>4. CASE Ending!Delete(s)
    BY <1>1, <2>4 DEF EndingIsTyped, Ending!Delete
  <2>5. QED
    BY <2>1, <2>2, <2>3, <2>4 DEF Ending!SlotStep
<1>3. QED
  BY <1>1, <1>2

\* Every step of the end keeps its invariant.
LEMMA EndingStep ==
  ASSUME EndingIsRight, Ending!ShutdownAssumption, Ending!Next
  PROVE  EndingIsRight'
BY CommandKeeps, LoopStepKeeps, MainStepKeeps, SlotStepKeeps DEF Ending!Next

\* Nobody is left to count down when every loop has counted or ended.
LEMMA EndingImplies ==
  ASSUME EndingIsRight
  PROVE  Ending!LoopsEndFirst
BY SameCardinality DEF EndingIsRight, EndingIsTyped, Ending!LoopsEndFirst, Uncounted

-----------------------------------------------------------------------------
(* The frames of coroutines.  A frame that waits has one child, the frame   *)
(* it awaits, and the child knows it as its parent; a frame nobody awaits   *)
(* has been posted once and frees itself.                                   *)

Statuses == {"none", "created", "running", "waiting", "suspended", "yielded",
             "resuming", "final", "freed"}

FramesAreTyped ==
  /\ status \in [Frames -> Statuses]
  /\ value \in [Frames -> BOOLEAN]
  /\ object \in [Frames -> {"none", "alive", "dead"}]
  /\ start \in [Frames -> BOOLEAN]
  /\ parent \in [Frames -> Frames \union {NoParent}]
  /\ ready \subseteq Frames
  /\ frees \in [Frames -> Nat]

\* A frame that goes on its own has been let go; one that is awaited has not.
FrameIsRight(f) ==
  /\ frees[f] = (IF status[f] = "freed" THEN 1 ELSE 0)
  /\ f \in ready => status[f] = "created" /\ object[f] = "dead" /\ ~value[f]
  /\ status[f] \in {"none", "created"} => parent[f] = NoParent
  /\ object[f] = "alive" /\ start[f] => status[f] = "created"
  /\ object[f] = "dead" /\ status[f] = "created" /\ start[f] => f \in ready
  /\ status[f] = "yielded" => value[f]
  /\ status[f] = "final" => parent[f] # NoParent
  /\ value[f] /\ status[f] \in Frame!Active => parent[f] # NoParent

\* The frame g is under way and will wake f.
Wakes(g, f) == parent[g] = f /\ status[g] \in Frame!Active \union {"final"}

ParentsAreRight ==
  \A f \in Frames :
    /\ status[f] = "waiting" <=> \E g \in Frames : Wakes(g, f) /\ status[g] # "final"
    /\ status[f] = "resuming" <=> \E g \in Frames : Wakes(g, f) /\ status[g] = "final"
    /\ \A g, h \in Frames : Wakes(g, f) /\ Wakes(h, f) => g = h

\* A fork counts the joins to come, and one more until it is awaited.
ForkIsRight ==
  /\ left \in Nat /\ joins \in Nat
  /\ forked \in {"idle", "open", "awaiting", "resumed"}
  /\ left = joins + (IF forked = "open" THEN 1 ELSE 0)
  /\ forked = "awaiting" <=> joins > 0 /\ forked # "open"

FramesAreRight ==
  /\ FramesAreTyped
  /\ \A f \in Frames : FrameIsRight(f)
  /\ ParentsAreRight

\* Initially there is no frame.
LEMMA FramesInit ==
  ASSUME Frame!Init
  PROVE  FramesAreRight /\ ForkIsRight
BY DEF Frame!Init, ForkIsRight, FramesAreRight, FramesAreTyped, Statuses, FrameIsRight, ParentsAreRight, Wakes,
   Frame!Active

\* A step of the caller of a frame, or of the frame, as far as it goes alone.
LEMMA AloneStep ==
  ASSUME FramesAreRight, NEW f \in Frames, NEW c \in Frame!Callers,
         \/ \E isValue \in BOOLEAN : Frame!Call(c, f, isValue)
         \/ \E enable \in BOOLEAN : Frame!AutoStart(c, f, enable)
         \/ Frame!Destruct(c, f) \/ Frame!TaskExecute(f)
         \/ Frame!Suspend(f) \/ Frame!Resume(f),
         Frame!CoroutineAssumption
  PROVE  FramesAreRight'
<1> USE DEF FramesAreRight, FramesAreTyped, Statuses, Frame!Active, Frame!CoroutineAssumption
<1>1. ASSUME NEW isValue \in BOOLEAN, Frame!Call(c, f, isValue)
      PROVE  FramesAreRight'
  <2> USE <1>1 DEF Frame!Call, Frame!Holds, Frame!Runs
  <2>1. FramesAreTyped'
    OBVIOUS
  <2>2. ASSUME NEW g \in Frames
        PROVE  FrameIsRight(g)'
    BY DEF FrameIsRight
  <2>3. ParentsAreRight'
    BY <2>1 DEF ParentsAreRight, Wakes
  <2>4. QED
    BY <2>1, <2>2, <2>3
<1>2. ASSUME NEW enable \in BOOLEAN, Frame!AutoStart(c, f, enable)
      PROVE  FramesAreRight'
  <2> USE <1>2 DEF Frame!AutoStart, Frame!Holds, Frame!Runs
  <2>1. FramesAreTyped'
    OBVIOUS
  <2>2. ASSUME NEW g \in Frames
        PROVE  FrameIsRight(g)'
    BY DEF FrameIsRight
  <2>3. ParentsAreRight'
    BY <2>1 DEF ParentsAreRight, Wakes
  <2>4. QED
    BY <2>1, <2>2, <2>3
<1>3. CASE Frame!Destruct(c, f)
  <2> USE <1>3 DEF Frame!Destruct, Frame!Holds, Frame!Runs
  <2>1. FramesAreTyped'
    OBVIOUS
  <2>2. ASSUME NEW g \in Frames
        PROVE  FrameIsRight(g)'
    BY DEF FrameIsRight
  <2>3. ParentsAreRight'
    BY <2>1 DEF ParentsAreRight, Wakes, FrameIsRight
  <2>4. QED
    BY <2>1, <2>2, <2>3
<1>4. CASE Frame!TaskExecute(f)
  <2> USE <1>4 DEF Frame!TaskExecute
  <2>1. FramesAreTyped'
    OBVIOUS
  <2>2. ASSUME NEW g \in Frames
        PROVE  FrameIsRight(g)'
    BY DEF FrameIsRight
  <2>3. ParentsAreRight'
    BY <2>1 DEF ParentsAreRight, Wakes, FrameIsRight
  <2>4. QED
    BY <2>1, <2>2, <2>3
<1>5. CASE Frame!Suspend(f) \/ Frame!Resume(f)
  <2> USE <1>5 DEF Frame!Suspend, Frame!Resume
  <2>1. FramesAreTyped'
    OBVIOUS
  <2>2. ASSUME NEW g \in Frames
        PROVE  FrameIsRight(g)'
    BY DEF FrameIsRight
  <2>3. ParentsAreRight'
    BY SMTT(30), <2>1 DEF ParentsAreRight, Wakes, FrameIsRight
  <2>4. QED
    BY <2>1, <2>2, <2>3
<1>6. QED
  BY <1>1, <1>2, <1>3, <1>4, <1>5

\* A step that hands the thread on from one frame to another.
LEMMA HandOver ==
  ASSUME FramesAreRight, NEW f \in Frames, NEW c \in Frame!Callers,
         Frame!AwaitSuspend(c, f) \/ Frame!Yield(f) \/ Frame!FinalSuspend(f) \/ Frame!AwaitResume(f),
         Frame!CoroutineAssumption
  PROVE  FramesAreRight'
<1> USE DEF FramesAreRight, FramesAreTyped, Statuses, Frame!Active, Frame!CoroutineAssumption
<1>1. CASE Frame!AwaitSuspend(c, f)
  <2> USE <1>1 DEF Frame!AwaitSuspend, Frame!Holds
  <2>1. FramesAreTyped'
    OBVIOUS
  <2>2. ASSUME NEW g \in Frames
        PROVE  FrameIsRight(g)'
    BY DEF FrameIsRight, ParentsAreRight, Wakes
  <2>3. ParentsAreRight'
    <3>1. /\ f # c /\ c \in Frames
          /\ \A g \in Frames : status'[g] = IF g = c THEN "waiting"
                                           ELSE IF g = f THEN "running" ELSE status[g]
          /\ \A g \in Frames : parent'[g] = IF g = f THEN c ELSE parent[g]
      OBVIOUS
    <3>2. \A g, p \in Frames :
            /\ ~Wakes(f, p) /\ ~Wakes(g, c)
            /\ g # f => Wakes(g, p)' = Wakes(g, p)
            /\ g # f => (status'[g] = "final" <=> status[g] = "final")
            /\ Wakes(f, p)' <=> p = c
      BY <3>1 DEF ParentsAreRight, Wakes
    <3>3. \A p \in Frames \ {c} :
            /\ status'[p] = "waiting" <=> status[p] = "waiting"
            /\ status'[p] = "resuming" <=> status[p] = "resuming"
      BY <3>1
    <3>4. status'[c] = "waiting" /\ status'[f] = "running"
      BY <3>1
    <3>5. ASSUME NEW q \in Frames
          PROVE  /\ status'[q] = "waiting" <=> \E g \in Frames : Wakes(g, q)' /\ status'[g] # "final"
                 /\ status'[q] = "resuming" <=> \E g \in Frames : Wakes(g, q)' /\ status'[g] = "final"
                 /\ \A g, h \in Frames : Wakes(g, q)' /\ Wakes(h, q)' => g = h
      <4>1. CASE q = c
        BY <4>1, <3>1, <3>2, <3>3, <3>4
      <4>2. CASE q # c
        <5>1. /\ status[q] = "waiting" <=> \E g \in Frames : Wakes(g, q) /\ status[g] # "final"
              /\ status[q] = "resuming" <=> \E g \in Frames : Wakes(g, q) /\ status[g] = "final"
              /\ \A g, h \in Frames : Wakes(g, q) /\ Wakes(h, q) => g = h
          BY DEF ParentsAreRight
        <5>2. QED
          BY <4>2, <5>1, <3>1, <3>2, <3>3, <3>4
      <4>3. QED
        BY <4>1, <4>2
    <3>6. QED
      BY <3>5 DEF ParentsAreRight
  <2>4. QED
    BY <2>1, <2>2, <2>3
<1>2. CASE Frame!Yield(f)
  <2> USE <1>2 DEF Frame!Yield
  <2>1. FramesAreTyped'
    OBVIOUS
  <2>2. ASSUME NEW g \in Frames
        PROVE  FrameIsRight(g)'
    BY DEF FrameIsRight, ParentsAreRight, Wakes
  <2>3. ParentsAreRight'
    <3>1. PICK p \in Frames : p = parent[f]
      BY DEF FrameIsRight
    <3>2. /\ p # f
          /\ \A g \in Frames : status'[g] = IF g = p THEN "running"
                                           ELSE IF g = f THEN "yielded" ELSE status[g]
          /\ status[p] = "waiting"
      BY <3>1 DEF ParentsAreRight, Wakes
    <3>3. \A g, q \in Frames :
            /\ Wakes(g, p) => g = f
            /\ g # f => Wakes(g, q)' = Wakes(g, q)
            /\ g # f => (status'[g] = "final" <=> status[g] = "final")
            /\ ~Wakes(f, q)' /\ (Wakes(f, q) <=> q = p)
      BY <3>1, <3>2 DEF ParentsAreRight, Wakes
    <3>4. \A q \in Frames \ {p} :
            /\ status'[q] = "waiting" <=> status[q] = "waiting"
            /\ status'[q] = "resuming" <=> status[q] = "resuming"
      BY <3>2
    <3>5. ASSUME NEW q \in Frames
          PROVE  /\ status'[q] = "waiting" <=> \E g \in Frames : Wakes(g, q)' /\ status'[g] # "final"
                 /\ status'[q] = "resuming" <=> \E g \in Frames : Wakes(g, q)' /\ status'[g] = "final"
                 /\ \A g, h \in Frames : Wakes(g, q)' /\ Wakes(h, q)' => g = h
      <4>1. CASE q = p
        BY <4>1, <3>1, <3>2, <3>3, <3>4
      <4>2. CASE q # p
        <5>1. /\ status[q] = "waiting" <=> \E g \in Frames : Wakes(g, q) /\ status[g] # "final"
              /\ status[q] = "resuming" <=> \E g \in Frames : Wakes(g, q) /\ status[g] = "final"
              /\ \A g, h \in Frames : Wakes(g, q) /\ Wakes(h, q) => g = h
          BY DEF ParentsAreRight
        <5>2. QED
          BY <4>2, <5>1, <3>1, <3>2, <3>3, <3>4
      <4>3. QED
        BY <4>1, <4>2
    <3>6. QED
      BY <3>5 DEF ParentsAreRight
  <2>4. QED
    BY <2>1, <2>2, <2>3
<1>3. CASE Frame!FinalSuspend(f)
  <2> USE <1>3 DEF Frame!FinalSuspend, Frame!Freed
  <2>1. FramesAreTyped'
    OBVIOUS
  <2>2. ASSUME NEW g \in Frames
        PROVE  FrameIsRight(g)'
    BY DEF FrameIsRight, ParentsAreRight, Wakes
  <2>3. ParentsAreRight'
    BY SMTT(30), <2>1 DEF ParentsAreRight, Wakes, FrameIsRight
  <2>4. QED
    BY <2>1, <2>2, <2>3
<1>4. CASE Frame!AwaitResume(f)
  <2> USE <1>4 DEF Frame!AwaitResume, Frame!Freed
  <2>1. FramesAreTyped'
    <3>1. frees' \in [Frames -> Nat]
      OBVIOUS
    <3>2. status' \in [Frames -> Statuses]
      OBVIOUS
    <3>3. QED
      BY <3>1, <3>2
  <2>2. ASSUME NEW g \in Frames
        PROVE  FrameIsRight(g)'
    BY DEF FrameIsRight, ParentsAreRight, Wakes
  <2>3. ParentsAreRight'
    <3>1. PICK p \in Frames : p = parent[f]
      BY DEF FrameIsRight
    <3>2. /\ p # f
          /\ \A g \in Frames : status'[g] = IF g = p THEN "running"
                                           ELSE IF g = f THEN "freed" ELSE status[g]
          /\ status[p] = "resuming"
      BY <3>1 DEF ParentsAreRight, Wakes
    <3>3. \A g, q \in Frames :
            /\ Wakes(g, p) => g = f
            /\ g # f => Wakes(g, q)' = Wakes(g, q)
            /\ g # f => (status'[g] = "final" <=> status[g] = "final")
            /\ ~Wakes(f, q)' /\ (Wakes(f, q) <=> q = p)
      BY <3>1, <3>2 DEF ParentsAreRight, Wakes
    <3>4. \A q \in Frames \ {p} :
            /\ status'[q] = "waiting" <=> status[q] = "waiting"
            /\ status'[q] = "resuming" <=> status[q] = "resuming"
      BY <3>2
    <3>5. ASSUME NEW q \in Frames
          PROVE  /\ status'[q] = "waiting" <=> \E g \in Frames : Wakes(g, q)' /\ status'[g] # "final"
                 /\ status'[q] = "resuming" <=> \E g \in Frames : Wakes(g, q)' /\ status'[g] = "final"
                 /\ \A g, h \in Frames : Wakes(g, q)' /\ Wakes(h, q)' => g = h
      <4>1. CASE q = p
        BY <4>1, <3>1, <3>2, <3>3, <3>4
      <4>2. CASE q # p
        <5>1. /\ status[q] = "waiting" <=> \E g \in Frames : Wakes(g, q) /\ status[g] # "final"
              /\ status[q] = "resuming" <=> \E g \in Frames : Wakes(g, q) /\ status[g] = "final"
              /\ \A g, h \in Frames : Wakes(g, q) /\ Wakes(h, q) => g = h
          BY DEF ParentsAreRight
        <5>2. QED
          BY <4>2, <5>1, <3>1, <3>2, <3>3, <3>4
      <4>3. QED
        BY <4>1, <4>2
    <3>6. QED
      BY <3>5 DEF ParentsAreRight
  <2>4. QED
    BY <2>1, <2>2, <2>3
<1>5. QED
  BY <1>1, <1>2, <1>3, <1>4

\* A fork starts, is awaited or joined.
LEMMA ForkStep ==
  ASSUME ForkIsRight, Frame!CoroutineAssumption,
         (\E n \in 0 .. ForkLimit : Frame!Fork(n)) \/ Frame!ForkAwaitSuspend \/ Frame!Join
  PROVE  ForkIsRight'
<1> USE DEF ForkIsRight
<1>1. ASSUME NEW n \in 0 .. ForkLimit, Frame!Fork(n)
      PROVE  ForkIsRight'
  BY <1>1 DEF Frame!Fork, Frame!CoroutineAssumption
<1>2. CASE Frame!ForkAwaitSuspend
  BY <1>2 DEF Frame!ForkAwaitSuspend
<1>3. CASE Frame!Join
  BY <1>3 DEF Frame!Join, Frame!Posted
<1>4. QED
  BY <1>1, <1>2, <1>3

\* Every step of coroutines and forks keeps their invariant.
LEMMA FramesStep ==
  ASSUME FramesAreRight, ForkIsRight, Frame!CoroutineAssumption, Frame!Next
  PROVE  FramesAreRight' /\ ForkIsRight'
<1>1. ASSUME UNCHANGED <<left, joins, forked>>
      PROVE  ForkIsRight'
  BY <1>1 DEF ForkIsRight
<1>2. ASSUME UNCHANGED <<status, value, object, owner, start, parent, ready, frees>>
      PROVE  FramesAreRight'
  BY <1>2 DEF FramesAreRight, FramesAreTyped, FrameIsRight, ParentsAreRight, Wakes
<1>3. ASSUME NEW c \in Frame!Callers, NEW f \in Frames,
             \/ \E isValue \in BOOLEAN : Frame!Call(c, f, isValue)
             \/ \E enable \in BOOLEAN : Frame!AutoStart(c, f, enable)
             \/ Frame!Destruct(c, f) \/ Frame!AwaitSuspend(c, f)
      PROVE  FramesAreRight' /\ ForkIsRight'
  <2>1. UNCHANGED <<left, joins, forked>>
    BY <1>3 DEF Frame!Call, Frame!AutoStart, Frame!Destruct, Frame!AwaitSuspend, Frame!forkVars
  <2>2. FramesAreRight'
    BY <1>3, AloneStep, HandOver
  <2>3. QED
    BY <1>1, <2>1, <2>2
<1>4. ASSUME NEW f \in Frames,
             \/ Frame!TaskExecute(f) \/ Frame!Suspend(f) \/ Frame!Resume(f)
             \/ Frame!Yield(f) \/ Frame!FinalSuspend(f) \/ Frame!AwaitResume(f)
      PROVE  FramesAreRight' /\ ForkIsRight'
  <2>1. UNCHANGED <<left, joins, forked>>
    BY <1>4 DEF Frame!TaskExecute, Frame!Suspend, Frame!Resume, Frame!Yield, Frame!FinalSuspend,
       Frame!AwaitResume, Frame!forkVars
  <2>2. Main \in Frame!Callers
    BY DEF Frame!Callers
  <2>3. FramesAreRight'
    BY <1>4, <2>2, AloneStep, HandOver
  <2>4. QED
    BY <1>1, <2>1, <2>3
<1>5. ASSUME (\E n \in 0 .. ForkLimit : Frame!Fork(n)) \/ Frame!ForkAwaitSuspend \/ Frame!Join
      PROVE  FramesAreRight' /\ ForkIsRight'
  <2>1. UNCHANGED <<status, value, object, owner, start, parent, ready, frees>>
    BY <1>5 DEF Frame!Fork, Frame!ForkAwaitSuspend, Frame!Join, Frame!frameVars
  <2>2. QED
    BY <1>2, <1>5, <2>1, ForkStep
<1>6. QED
  BY <1>3, <1>4, <1>5 DEF Frame!Next

\* At most one frame wakes a frame, and a fork goes on once.
LEMMA FramesImply ==
  ASSUME FramesAreRight, ForkIsRight
  PROVE  Frame!FramesEndOnce
<1>1. ASSUME NEW f \in Frames
      PROVE  /\ frees[f] = (IF status[f] = "freed" THEN 1 ELSE 0)
             /\ f \in ready => status[f] = "created" /\ parent[f] = NoParent
             /\ object[f] = "dead" /\ status[f] = "created" /\ start[f] => f \in ready
             /\ status[f] = "yielded" => value[f]
  BY DEF FramesAreRight, FrameIsRight
<1>2. ASSUME NEW f \in Frames
      PROVE  status[f] \in {"waiting", "resuming"} <=>
               \E g \in Frames : parent[g] = f /\ status[g] \in Frame!Active \union {"final"}
  BY DEF FramesAreRight, ParentsAreRight, Wakes
<1>3. ASSUME NEW f \in Frames
      PROVE  Frame!Cardinality({g \in Frames : parent[g] = f
                                 /\ status[g] \in Frame!Active \union {"final"}}) <= 1
  <2> DEFINE S == {g \in Frames : Wakes(g, f)}
  <2>1. \A g, h \in S : g = h
    BY DEF FramesAreRight, ParentsAreRight
  <2>2. S = {} \/ \E g \in S : S = {g}
    BY <2>1
  <2>3. Cardinality(S) <= 1
    BY <2>2, FS_EmptySet, FS_Singleton
  <2>4. QED
    BY <2>3, SameCardinality DEF Wakes
<1>4. /\ forked = "resumed" => joins = 0 /\ left = 0
      /\ forked = "awaiting" => joins > 0
      /\ forked # "again"
  BY DEF ForkIsRight
<1>5. QED
  BY <1>1, <1>2, <1>3, <1>4 DEF Frame!FramesEndOnce

-----------------------------------------------------------------------------
(* The timer.  A sleeper is moved on by the one thread that has it: the     *)
(* worker that runs it, or the thread of the timer once it is in the queue; *)
(* and the queue and the port hold each sleeper once.                       *)

\* The sequence holds every member of S once, and Close besides.
Enlists(q, S) ==
  /\ \A i \in 1 .. Len(q) : q[i] = Close \/ q[i] \in S
  /\ \A s \in S : \E i \in 1 .. Len(q) : q[i] = s
  /\ \A i, j \in 1 .. Len(q) : q[i] = q[j] /\ i # j => q[i] = Close

\* Who comes to the end of a sequence is enlisted there.
LEMMA EnlistsAppend ==
  ASSUME NEW T, NEW q \in Seq(T), NEW S, Enlists(q, S), NEW s \in T, s \notin S, s # Close
  PROVE  Enlists(Append(q, s), S \union {s}) /\ Append(q, s) \in Seq(T)
<1> DEFINE r == Append(q, s)
<1>1. /\ r \in Seq(T) /\ Len(r) = Len(q) + 1 /\ Len(q) \in Nat
      /\ r[Len(q) + 1] = s
      /\ \A i \in 1 .. Len(q) : r[i] = q[i]
  OBVIOUS
<1> HIDE DEF r
<1>2. \A i \in 1 .. Len(r) : i \in 1 .. Len(q) \/ i = Len(q) + 1
  BY <1>1
<1>3. \A i \in 1 .. Len(q) : i \in 1 .. Len(r)
  BY <1>1
<1>4. Len(q) + 1 \in 1 .. Len(r)
  BY <1>1
<1>5. \A i \in 1 .. Len(r) : r[i] = Close \/ r[i] \in S \union {s}
  BY <1>1, <1>2 DEF Enlists
<1>6. \A u \in S \union {s} : \E i \in 1 .. Len(r) : r[i] = u
  BY <1>1, <1>3, <1>4 DEF Enlists
<1>7. \A i, j \in 1 .. Len(r) : r[i] = r[j] /\ i # j => r[i] = Close
  BY <1>1, <1>2 DEF Enlists
<1>8. QED
  BY <1>1, <1>5, <1>6, <1>7 DEF Enlists, r

\* Who is at the front and goes is enlisted no longer; Close may go.
LEMMA EnlistsTail ==
  ASSUME NEW T, NEW q \in Seq(T), NEW S, Enlists(q, S), Close \notin S, q # <<>>
  PROVE  /\ Head(q) \in T /\ (Head(q) = Close \/ Head(q) \in S)
         /\ Tail(q) \in Seq(T) /\ Enlists(Tail(q), S \ {Head(q)})
<1> DEFINE r == Tail(q)
<1>1. /\ r \in Seq(T) /\ Len(q) = Len(r) + 1 /\ Len(r) \in Nat
      /\ Head(q) = q[1] /\ Head(q) \in T
      /\ \A i \in 1 .. Len(r) : r[i] = q[i + 1]
  OBVIOUS
<1> HIDE DEF r
<1>2. \A i \in 1 .. Len(r) : i + 1 \in 1 .. Len(q) /\ i + 1 # 1
  BY <1>1
<1>3. 1 \in 1 .. Len(q)
  BY <1>1
<1>4. \A i \in 1 .. Len(q) : i = 1 \/ i - 1 \in 1 .. Len(r)
  BY <1>1
<1>5. \A i \in 1 .. Len(r) : r[i] = Close \/ r[i] \in S \ {q[1]}
  BY <1>1, <1>2, <1>3 DEF Enlists
<1>6. ASSUME NEW u \in S \ {q[1]}
      PROVE  \E i \in 1 .. Len(r) : r[i] = u
  <2>1. PICK i \in 1 .. Len(q) : q[i] = u
    BY DEF Enlists
  <2>2. i - 1 \in 1 .. Len(r) /\ i = (i - 1) + 1
    BY <2>1, <1>4, <1>1
  <2>3. r[i - 1] = u
    BY <1>1, <2>1, <2>2
  <2>4. QED
    BY <2>2, <2>3
<1>7. \A i, j \in 1 .. Len(r) : r[i] = r[j] /\ i # j => r[i] = Close
  <2>1. \A i, j \in 1 .. Len(r) : i # j => i + 1 # j + 1
    OBVIOUS
  <2>2. QED
    BY <1>1, <1>2, <2>1 DEF Enlists
<1>8. Head(q) = Close \/ Head(q) \in S
  BY <1>1, <1>3 DEF Enlists
<1>9. QED
  BY <1>1, <1>5, <1>6, <1>7, <1>8 DEF Enlists, r

\* Closes at the end change nothing.
LEMMA EnlistsClose ==
  ASSUME NEW T, NEW q \in Seq(T), NEW S, Enlists(q, S), Close \in T, NEW n \in Nat
  PROVE  LET r == q \o [i \in 1 .. n |-> Close] IN r \in Seq(T) /\ Enlists(r, S)
<1> DEFINE c == [i \in 1 .. n |-> Close]
           r == q \o c
<1>1. c \in Seq(T) /\ Len(c) = n /\ \A i \in 1 .. n : c[i] = Close
  OBVIOUS
<1> HIDE DEF c
<1>2. /\ r \in Seq(T) /\ Len(r) = Len(q) + n /\ Len(q) \in Nat
      /\ \A i \in 1 .. Len(r) : r[i] = IF i <= Len(q) THEN q[i] ELSE c[i - Len(q)]
  BY <1>1
<1> HIDE DEF r
<1>3. \A i \in 1 .. Len(r) : (i \in 1 .. Len(q) /\ r[i] = q[i]) \/ r[i] = Close
  <2>1. \A i \in 1 .. Len(r) : i \in 1 .. Len(q) \/ (i > Len(q) /\ i - Len(q) \in 1 .. n)
    BY <1>2
  <2>2. QED
    BY <1>1, <1>2, <2>1
<1>4. \A i \in 1 .. Len(q) : i \in 1 .. Len(r) /\ r[i] = q[i]
  BY <1>2
<1>5. Enlists(r, S)
  BY <1>3, <1>4 DEF Enlists
<1>6. QED
  BY <1>2, <1>5 DEF r, c

\* What the thread of the timer and the workers rely on.
Places == {"running", "counted", "queued", "popped", "heap", "due", "posted", "ended"}

ClockIsTyped ==
  /\ place \in [Sleepers -> Places] /\ rest \in [Sleepers -> Nat]
  /\ queue \in Seq(Sleepers) /\ port \in Seq(Sleepers \union {Close})
  /\ closing \in BOOLEAN /\ wait \in Nat \union {Infinite}
  /\ thread \in {"wait", "asleep", "check", "pop", "count", "post", "gone"}
  /\ worker \in [Workers -> Sleepers \union {Idle, Waking, Gone}]

\* The sleepers that _insert_size counts.
Inserting == {s \in Sleepers : place[s] \in {"counted", "queued", "popped"}}

\* The queue and the port hold each sleeper once, and the word counts them.
LinesAreRight ==
  /\ Enlists(queue, Clock!At("queued"))
  /\ Enlists(port, Clock!At("posted"))
  /\ size = Cardinality(Inserting)

\* A sleeper that runs, or inserts itself, is run by one worker.
WorkersAreRight ==
  /\ \A w \in Workers : worker[w] \in Sleepers => place[worker[w]] \in {"running", "counted"}
  /\ \A s \in Sleepers : place[s] \in {"running", "counted"} => \E w \in Workers : worker[w] = s
  /\ \A v, w \in Workers : worker[v] = worker[w] /\ worker[v] \in Sleepers => v = w

\* The thread has one sleeper in hand when it counts, posts all that are due
\* before it waits again, and waits for the heap's first; while it sleeps,
\* whoever has put a sleeper into the queue is about to wake it.
ThreadIsRight ==
  /\ \A s \in Sleepers : place[s] \in {"due", "posted", "running"} => rest[s] = 0
  /\ \A s, u \in Clock!At("popped") : s = u
  /\ thread # "count" => Clock!At("popped") = {}
  /\ thread # "post" => Clock!At("due") = {}
  /\ thread \in {"post", "wait", "asleep", "check"} => (wait = Infinite <=> Clock!At("heap") = {})
  /\ thread = "asleep" => /\ queue # <<>> => \E w \in Workers : worker[w] = Waking
                          /\ closing => destruct = "closing"

ClockIsRight == ClockIsTyped /\ LinesAreRight /\ WorkersAreRight /\ ThreadIsRight


\* Who is at the front of the port or of the queue, and what is left then.
LEMMA Fronts ==
  ASSUME ClockIsRight, Clock!TimerAssumption
  PROVE  /\ port # <<>> =>
              /\ Head(port) \in Sleepers \union {Close}
              /\ Head(port) = Close \/ place[Head(port)] = "posted"
              /\ Tail(port) \in Seq(Sleepers \union {Close})
              /\ Enlists(Tail(port), Clock!At("posted") \ {Head(port)})
         /\ queue # <<>> =>
              /\ Head(queue) \in Sleepers /\ place[Head(queue)] = "queued"
              /\ Tail(queue) \in Seq(Sleepers)
              /\ Enlists(Tail(queue), Clock!At("queued") \ {Head(queue)})
<1>1. /\ queue \in Seq(Sleepers) /\ port \in Seq(Sleepers \union {Close})
      /\ Enlists(queue, Clock!At("queued")) /\ Enlists(port, Clock!At("posted"))
  BY DEF ClockIsRight, ClockIsTyped, LinesAreRight
<1>2. Close \notin Clock!At("queued") /\ Close \notin Clock!At("posted") /\ Close \notin Sleepers
  BY DEF Clock!At, Clock!TimerAssumption
<1>3. ASSUME port # <<>>
      PROVE  /\ Head(port) \in Sleepers \union {Close}
             /\ Head(port) = Close \/ Head(port) \in Clock!At("posted")
             /\ Tail(port) \in Seq(Sleepers \union {Close})
             /\ Enlists(Tail(port), Clock!At("posted") \ {Head(port)})
  BY <1>1, <1>2, <1>3, EnlistsTail
<1>4. ASSUME queue # <<>>
      PROVE  /\ Head(queue) \in Sleepers
             /\ Head(queue) = Close \/ Head(queue) \in Clock!At("queued")
             /\ Tail(queue) \in Seq(Sleepers)
             /\ Enlists(Tail(queue), Clock!At("queued") \ {Head(queue)})
  BY <1>1, <1>2, <1>4, EnlistsTail
<1>5. QED
  BY <1>2, <1>3, <1>4 DEF Clock!At

\* Who is put at the end of the port or of the queue.
LEMMA Ends ==
  ASSUME ClockIsRight, Clock!TimerAssumption, NEW s \in Sleepers
  PROVE  /\ place[s] # "posted" =>
              /\ Append(port, s) \in Seq(Sleepers \union {Close})
              /\ Enlists(Append(port, s), Clock!At("posted") \union {s})
         /\ place[s] # "queued" =>
              /\ Append(queue, s) \in Seq(Sleepers)
              /\ Enlists(Append(queue, s), Clock!At("queued") \union {s})
<1>1. /\ queue \in Seq(Sleepers) /\ port \in Seq(Sleepers \union {Close})
      /\ Enlists(queue, Clock!At("queued")) /\ Enlists(port, Clock!At("posted"))
  BY DEF ClockIsRight, ClockIsTyped, LinesAreRight
<1>2. s # Close /\ s \in Sleepers \union {Close}
  BY DEF Clock!TimerAssumption
<1>3. ASSUME place[s] # "posted"
      PROVE  /\ Append(port, s) \in Seq(Sleepers \union {Close})
             /\ Enlists(Append(port, s), Clock!At("posted") \union {s})
  <2>1. s \notin Clock!At("posted")
    BY <1>3 DEF Clock!At
  <2>2. QED
    BY <1>1, <1>2, <2>1, EnlistsAppend
<1>4. ASSUME place[s] # "queued"
      PROVE  /\ Append(queue, s) \in Seq(Sleepers)
             /\ Enlists(Append(queue, s), Clock!At("queued") \union {s})
  <2>1. s \notin Clock!At("queued")
    BY <1>4 DEF Clock!At
  <2>2. QED
    BY <1>1, <1>2, <2>1, EnlistsAppend
<1>5. QED
  BY <1>3, <1>4

\* The word counts one more or one less.
LEMMA InsertingMoves ==
  ASSUME ClockIsRight, Clock!TimerAssumption
  PROVE  /\ size \in Nat
         /\ \A s \in Sleepers \ Inserting : Cardinality(Inserting \union {s}) = size + 1
         /\ \A s \in Inserting : Cardinality(Inserting \ {s}) = size - 1
         /\ size = 0 => queue = <<>>
<1>1. IsFiniteSet(Inserting) /\ size = Cardinality(Inserting)
  BY FS_Subset, SameCardinality DEF Clock!TimerAssumption, Inserting, ClockIsRight, LinesAreRight
<1>2. size \in Nat /\ (size = 0 => Inserting = {})
  BY <1>1, FS_CardinalityType, FS_EmptySet
<1>3. \A s \in Sleepers \ Inserting : Cardinality(Inserting \union {s}) = size + 1
  BY <1>1, FS_AddElement
<1>4. \A s \in Inserting : Cardinality(Inserting \ {s}) = size - 1
  BY <1>1, FS_RemoveElement
<1>5. queue # <<>> => Head(queue) \in Inserting
  BY Fronts DEF Inserting
<1>6. QED
  BY <1>2, <1>3, <1>4, <1>5

\* A worker takes a packet, and runs a sleeper that sleeps or ends.
LEMMA WorkerKeeps ==
  ASSUME ClockIsRight, Clock!TimerAssumption, NEW w \in Workers,
         Clock!WorkerStep(w)
  PROVE  ClockIsRight'
<1> USE DEF ClockIsRight, ClockIsTyped, Clock!Move, Clock!At, Clock!TimerAssumption, Places
<1>1. CASE Clock!Take(w)
  <2> USE <1>1 DEF Clock!Take
  <2> DEFINE h == Head(port)
  <2>a. h \in Sleepers \union {Close} /\ (h = Close \/ place[h] = "posted")
        /\ Tail(port) \in Seq(Sleepers \union {Close})
        /\ Enlists(Tail(port), Clock!At("posted") \ {h})
    BY Fronts
  <2>b. h \in Sleepers => h # Close /\ \A v \in Workers : worker[v] # h
    BY <2>a DEF WorkersAreRight
  <2>1. ClockIsTyped'
    BY <2>a
  <2>2. LinesAreRight'
    <3>1. Enlists(port', Clock!At("posted")')
      <4>1. Clock!At("posted")' = Clock!At("posted") \ {h}
        BY <2>a
      <4>2. port' = Tail(port)
        OBVIOUS
      <4>3. QED
        BY <2>a, <4>1, <4>2, ZenonT(30)
    <3>2. Clock!At("queued")' = Clock!At("queued") /\ Inserting' = Inserting
      BY <2>a DEF Inserting
    <3>3. QED
      BY <3>1, <3>2 DEF LinesAreRight
  <2>3. WorkersAreRight'
    <3>1. CASE h = Close
      <4>1. /\ place' = place
            /\ \A v \in Workers : worker'[v] = IF v = w THEN Gone ELSE worker[v]
        BY <3>1
      <4>2. QED
        BY <4>1 DEF WorkersAreRight
    <3>2. CASE h \in Sleepers
      <4>1. /\ \A s \in Sleepers : place'[s] = IF s = h THEN "running" ELSE place[s]
            /\ \A v \in Workers : worker'[v] = IF v = w THEN h ELSE worker[v]
        BY <2>b, <3>2
      <4>2. worker[w] = Idle /\ Idle \notin Sleepers /\ place[h] = "posted"
        BY <2>a, <2>b, <3>2
      <4>3. /\ \A v \in Workers : worker[v] \in Sleepers => place[worker[v]] \in {"running", "counted"}
            /\ \A s \in Sleepers : place[s] \in {"running", "counted"} => \E v \in Workers : worker[v] = s
            /\ \A v, u \in Workers : worker[v] = worker[u] /\ worker[v] \in Sleepers => v = u
        BY DEF WorkersAreRight
      <4> HIDE <1>1
      <4> HIDE DEF ClockIsRight, ClockIsTyped, Clock!Take, Clock!Move, Clock!TimerAssumption, h
      <4>4. \A v \in Workers : worker'[v] \in Sleepers => place'[worker'[v]] \in {"running", "counted"}
        BY <2>b, <3>2, <4>1, <4>2, <4>3
      <4>5. \A s \in Sleepers : place'[s] \in {"running", "counted"} => \E v \in Workers : worker'[v] = s
        <5> TAKE s \in Sleepers
        <5>1. CASE s = h
          BY <5>1, <3>2, <4>1
        <5>2. CASE s # h
          <6>1. ASSUME place[s] \in {"running", "counted"}
                PROVE  \E v \in Workers : worker'[v] = s
            <7>1. PICK v \in Workers : worker[v] = s
              BY <6>1, <4>3
            <7>2. v # w
              BY <7>1, <4>2
            <7>3. QED
              BY <7>1, <7>2, <4>1
          <6>2. QED
            BY <6>1, <5>2, <4>1
        <5>3. QED
          BY <5>1, <5>2
      <4>6. \A v, u \in Workers : worker'[v] = worker'[u] /\ worker'[v] \in Sleepers => v = u
        BY <2>b, <3>2, <4>1, <4>2, <4>3
      <4>7. QED
        BY <4>4, <4>5, <4>6 DEF WorkersAreRight
    <3>3. QED
      BY <2>a, <3>1, <3>2
  <2>4. ThreadIsRight'
    BY SMTT(30), <2>a DEF ThreadIsRight
  <2>5. QED
    BY <2>1, <2>2, <2>3, <2>4
<1>2. CASE Clock!Wake(w)
  <2> USE <1>2 DEF Clock!Wake
  <2>1. ClockIsTyped'
    OBVIOUS
  <2>2. LinesAreRight'
    <3>1. UNCHANGED <<Clock!At("queued"), Clock!At("posted"), Inserting>>
      BY DEF Inserting
    <3>2. QED
      BY <3>1 DEF LinesAreRight
  <2>3. WorkersAreRight'
    BY DEF WorkersAreRight
  <2>4. ThreadIsRight'
    BY DEF ThreadIsRight
  <2>5. QED
    BY <2>1, <2>2, <2>3, <2>4
<1>3. ASSUME NEW s \in Sleepers, Clock!Emplace(w, s)
      PROVE  ClockIsRight'
  <2> USE <1>3 DEF Clock!Emplace
  <2>1. ClockIsTyped'
    OBVIOUS
  <2>2. LinesAreRight'
    <3>1. Clock!At("queued")' = Clock!At("queued") \union {s} /\ s \notin Clock!At("queued")
      OBVIOUS
    <3>2. Clock!At("posted")' = Clock!At("posted") /\ Inserting' = Inserting
      BY DEF Inserting
    <3>3. Enlists(queue', Clock!At("queued")')
      <4>1. place[s] # "queued" /\ queue' = Append(queue, s)
        OBVIOUS
      <4>2. Enlists(Append(queue, s), Clock!At("queued") \union {s})
        BY <4>1, Ends
      <4>3. QED
        BY <3>1, <4>1, <4>2, Zenon
    <3>4. QED
      BY <3>2, <3>3 DEF LinesAreRight
  <2>3. WorkersAreRight'
    BY DEF WorkersAreRight
  <2>4. ThreadIsRight'
    BY DEF ThreadIsRight
  <2>5. QED
    BY <2>1, <2>2, <2>3, <2>4
<1>4. ASSUME NEW s \in Sleepers, Clock!End(w, s)
      PROVE  ClockIsRight'
  <2> USE <1>4 DEF Clock!End
  <2>1. ClockIsTyped'
    OBVIOUS
  <2>2. LinesAreRight'
    <3>1. UNCHANGED <<Clock!At("queued"), Clock!At("posted"), Inserting>>
      BY DEF Inserting
    <3>2. QED
      BY <3>1 DEF LinesAreRight
  <2>3. WorkersAreRight'
    BY DEF WorkersAreRight
  <2>4. ThreadIsRight'
    BY DEF ThreadIsRight
  <2>5. QED
    BY <2>1, <2>2, <2>3, <2>4
<1>5. ASSUME NEW s \in Sleepers, NEW time \in Times, Clock!Count(w, s, time)
      PROVE  ClockIsRight'
  <2> USE <1>5 DEF Clock!Count
  <2>1. ClockIsTyped'
    OBVIOUS
  <2>2. LinesAreRight'
    <3>1. Clock!At("queued")' = Clock!At("queued") /\ Clock!At("posted")' = Clock!At("posted")
      OBVIOUS
    <3>2. Inserting' = Inserting \union {s} /\ s \notin Inserting
      BY DEF Inserting
    <3>3. size' = Cardinality(Inserting')
      BY <3>2, InsertingMoves
    <3>4. QED
      BY <3>1, <3>3 DEF LinesAreRight
  <2>3. WorkersAreRight'
    BY DEF WorkersAreRight
  <2>4. ThreadIsRight'
    BY DEF ThreadIsRight
  <2>5. QED
    BY <2>1, <2>2, <2>3, <2>4
<1>6. QED
  BY <1>1, <1>2, <1>3, <1>4, <1>5 DEF Clock!WorkerStep

\* The thread of the timer waits, empties the queue into the heap and posts what is due.
LEMMA ThreadKeeps ==
  ASSUME ClockIsRight, Clock!TimerAssumption,
         Clock!ThreadStep \/ Clock!WakeUp
  PROVE  ClockIsRight'
<1> USE DEF ClockIsRight, ClockIsTyped, Clock!Move, Clock!At, Clock!TimerAssumption, Places
<1>1. CASE Clock!Wait
  <2> USE <1>1 DEF Clock!Wait
  <2>1. ClockIsTyped'
    OBVIOUS
  <2>2. LinesAreRight'
    <3>1. UNCHANGED <<Clock!At("queued"), Clock!At("posted"), Inserting>>
      BY DEF Inserting
    <3>2. QED
      BY <3>1 DEF LinesAreRight
  <2>3. WorkersAreRight'
    BY DEF WorkersAreRight
  <2>4. ThreadIsRight'
    BY InsertingMoves DEF ThreadIsRight
  <2>5. QED
    BY <2>1, <2>2, <2>3, <2>4
<1>2. CASE Clock!WakeUp
  <2> USE <1>2 DEF Clock!WakeUp
  <2>1. ClockIsTyped'
    OBVIOUS
  <2>2. LinesAreRight'
    <3>1. UNCHANGED <<Clock!At("queued"), Clock!At("posted"), Inserting>>
      BY DEF Inserting
    <3>2. QED
      BY <3>1 DEF LinesAreRight
  <2>3. WorkersAreRight'
    BY DEF WorkersAreRight
  <2>4. ThreadIsRight'
    BY DEF ThreadIsRight
  <2>5. QED
    BY <2>1, <2>2, <2>3, <2>4
<1>3. CASE Clock!Check
  <2> USE <1>3 DEF Clock!Check
  <2>1. ClockIsTyped'
    OBVIOUS
  <2>2. LinesAreRight'
    <3>1. UNCHANGED <<Clock!At("queued"), Clock!At("posted"), Inserting>>
      BY DEF Inserting
    <3>2. QED
      BY <3>1 DEF LinesAreRight
  <2>3. WorkersAreRight'
    BY DEF WorkersAreRight
  <2>4. ThreadIsRight'
    BY DEF ThreadIsRight
  <2>5. QED
    BY <2>1, <2>2, <2>3, <2>4
<1>4. CASE Clock!Pop
  <2> USE <1>4 DEF Clock!Pop
  <2> DEFINE h == Head(queue)
  <2>a. h \in Sleepers /\ place[h] = "queued"
        /\ Tail(queue) \in Seq(Sleepers) /\ Enlists(Tail(queue), Clock!At("queued") \ {h})
    BY Fronts
  <2>1. ClockIsTyped'
    BY <2>a
  <2>2. LinesAreRight'
    <3>1. Clock!At("queued")' = Clock!At("queued") \ {h} /\ Clock!At("posted")' = Clock!At("posted")
      BY <2>a
    <3>2. Inserting' = Inserting
      BY <2>a DEF Inserting
    <3>3. QED
      BY <2>a, <3>1, <3>2 DEF LinesAreRight
  <2>3. WorkersAreRight'
    BY <2>a DEF WorkersAreRight
  <2>4. ThreadIsRight'
    BY <2>a DEF ThreadIsRight
  <2>5. QED
    BY <2>1, <2>2, <2>3, <2>4
<1>5. CASE Clock!Keep
  <2> USE <1>5 DEF Clock!Keep
  <2>a. PICK s \in Clock!At("popped") : Clock!Move(s, "heap")
    OBVIOUS
  <2>1. ClockIsTyped'
    BY <2>a
  <2>2. LinesAreRight'
    <3>1. Clock!At("queued")' = Clock!At("queued") /\ Clock!At("posted")' = Clock!At("posted")
      BY <2>a
    <3>2. Inserting' = Inserting \ {s} /\ s \in Inserting
      BY <2>a DEF Inserting
    <3>3. size' = Cardinality(Inserting')
      BY <3>2, InsertingMoves
    <3>4. QED
      BY <3>1, <3>3 DEF LinesAreRight
  <2>3. WorkersAreRight'
    BY <2>a DEF WorkersAreRight
  <2>4. ThreadIsRight'
    BY <2>a DEF ThreadIsRight
  <2>5. QED
    BY <2>1, <2>2, <2>3, <2>4
<1>6. CASE Clock!Read
  <2> USE <1>6 DEF Clock!Read
  <2>1. ClockIsTyped'
    OBVIOUS
  <2>2. LinesAreRight'
    <3>1. UNCHANGED <<Clock!At("queued"), Clock!At("posted"), Inserting>>
      BY DEF Inserting
    <3>2. QED
      BY <3>1 DEF LinesAreRight
  <2>3. WorkersAreRight'
    BY DEF WorkersAreRight
  <2>4. ThreadIsRight'
    <3> DEFINE later == {s \in Clock!At("heap") : rest[s] > 0}
    <3>1. \A s \in Sleepers : place'[s] = IF place[s] = "heap" /\ rest[s] = 0 THEN "due" ELSE place[s]
      OBVIOUS
    <3>2. \/ later = {} /\ wait' = Infinite
          \/ later # {} /\ wait' \in Nat
      OBVIOUS
    <3>3. Clock!At("heap")' = later
      BY <3>1
    <3>4. thread' = "post" /\ rest' = rest /\ Clock!At("popped")' = Clock!At("popped")
      BY <3>1
    <3>5. \A s \in Sleepers : place'[s] \in {"due", "posted", "running"} => rest[s] = 0
      BY <3>1 DEF ThreadIsRight
    <3>6. wait' = Infinite <=> Clock!At("heap")' = {}
      BY <3>2, <3>3
    <3>7. \A s, u \in Clock!At("popped")' : s = u
      BY <3>4 DEF ThreadIsRight
    <3>8. Clock!At("popped")' = {}
      BY <3>4 DEF ThreadIsRight
    <3>9. QED
      BY <3>4, <3>5, <3>6, <3>7, <3>8 DEF ThreadIsRight
  <2>5. QED
    BY <2>1, <2>2, <2>3, <2>4
<1>7. CASE Clock!Post
  <2> USE <1>7 DEF Clock!Post
  <2>a. \/ Clock!At("due") = {} /\ thread' = "wait" /\ UNCHANGED <<place, port>>
        \/ \E s \in Clock!At("due") :
             port' = Append(port, s) /\ Clock!Move(s, "posted") /\ UNCHANGED thread
    OBVIOUS
  <2>1. ClockIsTyped'
    <3>1. CASE UNCHANGED <<place, port>>
      BY <2>a, <3>1
    <3>2. ASSUME NEW s \in Clock!At("due"), port' = Append(port, s), Clock!Move(s, "posted"), UNCHANGED thread
          PROVE  ClockIsTyped'
      <4>1. s \in Sleepers /\ place[s] # "posted"
        OBVIOUS
      <4>2. port' \in Seq(Sleepers \union {Close})
        BY <3>2, <4>1, Ends
      <4>3. QED
        BY <3>2, <4>1, <4>2
    <3>3. QED
      BY <2>a, <3>1, <3>2
  <2>2. LinesAreRight'
    <3>1. CASE UNCHANGED <<place, port>>
      BY <3>1 DEF LinesAreRight, Inserting
    <3>2. ASSUME NEW s \in Clock!At("due"), port' = Append(port, s), Clock!Move(s, "posted")
          PROVE  LinesAreRight'
      <4>1. Clock!At("posted")' = Clock!At("posted") \union {s} /\ s \notin Clock!At("posted")
        BY <3>2
      <4>2. Clock!At("queued")' = Clock!At("queued") /\ Inserting' = Inserting
        BY <3>2 DEF Inserting
      <4>3. Enlists(port', Clock!At("posted")')
        <5>1. place[s] # "posted" /\ s \in Sleepers
          OBVIOUS
        <5>2. Enlists(Append(port, s), Clock!At("posted") \union {s})
          BY <5>1, Ends
        <5>3. QED
          BY <3>2, <4>1, <5>2
      <4>4. QED
        BY <4>2, <4>3 DEF LinesAreRight
    <3>3. QED
      BY <2>a, <3>1, <3>2
  <2>3. WorkersAreRight'
    BY <2>a DEF WorkersAreRight
  <2>4. ThreadIsRight'
    BY <2>a DEF ThreadIsRight
  <2>5. QED
    BY <2>1, <2>2, <2>3, <2>4
<1>8. QED
  BY <1>1, <1>2, <1>3, <1>4, <1>5, <1>6, <1>7 DEF Clock!ThreadStep, Clock!Timeout

\* Time passes, and the program destructs the timer and the scheduler.
LEMMA OutsideKeeps ==
  ASSUME ClockIsRight, Clock!TimerAssumption,
         Clock!Elapse \/ Clock!DestructTimer \/ Clock!MainStep
  PROVE  ClockIsRight'
<1> USE DEF ClockIsRight, ClockIsTyped, Clock!Move, Clock!At, Clock!TimerAssumption, Places
<1>1. CASE Clock!Elapse
  <2> USE <1>1 DEF Clock!Elapse, Clock!Less
  <2>1. ClockIsTyped'
    OBVIOUS
  <2>2. LinesAreRight'
    <3>1. UNCHANGED <<Clock!At("queued"), Clock!At("posted"), Inserting>>
      BY DEF Inserting
    <3>2. QED
      BY <3>1 DEF LinesAreRight
  <2>3. WorkersAreRight'
    BY DEF WorkersAreRight
  <2>4. ThreadIsRight'
    BY DEF ThreadIsRight
  <2>5. QED
    BY <2>1, <2>2, <2>3, <2>4
<1>2. CASE Clock!DestructTimer
  <2> USE <1>2 DEF Clock!DestructTimer
  <2>1. ClockIsTyped'
    OBVIOUS
  <2>2. LinesAreRight'
    <3>1. UNCHANGED <<Clock!At("queued"), Clock!At("posted"), Inserting>>
      BY DEF Inserting
    <3>2. QED
      BY <3>1 DEF LinesAreRight
  <2>3. WorkersAreRight'
    BY DEF WorkersAreRight
  <2>4. ThreadIsRight'
    BY DEF ThreadIsRight
  <2>5. QED
    BY <2>1, <2>2, <2>3, <2>4
<1>3. CASE Clock!WakeAll
  <2> USE <1>3 DEF Clock!WakeAll
  <2>1. ClockIsTyped'
    OBVIOUS
  <2>2. LinesAreRight'
    <3>1. UNCHANGED <<Clock!At("queued"), Clock!At("posted"), Inserting>>
      BY DEF Inserting
    <3>2. QED
      BY <3>1 DEF LinesAreRight
  <2>3. WorkersAreRight'
    BY DEF WorkersAreRight
  <2>4. ThreadIsRight'
    BY DEF ThreadIsRight
  <2>5. QED
    BY <2>1, <2>2, <2>3, <2>4
<1>4. CASE Clock!DestructScheduler
  <2> USE <1>4 DEF Clock!DestructScheduler
  <2>a. port' \in Seq(Sleepers \union {Close}) /\ Enlists(port', Clock!At("posted"))
    <3>1. Clock!Cardinality(Workers) \in Nat
      BY FS_CardinalityType, SameCardinality
    <3>2. Close \in Sleepers \union {Close}
      OBVIOUS
    <3>3. QED
      BY <3>1, <3>2, EnlistsClose DEF LinesAreRight
  <2>1. ClockIsTyped'
    BY <2>a
  <2>2. LinesAreRight'
    <3>1. UNCHANGED <<Clock!At("queued"), Clock!At("posted"), Inserting>>
      BY DEF Inserting
    <3>2. QED
      BY <2>a, <3>1 DEF LinesAreRight
  <2>3. WorkersAreRight'
    BY DEF WorkersAreRight
  <2>4. ThreadIsRight'
    BY DEF ThreadIsRight
  <2>5. QED
    BY <2>1, <2>2, <2>3, <2>4
<1>5. CASE Clock!Join
  <2> USE <1>5 DEF Clock!Join
  <2>1. ClockIsTyped'
    OBVIOUS
  <2>2. LinesAreRight'
    <3>1. UNCHANGED <<Clock!At("queued"), Clock!At("posted"), Inserting>>
      BY DEF Inserting
    <3>2. QED
      BY <3>1 DEF LinesAreRight
  <2>3. WorkersAreRight'
    BY DEF WorkersAreRight
  <2>4. ThreadIsRight'
    BY DEF ThreadIsRight
  <2>5. QED
    BY <2>1, <2>2, <2>3, <2>4
<1>6. QED
  BY <1>1, <1>2, <1>3, <1>4, <1>5 DEF Clock!MainStep

\* Every sleeper runs from a packet on the port, and the timer has nobody.
LEMMA ClockInit ==
  ASSUME Clock!Init, Clock!TimerAssumption
  PROVE  ClockIsRight
<1> DEFINE n == Cardinality(Sleepers)
           f == CHOOSE g \in [1 .. n -> Sleepers] : Clock!IsInjective(g)
<1>1. IsFiniteSet(Sleepers) /\ n \in Nat /\ ExistsBijection(1 .. n, Sleepers)
  BY FS_CardinalityType, SameCardinality DEF Clock!TimerAssumption
<1>2. \E g \in [1 .. n -> Sleepers] : Clock!IsInjective(g)
  BY <1>1 DEF ExistsBijection, Bijection, Injection, IsInjective, Clock!IsInjective
<1>3. f \in [1 .. n -> Sleepers] /\ Clock!IsInjective(f)
  BY <1>2
<1>4. port = f
  BY SameCardinality DEF Clock!Init, Clock!SetToSeq
<1> HIDE DEF f
<1>5. {f[i] : i \in 1 .. n} = Sleepers
  <2> DEFINE R == {f[i] : i \in 1 .. n}
  <2>1. f \in Bijection(1 .. n, R)
    BY <1>3 DEF Bijection, Injection, Surjection, IsInjective, Clock!IsInjective
  <2>2. IsFiniteSet(1 .. n) /\ Cardinality(1 .. n) = n
    BY <1>1, FS_Interval
  <2>3. Cardinality(R) = n
    BY <2>1, <2>2, FS_Bijection DEF ExistsBijection
  <2>4. R \subseteq Sleepers
    BY <1>3
  <2>5. QED
    BY <1>1, <2>3, <2>4, FS_Subset
<1> HIDE DEF n
<1>6. Enlists(port, Sleepers) /\ port \in Seq(Sleepers \union {Close})
  BY <1>1, <1>3, <1>4, <1>5 DEF Enlists, Clock!IsInjective
<1>7. Clock!At("posted") = Sleepers /\ Clock!At("queued") = {} /\ Inserting = {}
  BY DEF Clock!Init, Clock!At, Inserting
<1>8. LinesAreRight
  BY <1>6, <1>7, FS_EmptySet DEF LinesAreRight, Enlists, Clock!Init
<1>9. ClockIsTyped
  <2>1. place \in [Sleepers -> Places] /\ rest \in [Sleepers -> Nat]
    BY DEF Clock!Init, Places
  <2>2. queue = <<>> /\ closing = FALSE /\ wait = Infinite /\ thread = "wait"
    BY DEF Clock!Init
  <2>3. worker \in [Workers -> Sleepers \union {Idle, Waking, Gone}]
    BY DEF Clock!Init
  <2>4. queue \in Seq(Sleepers)
    BY <2>2
  <2>5. closing \in BOOLEAN
    BY <2>2
  <2>6. wait \in Nat \union {Infinite}
    BY <2>2
  <2>7. QED
    BY <1>6, <2>1, <2>2, <2>3, <2>4, <2>5, <2>6 DEF ClockIsTyped
<1>10. WorkersAreRight
  BY DEF Clock!Init, WorkersAreRight, Clock!TimerAssumption
<1>11. ThreadIsRight
  BY DEF Clock!Init, ThreadIsRight, Clock!At
<1>12. QED
  BY <1>8, <1>9, <1>10, <1>11 DEF ClockIsRight

\* Every sleeper is at one place, and the timer wakes in time.
LEMMA ClockImplies ==
  ASSUME ClockIsRight, Clock!TimerAssumption
  PROVE  Clock!SleepersAreKept
<1> USE DEF ClockIsRight, ClockIsTyped, Clock!At, Clock!TimerAssumption
<1>a. DOMAIN queue = 1 .. Len(queue) /\ DOMAIN port = 1 .. Len(port)
  OBVIOUS
<1>b. \A i \in 1 .. Len(queue) : queue[i] \in Sleepers /\ queue[i] # Close
  OBVIOUS
<1>1. Clock!IsInjective(queue) /\ Clock!ToSet(queue) = Clock!At("queued")
  <2>1. \A i, j \in 1 .. Len(queue) : queue[i] = queue[j] => i = j
    BY <1>b DEF LinesAreRight, Enlists
  <2>2. \A s \in Sleepers : place[s] = "queued" <=> \E i \in 1 .. Len(queue) : queue[i] = s
    BY <1>b DEF LinesAreRight, Enlists
  <2>3. Clock!IsInjective(queue)
    BY <1>a, <2>1 DEF Clock!IsInjective
  <2>4. Clock!ToSet(queue) = Clock!At("queued")
    <3>1. Clock!ToSet(queue) = {queue[i] : i \in 1 .. Len(queue)}
      BY <1>a DEF Clock!ToSet
    <3>2. {queue[i] : i \in 1 .. Len(queue)} \subseteq Clock!At("queued")
      BY <1>b, <2>2
    <3>3. Clock!At("queued") \subseteq {queue[i] : i \in 1 .. Len(queue)}
      BY <2>2
    <3>4. QED
      BY <3>1, <3>2, <3>3
  <2>5. QED
    BY <2>3, <2>4
<1>2. /\ \A i, j \in DOMAIN port : port[i] = port[j] /\ i # j => port[i] = Close
      /\ Clock!ToSet(port) \ {Close} = Clock!At("posted")
  BY SMTT(30), <1>a DEF LinesAreRight, Enlists, Clock!ToSet
<1>3. size = Clock!Cardinality(Clock!At("counted") \union Clock!At("queued") \union Clock!At("popped"))
  <2>1. Clock!At("counted") \union Clock!At("queued") \union Clock!At("popped") = Inserting
    BY DEF Inserting
  <2>2. QED
    BY <2>1, SameCardinality DEF LinesAreRight
<1>4. ASSUME NEW s \in Sleepers
      PROVE  /\ Clock!Cardinality({w \in Workers : worker[w] = s})
                  = (IF place[s] \in {"running", "counted"} THEN 1 ELSE 0)
             /\ place[s] \in {"due", "posted", "running"} => rest[s] = 0
  <2> DEFINE W == {w \in Workers : worker[w] = s}
  <2>1. CASE place[s] \in {"running", "counted"}
    <3>0. PICK w \in Workers : worker[w] = s
      BY <2>1 DEF WorkersAreRight
    <3>1. W = {w}
      BY <3>0 DEF WorkersAreRight
    <3>2. Clock!Cardinality(W) = 1
      BY <3>1, FS_Singleton, SameCardinality
    <3>3. QED
      BY <2>1, <3>2 DEF ThreadIsRight
  <2>2. CASE place[s] \notin {"running", "counted"}
    <3>1. W = {}
      BY <2>2 DEF WorkersAreRight
    <3>2. Clock!Cardinality(W) = 0
      BY <3>1, FS_EmptySet, SameCardinality
    <3>3. QED
      BY <2>2, <3>2 DEF ThreadIsRight
  <2>3. QED
    BY <2>1, <2>2
<1>5. thread = "asleep" =>
        /\ queue # <<>> => \E w \in Workers : worker[w] = Waking
        /\ Clock!At("popped") \union Clock!At("due") = {}
        /\ wait = Infinite <=> Clock!At("heap") = {}
        /\ closing => destruct = "closing"
  BY DEF ThreadIsRight
<1>6. QED
  BY <1>1, <1>2, <1>3, <1>4, <1>5 DEF Clock!SleepersAreKept

-----------------------------------------------------------------------------
(* The echo client.  The echoes in a mailbox are the oldest numbers of the  *)
(* round, also when the session has ended or the dummy is destroyed; while  *)
(* the session is open the others of the round follow on the way.           *)

States == {"absent", "disconnect", "connect", "interact", "error", "deleted"}

EchoIsTyped ==
  /\ state \in [Dummies -> States] /\ destroyed \subseteq Dummies
  /\ held \subseteq Dummies /\ connecting \subseteq Dummies
  /\ mails \in [Dummies -> Seq(Values \union {Tick, Ended})] /\ expected \in [Dummies -> Seq(Values)]
  /\ session \in [Dummies -> {"none", "open", "ended"}]
  /\ toServer \in [Dummies -> Seq(Values)] /\ toClient \in [Dummies -> Seq(Values)]
  /\ stopped \in BOOLEAN

\* A dummy without a session has only ticks in its mailbox.
SessionIsRight(d) ==
  /\ state[d] \in {"absent", "disconnect", "error"} => session[d] = "none"
  /\ state[d] \in {"connect", "interact"} => session[d] # "none"
  /\ session[d] # "open" => toClient[d] = <<>> /\ toServer[d] = <<>>
  /\ session[d] = "none" => expected[d] = <<>> /\ \A i \in 1 .. Len(mails[d]) : mails[d][i] = Tick
  /\ session[d] # "ended" => \A i \in 1 .. Len(mails[d]) : mails[d][i] # Ended
  /\ d \in connecting => state[d] = "disconnect"

\* The echoes that lie in its mailbox.
Received(d) == EchoesIn(mails[d], Len(mails[d]))

\* The numbers that follow those in the mailbox are in the answers and in the requests.
OnTheWay(d) ==
  /\ Len(expected[d]) = Received(d) + Len(toClient[d]) + Len(toServer[d])
  /\ \A i \in 1 .. Len(toClient[d]) : toClient[d][i] = expected[d][Received(d) + i]
  /\ \A i \in 1 .. Len(toServer[d]) : toServer[d][i] = expected[d][Received(d) + Len(toClient[d]) + i]

DummyIsRight(d) ==
  /\ SessionIsRight(d)
  /\ AreOldest(mails[d], expected[d])
  /\ state[d] = "connect" => expected[d] = <<>>
  /\ d \in Living \ destroyed /\ session[d] = "open" => OnTheWay(d)

EchoIsKept ==
  /\ EchoIsTyped
  /\ \A d \in Dummies : DummyIsRight(d)
  /\ stopped => \E d \in Living : session[d] = "ended"

\* How many are echoes, one mail after the other.
LEMMA EchoesNone ==
  ASSUME NEW box
  PROVE  EchoesIn(box, 0) = 0
<1>1. {i \in 1 .. 0 : box[i] \in Values} = {}
  OBVIOUS
<1>2. Cardinality({}) = 0
  BY FS_EmptySet
<1>3. QED
  BY <1>1, <1>2 DEF EchoesIn

LEMMA EchoesNext ==
  ASSUME NEW box, NEW n \in Nat
  PROVE  /\ EchoesIn(box, n) \in Nat
         /\ box[n + 1] \in Values => EchoesIn(box, n + 1) = EchoesIn(box, n) + 1
         /\ box[n + 1] \notin Values => EchoesIn(box, n + 1) = EchoesIn(box, n)
<1> DEFINE E(k) == {i \in 1 .. k : box[i] \in Values}
<1>1. IsFiniteSet(1 .. n)
  BY FS_Interval
<1>2. IsFiniteSet(E(n))
  BY <1>1, FS_Subset
<1>3. Cardinality(E(n)) \in Nat
  BY <1>2, FS_CardinalityType
<1>4. /\ box[n + 1] \in Values => E(n + 1) = E(n) \union {n + 1}
      /\ box[n + 1] \notin Values => E(n + 1) = E(n)
  OBVIOUS
<1>5. n + 1 \notin E(n)
  OBVIOUS
<1>6. Cardinality(E(n) \union {n + 1}) = Cardinality(E(n)) + 1
  BY <1>2, <1>5, FS_AddElement
<1>7. EchoesIn(box, n) = Cardinality(E(n)) /\ EchoesIn(box, n + 1) = Cardinality(E(n + 1))
  BY DEF EchoesIn
<1> HIDE DEF E
<1>8. QED
  BY <1>3, <1>4, <1>6, <1>7

\* The count of the first mails depends only on these.
LEMMA EchoesSame ==
  ASSUME NEW box, NEW other, NEW n \in Nat, \A i \in 1 .. n : box[i] = other[i]
  PROVE  EchoesIn(box, n) = EchoesIn(other, n)
<1>1. {i \in 1 .. n : box[i] \in Values} = {i \in 1 .. n : other[i] \in Values}
  OBVIOUS
<1>2. QED
  BY <1>1 DEF EchoesIn

\* Further on there are no fewer.
LEMMA EchoesGrow ==
  ASSUME NEW box, NEW m \in Nat, NEW n \in Nat, m <= n
  PROVE  EchoesIn(box, m) <= EchoesIn(box, n)
<1>1. IsFiniteSet(1 .. n)
  BY FS_Interval
<1>2. IsFiniteSet({i \in 1 .. n : box[i] \in Values})
  BY <1>1, FS_Subset
<1>3. {i \in 1 .. m : box[i] \in Values} \subseteq {i \in 1 .. n : box[i] \in Values}
  OBVIOUS
<1>4. QED
  BY <1>2, <1>3, FS_Subset DEF EchoesIn

\* Without its first mail, a box has as many echoes as before but that one.
LEMMA EchoesShift ==
  ASSUME NEW box, NEW other, NEW n \in Nat, \A i \in 1 .. n : other[i] = box[i + 1]
  PROVE  /\ EchoesIn(other, n) \in Nat
         /\ box[1] \in Values => EchoesIn(box, n + 1) = EchoesIn(other, n) + 1
         /\ box[1] \notin Values => EchoesIn(box, n + 1) = EchoesIn(other, n)
<1> DEFINE S == {i \in 1 .. n : other[i] \in Values}
           T == {i \in 1 .. n + 1 : box[i] \in Values}
           U == T \ {1}
           f == [i \in S |-> i + 1]
<1>1. IsFiniteSet(1 .. n) /\ IsFiniteSet(1 .. n + 1)
  BY FS_Interval
<1>2. IsFiniteSet(S) /\ IsFiniteSet(T)
  BY <1>1, FS_Subset
<1>3. \A k \in U : k - 1 \in S /\ f[k - 1] = k
  <2>1. ASSUME NEW k \in U
        PROVE  k - 1 \in S /\ f[k - 1] = k
    <3>1. k - 1 \in 1 .. n /\ (k - 1) + 1 = k /\ box[k] \in Values
      OBVIOUS
    <3>2. k - 1 \in S
      BY <3>1
    <3>3. QED
      BY <3>1, <3>2
  <2>2. QED
    BY <2>1
<1>4. \A i \in S : f[i] \in U
  OBVIOUS
<1>5. f \in Surjection(S, U)
  <2>1. f \in [S -> U]
    BY <1>4
  <2>2. \A k \in U : \E i \in S : f[i] = k
    BY <1>3
  <2>3. QED
    BY <2>1, <2>2 DEF Surjection
<1>6. f \in Injection(S, U)
  <2>1. f \in [S -> U] /\ \A i, j \in S : f[i] = f[j] => i = j
    BY <1>4
  <2>2. QED
    BY <2>1 DEF Injection, IsInjective
<1>7. Cardinality(U) = Cardinality(S)
  BY <1>2, <1>5, <1>6, FS_Surjection
<1>8. /\ 1 \in T => Cardinality(U) = Cardinality(T) - 1
      /\ 1 \notin T => Cardinality(U) = Cardinality(T)
  BY <1>2, FS_RemoveElement
<1>9. Cardinality(S) \in Nat /\ Cardinality(T) \in Nat
  BY <1>2, FS_CardinalityType
<1>10. 1 \in T <=> box[1] \in Values
  OBVIOUS
<1>11. EchoesIn(other, n) = Cardinality(S) /\ EchoesIn(box, n + 1) = Cardinality(T)
  BY DEF EchoesIn
<1> HIDE DEF S, T, U, f
<1>12. QED
  BY <1>7, <1>8, <1>9, <1>10, <1>11

\* A mail that is no echo at the end of a box.
LEMMA OtherAtEnd ==
  ASSUME NEW M, NEW box \in Seq(M), NEW numbers, Len(numbers) \in Nat, NEW mail \in M, mail \notin Values,
         AreOldest(box, numbers)
  PROVE  /\ AreOldest(Append(box, mail), numbers)
         /\ EchoesIn(Append(box, mail), Len(Append(box, mail))) = EchoesIn(box, Len(box))
<1>1. PICK longer : longer = Append(box, mail)
  OBVIOUS
<1>2. /\ Len(longer) = Len(box) + 1 /\ longer[Len(box) + 1] = mail /\ Len(box) \in Nat
      /\ \A i \in 1 .. Len(box) : longer[i] = box[i]
  BY <1>1
<1>3. \A n \in 0 .. Len(box) : EchoesIn(longer, n) = EchoesIn(box, n)
  <2>1. ASSUME NEW n \in 0 .. Len(box)
        PROVE  EchoesIn(longer, n) = EchoesIn(box, n)
    <3>1. n \in Nat /\ \A i \in 1 .. n : longer[i] = box[i]
      BY <1>2
    <3>2. QED
      BY <3>1, EchoesSame
  <2>2. QED
    BY <2>1
<1>4. EchoesIn(longer, Len(longer)) = EchoesIn(box, Len(box))
  <2>1. EchoesIn(longer, Len(box) + 1) = EchoesIn(longer, Len(box))
    BY <1>2, EchoesNext
  <2>2. QED
    BY <1>2, <1>3, <2>1
<1>5. ASSUME NEW i \in 1 .. Len(longer), longer[i] \in Values
      PROVE  longer[i] = numbers[EchoesIn(longer, i)]
  <2>1. i \in 1 .. Len(box)
    BY <1>2, <1>5
  <2>2. longer[i] = box[i] /\ EchoesIn(longer, i) = EchoesIn(box, i)
    BY <1>2, <1>3, <2>1
  <2>3. QED
    BY <1>5, <2>1, <2>2 DEF AreOldest
<1>6. AreOldest(longer, numbers)
  BY <1>4, <1>5 DEF AreOldest
<1>7. QED
  BY <1>1, <1>4, <1>6

\* The next echo at the end of a box.
LEMMA EchoAtEnd ==
  ASSUME NEW M, NEW box \in Seq(M), NEW numbers, Len(numbers) \in Nat, NEW mail \in M, mail \in Values,
         AreOldest(box, numbers),
         EchoesIn(box, Len(box)) < Len(numbers), mail = numbers[EchoesIn(box, Len(box)) + 1]
  PROVE  /\ AreOldest(Append(box, mail), numbers)
         /\ EchoesIn(Append(box, mail), Len(Append(box, mail))) = EchoesIn(box, Len(box)) + 1
<1>1. PICK longer : longer = Append(box, mail)
  OBVIOUS
<1>2. /\ Len(longer) = Len(box) + 1 /\ longer[Len(box) + 1] = mail /\ Len(box) \in Nat
      /\ \A i \in 1 .. Len(box) : longer[i] = box[i]
  BY <1>1
<1>3. \A n \in 0 .. Len(box) : EchoesIn(longer, n) = EchoesIn(box, n)
  <2>1. ASSUME NEW n \in 0 .. Len(box)
        PROVE  EchoesIn(longer, n) = EchoesIn(box, n)
    <3>1. n \in Nat /\ \A i \in 1 .. n : longer[i] = box[i]
      BY <1>2
    <3>2. QED
      BY <3>1, EchoesSame
  <2>2. QED
    BY <2>1
<1>4. EchoesIn(longer, Len(longer)) = EchoesIn(box, Len(box)) + 1
  <2>1. EchoesIn(longer, Len(box) + 1) = EchoesIn(longer, Len(box)) + 1
    BY <1>2, EchoesNext
  <2>2. QED
    BY <1>2, <1>3, <2>1
<1>5. ASSUME NEW i \in 1 .. Len(longer), longer[i] \in Values
      PROVE  longer[i] = numbers[EchoesIn(longer, i)]
  <2>1. CASE i \in 1 .. Len(box)
    <3>1. longer[i] = box[i] /\ EchoesIn(longer, i) = EchoesIn(box, i)
      BY <1>2, <1>3, <2>1
    <3>2. QED
      BY <1>5, <2>1, <3>1 DEF AreOldest
  <2>2. CASE i = Len(box) + 1
    BY <1>2, <1>4, <2>2
  <2>3. QED
    BY <1>2, <2>1, <2>2
<1>6. EchoesIn(longer, Len(longer)) <= Len(numbers)
  <2>1. EchoesIn(box, Len(box)) \in Nat
    BY <1>2, EchoesNext
  <2>2. QED
    BY <1>4, <2>1
<1>7. AreOldest(longer, numbers)
  BY <1>5, <1>6 DEF AreOldest
<1>8. QED
  BY <1>1, <1>4, <1>7

\* A mail that is no echo is taken from the front of a box.
LEMMA OtherTaken ==
  ASSUME NEW M, NEW box \in Seq(M), box # <<>>, NEW numbers, Len(numbers) \in Nat, Head(box) \notin Values,
         AreOldest(box, numbers)
  PROVE  /\ AreOldest(Tail(box), numbers)
         /\ EchoesIn(Tail(box), Len(Tail(box))) = EchoesIn(box, Len(box))
<1>1. PICK shorter : shorter = Tail(box)
  OBVIOUS
<1>2. /\ Len(box) \in Nat /\ Len(box) >= 1 /\ Len(shorter) = Len(box) - 1 /\ Len(shorter) \in Nat
      /\ box[1] \notin Values /\ \A i \in 1 .. Len(shorter) : shorter[i] = box[i + 1]
  <2>1. Len(box) \in Nat /\ Len(box) >= 1 /\ box[1] = Head(box)
    OBVIOUS
  <2>2. Len(shorter) = Len(box) - 1 /\ \A i \in 1 .. Len(shorter) : shorter[i] = box[i + 1]
    BY <1>1, HeadTailProperties
  <2>3. QED
    BY <2>1, <2>2
<1>3. ASSUME NEW n \in 0 .. Len(shorter)
      PROVE  EchoesIn(shorter, n) = EchoesIn(box, n + 1)
  <2>1. n \in Nat /\ \A i \in 1 .. n : shorter[i] = box[i + 1]
    BY <1>2
  <2>2. EchoesIn(shorter, n) \in Nat /\ (box[1] \notin Values => EchoesIn(box, n + 1) = EchoesIn(shorter, n))
    BY <2>1, EchoesShift
  <2>3. QED
    BY <1>2, <2>2
<1>4. EchoesIn(shorter, Len(shorter)) = EchoesIn(box, Len(box))
  BY <1>2, <1>3
<1>5. ASSUME NEW i \in 1 .. Len(shorter), shorter[i] \in Values
      PROVE  shorter[i] = numbers[EchoesIn(shorter, i)]
  <2>1. shorter[i] = box[i + 1] /\ i + 1 \in 1 .. Len(box) /\ EchoesIn(shorter, i) = EchoesIn(box, i + 1)
    BY <1>2, <1>3
  <2>2. QED
    BY <1>5, <2>1 DEF AreOldest
<1>6. AreOldest(shorter, numbers)
  BY <1>4, <1>5 DEF AreOldest
<1>7. QED
  BY <1>1, <1>4, <1>6

\* An echo is taken from the front of a box and is the oldest number.
LEMMA EchoTaken ==
  ASSUME NEW M, NEW box \in Seq(M), box # <<>>, NEW N, NEW numbers \in Seq(N), Head(box) \in Values,
         AreOldest(box, numbers)
  PROVE  /\ numbers # <<>> /\ Head(box) = Head(numbers)
         /\ AreOldest(Tail(box), Tail(numbers))
         /\ EchoesIn(box, Len(box)) = EchoesIn(Tail(box), Len(Tail(box))) + 1
<1>1. PICK shorter : shorter = Tail(box)
  OBVIOUS
<1>2. /\ Len(box) \in Nat /\ Len(box) >= 1 /\ Len(shorter) = Len(box) - 1 /\ Len(shorter) \in Nat
      /\ box[1] = Head(box) /\ \A i \in 1 .. Len(shorter) : shorter[i] = box[i + 1]
  <2>1. Len(box) \in Nat /\ Len(box) >= 1 /\ box[1] = Head(box)
    OBVIOUS
  <2>2. Len(shorter) = Len(box) - 1 /\ \A i \in 1 .. Len(shorter) : shorter[i] = box[i + 1]
    BY <1>1, HeadTailProperties
  <2>3. QED
    BY <2>1, <2>2
<1>3. ASSUME NEW n \in 0 .. Len(shorter)
      PROVE  EchoesIn(box, n + 1) = EchoesIn(shorter, n) + 1 /\ EchoesIn(shorter, n) \in Nat
  <2>1. n \in Nat /\ \A i \in 1 .. n : shorter[i] = box[i + 1]
    BY <1>2
  <2>2. EchoesIn(shorter, n) \in Nat /\ (box[1] \in Values => EchoesIn(box, n + 1) = EchoesIn(shorter, n) + 1)
    BY <2>1, EchoesShift
  <2>3. QED
    BY <1>2, <2>2
<1>4. EchoesIn(box, Len(box)) = EchoesIn(shorter, Len(shorter)) + 1 /\ EchoesIn(shorter, Len(shorter)) \in Nat
  BY <1>2, <1>3
<1>5. Len(numbers) \in Nat /\ Len(numbers) >= EchoesIn(shorter, Len(shorter)) + 1
  BY <1>4 DEF AreOldest
<1>6. numbers # <<>> /\ Len(numbers) >= 1
  BY <1>4, <1>5
<1>7. EchoesIn(box, 1) = 1
  <2>1. 0 \in Nat /\ 0 + 1 = 1
    OBVIOUS
  <2>2. EchoesIn(box, 0 + 1) = EchoesIn(box, 0) + 1
    BY <1>2, <2>1, EchoesNext
  <2>3. QED
    BY <2>1, <2>2, EchoesNone
<1>8. Head(box) = Head(numbers)
  <2>1. 1 \in 1 .. Len(box)
    BY <1>2
  <2>2. box[1] = numbers[1]
    BY <1>2, <1>7, <2>1 DEF AreOldest
  <2>3. QED
    BY <1>2, <1>6, <2>2
<1>9. /\ Len(Tail(numbers)) = Len(numbers) - 1
      /\ \A i \in 1 .. Len(numbers) - 1 : Tail(numbers)[i] = numbers[i + 1]
  <2>1. Len(Tail(numbers)) = Len(numbers) - 1 /\ \A i \in 1 .. Len(Tail(numbers)) : Tail(numbers)[i] = numbers[i + 1]
    BY <1>6, HeadTailProperties
  <2>2. QED
    BY <2>1
<1>10. ASSUME NEW i \in 1 .. Len(shorter), shorter[i] \in Values
       PROVE  shorter[i] = Tail(numbers)[EchoesIn(shorter, i)]
  <2>1. /\ shorter[i] = box[i + 1] /\ i + 1 \in 1 .. Len(box)
        /\ EchoesIn(box, i + 1) = EchoesIn(shorter, i) + 1 /\ EchoesIn(shorter, i) \in Nat
    BY <1>2, <1>3
  <2>2. shorter[i] = numbers[EchoesIn(shorter, i) + 1]
    BY <1>10, <2>1 DEF AreOldest
  <2>3. EchoesIn(shorter, i) <= EchoesIn(shorter, Len(shorter))
    BY <1>2, EchoesGrow
  <2>4. EchoesIn(shorter, i) >= 1
    <3>1. i - 1 \in Nat /\ (i - 1) + 1 = i
      OBVIOUS
    <3>2. shorter[(i - 1) + 1] \in Values
      BY <1>10, <3>1
    <3>3. EchoesIn(shorter, (i - 1) + 1) = EchoesIn(shorter, i - 1) + 1 /\ EchoesIn(shorter, i - 1) \in Nat
      BY <3>1, <3>2, EchoesNext
    <3>4. QED
      BY <3>1, <3>3
  <2>5. EchoesIn(shorter, i) \in 1 .. Len(numbers) - 1
    BY <1>4, <1>5, <2>1, <2>3, <2>4
  <2>6. QED
    BY <1>9, <2>2, <2>5
<1>11. AreOldest(shorter, Tail(numbers))
  <2>1. EchoesIn(shorter, Len(shorter)) <= Len(Tail(numbers))
    BY <1>4, <1>5, <1>9
  <2>2. QED
    BY <1>10, <2>1 DEF AreOldest
<1>12. QED
  BY <1>1, <1>4, <1>6, <1>8, <1>11

\* A box holds no echo of no numbers, and then it is right for any.
LEMMA OldestOfNone ==
  ASSUME NEW M, NEW box \in Seq(M), AreOldest(box, <<>>)
  PROVE  /\ EchoesIn(box, Len(box)) = 0
         /\ \A i \in 1 .. Len(box) : box[i] \notin Values
<1>1. Len(box) \in Nat
  OBVIOUS
<1>2. EchoesIn(box, Len(box)) \in Nat
  BY <1>1, EchoesNext
<1>3. EchoesIn(box, Len(box)) <= 0
  BY DEF AreOldest
<1>4. EchoesIn(box, Len(box)) = 0
  BY <1>2, <1>3
<1>5. ASSUME NEW i \in 1 .. Len(box), box[i] \in Values
      PROVE  FALSE
  <2>1. i - 1 \in Nat /\ i \in Nat /\ (i - 1) + 1 = i /\ i <= Len(box)
    BY <1>1
  <2>2. EchoesIn(box, i) = EchoesIn(box, i - 1) + 1 /\ EchoesIn(box, i - 1) \in Nat
    <3>1. box[(i - 1) + 1] \in Values
      BY <1>5, <2>1
    <3>2. EchoesIn(box, (i - 1) + 1) = EchoesIn(box, i - 1) + 1 /\ EchoesIn(box, i - 1) \in Nat
      BY <2>1, <3>1, EchoesNext
    <3>3. QED
      BY <2>1, <3>2
  <2>3. EchoesIn(box, i) <= EchoesIn(box, Len(box))
    BY <1>1, <2>1, EchoesGrow
  <2>4. QED
    BY <1>4, <2>2, <2>3
<1>6. QED
  BY <1>4, <1>5

\* A box without echoes is right for any numbers.
LEMMA NoneIsOldest ==
  ASSUME NEW box, NEW numbers, Len(numbers) \in Nat,
         EchoesIn(box, Len(box)) = 0, \A i \in 1 .. Len(box) : box[i] \notin Values
  PROVE  AreOldest(box, numbers)
BY DEF AreOldest

\* An empty box is right for any numbers.
LEMMA EmptyIsOldest ==
  ASSUME NEW numbers, Len(numbers) \in Nat
  PROVE  AreOldest(<<>>, numbers)
<1>1. EchoesIn(<<>>, 0) = 0
  BY EchoesNone
<1>2. Len(<<>>) = 0
  OBVIOUS
<1>3. QED
  BY <1>1, <1>2, NoneIsOldest

\* The number of echoes in a mailbox is a number.
LEMMA ReceivedIsNat ==
  ASSUME EchoIsTyped, NEW d \in Dummies
  PROVE  Received(d) \in Nat
<1>1. Len(mails[d]) \in Nat
  BY DEF EchoIsTyped
<1>2. QED
  BY <1>1, EchoesNext DEF Received

\* A dummy the step does not touch stays right.
LEMMA DummyStays ==
  ASSUME NEW d \in Dummies, DummyIsRight(d),
         state'[d] = state[d], mails'[d] = mails[d], expected'[d] = expected[d], session'[d] = session[d],
         toServer'[d] = toServer[d], toClient'[d] = toClient[d],
         d \in connecting' => d \in connecting, d \in destroyed => d \in destroyed'
  PROVE  DummyIsRight(d)'
<1>1. SessionIsRight(d)'
  BY DEF DummyIsRight, SessionIsRight
<1>2. AreOldest(mails'[d], expected'[d]) /\ (state'[d] = "connect" => expected'[d] = <<>>)
  BY DEF DummyIsRight
<1>3. d \in Living' \ destroyed' => d \in Living \ destroyed
  BY DEF Living
<1>4. Received(d)' = Received(d)
  BY DEF Received
<1>5. OnTheWay(d) => OnTheWay(d)'
  BY <1>4 DEF OnTheWay
<1>6. QED
  BY <1>1, <1>2, <1>3, <1>5 DEF DummyIsRight

\* What has to be shown of a step of one dummy.
LEMMA DummySteps ==
  ASSUME EchoIsKept, ~stopped, EchoIsTyped', NEW d \in Dummies, DummyIsRight(d)',
         stopped' => d \in Living' /\ session'[d] = "ended",
         destroyed' = destroyed, connecting' \ {d} \subseteq connecting,
         \A e \in Dummies \ {d} :
           /\ state'[e] = state[e] /\ mails'[e] = mails[e] /\ expected'[e] = expected[e]
           /\ session'[e] = session[e] /\ toServer'[e] = toServer[e] /\ toClient'[e] = toClient[e]
  PROVE  EchoIsKept'
<1>1. ASSUME NEW e \in Dummies, e # d
      PROVE  DummyIsRight(e)'
  <2>1. DummyIsRight(e)
    BY DEF EchoIsKept
  <2>2. QED
    BY <1>1, <2>1, DummyStays
<1>2. \A e \in Dummies : DummyIsRight(e)'
  BY <1>1
<1>3. QED
  BY <1>2 DEF EchoIsKept

-----------------------------------------------------------------------------
(* The commands and the wake loop.                                         *)

\* No dummy is there at the start.
LEMMA EchoInit ==
  ASSUME Init
  PROVE  EchoIsKept
<1>1. EchoIsTyped
  <2>1. <<>> \in Seq(Values) /\ <<>> \in Seq(Values \union {Tick, Ended})
    OBVIOUS
  <2>2. /\ mails \in [Dummies -> Seq(Values \union {Tick, Ended})] /\ expected \in [Dummies -> Seq(Values)]
        /\ toServer \in [Dummies -> Seq(Values)] /\ toClient \in [Dummies -> Seq(Values)]
    BY <2>1 DEF Init
  <2>3. QED
    BY <2>2 DEF Init, EchoIsTyped, States
<1>2. ASSUME NEW d \in Dummies
      PROVE  DummyIsRight(d)
  <2>1. AreOldest(<<>>, <<>>)
    BY EmptyIsOldest
  <2>2. /\ state[d] = "absent" /\ mails[d] = <<>> /\ expected[d] = <<>> /\ session[d] = "none"
        /\ toServer[d] = <<>> /\ toClient[d] = <<>> /\ d \notin connecting
    BY DEF Init
  <2>3. QED
    BY <2>1, <2>2 DEF DummyIsRight, SessionIsRight
<1>3. QED
  BY <1>1, <1>2 DEF EchoIsKept, Init

\* A dummy that is created waits for nothing.
LEMMA StartKeeps ==
  ASSUME EchoIsKept, ~stopped, NEW group \in SUBSET Dummies, Start(group)
  PROVE  EchoIsKept'
<1>1. EchoIsTyped'
  BY DEF EchoIsKept, EchoIsTyped, Start, States
<1>2. ASSUME NEW d \in Dummies
      PROVE  DummyIsRight(d)'
  <2>1. DummyIsRight(d)
    BY DEF EchoIsKept
  <2>2. CASE d \notin group
    <3>1. state'[d] = state[d]
      BY <2>2 DEF Start
    <3>2. QED
      BY <2>1, <3>1, DummyStays DEF Start
  <2>3. CASE d \in group
    <3>1. state[d] = "absent" /\ state'[d] = "disconnect"
      BY <2>3 DEF Start
    <3>2. session[d] = "none" /\ SessionIsRight(d) /\ AreOldest(mails[d], expected[d])
      BY <2>1, <3>1 DEF DummyIsRight, SessionIsRight
    <3>3. SessionIsRight(d)'
      BY <3>1, <3>2 DEF SessionIsRight, Start
    <3>4. QED
      BY <3>1, <3>2, <3>3 DEF DummyIsRight, Start
  <2>4. QED
    BY <2>2, <2>3
<1>3. QED
  BY <1>1, <1>2 DEF EchoIsKept, Start

\* A dummy that is destroyed keeps what it has.
LEMMA StopKeeps ==
  ASSUME EchoIsKept, ~stopped, Stop
  PROVE  EchoIsKept'
<1>1. EchoIsTyped'
  BY DEF EchoIsKept, EchoIsTyped, Stop
<1>2. ASSUME NEW d \in Dummies
      PROVE  DummyIsRight(d)'
  <2>1. DummyIsRight(d)
    BY DEF EchoIsKept
  <2>2. QED
    BY <2>1, DummyStays DEF Stop
<1>3. QED
  BY <1>1, <1>2 DEF EchoIsKept, Stop

\* A tick that is put in a mailbox.
LEMMA WakeLoopKeeps ==
  ASSUME EchoIsKept, EchoDummyAssumption, ~stopped, WakeLoop
  PROVE  EchoIsKept'
<1>1. EchoIsTyped'
  BY DEF EchoIsKept, EchoIsTyped, WakeLoop
<1>2. ASSUME NEW d \in Dummies
      PROVE  DummyIsRight(d)'
  <2>1. DummyIsRight(d) /\ EchoIsTyped
    BY DEF EchoIsKept
  <2>2. CASE d \notin held
    <3>1. mails'[d] = mails[d]
      BY <2>2 DEF WakeLoop
    <3>2. QED
      BY <2>1, <3>1, DummyStays DEF WakeLoop
  <2>3. CASE d \in held
    <3>1. /\ mails'[d] = Append(mails[d], Tick) /\ mails[d] \in Seq(Values \union {Tick, Ended})
          /\ Len(expected[d]) \in Nat /\ Tick \notin Values /\ Tick # Ended
      BY <2>1, <2>3 DEF WakeLoop, EchoIsTyped, EchoDummyAssumption
    <3>2. AreOldest(mails'[d], expected[d]) /\ Received(d)' = Received(d)
      BY <2>1, <3>1, OtherAtEnd DEF DummyIsRight, Received
    <3>3. \A i \in 1 .. Len(mails'[d]) : mails'[d][i] = Tick \/ (i \in 1 .. Len(mails[d]) /\ mails'[d][i] = mails[d][i])
      BY <3>1
    <3>4. SessionIsRight(d)'
      BY <2>1, <3>1, <3>3 DEF DummyIsRight, SessionIsRight, WakeLoop
    <3>5. OnTheWay(d) => OnTheWay(d)'
      BY <3>2 DEF OnTheWay, WakeLoop
    <3>6. Living' = Living
      BY DEF Living, WakeLoop
    <3>7. QED
      BY <2>1, <3>2, <3>4, <3>5, <3>6 DEF DummyIsRight, WakeLoop
  <2>4. QED
    BY <2>2, <2>3
<1>3. QED
  BY <1>1, <1>2 DEF EchoIsKept, WakeLoop

\* An entity that ends drops its mails.
LEMMA DeleteKeeps ==
  ASSUME EchoIsKept, ~stopped, NEW d \in Dummies, Delete(d)
  PROVE  EchoIsKept'
<1>1. EchoIsTyped'
  BY DEF EchoIsKept, EchoIsTyped, Delete, States
<1>2. /\ state'[d] = "deleted" /\ mails'[d] = <<>> /\ expected'[d] = <<>> /\ d \notin connecting'
  BY DEF EchoIsKept, EchoIsTyped, Delete
<1>3. SessionIsRight(d)
  BY DEF EchoIsKept, DummyIsRight
<1>4. SessionIsRight(d)'
  BY <1>2, <1>3 DEF SessionIsRight, Delete
<1>5. AreOldest(mails'[d], expected'[d])
  BY <1>2, EmptyIsOldest
<1>6. d \notin Living'
  BY <1>2 DEF Living
<1>7. DummyIsRight(d)'
  BY <1>2, <1>4, <1>5, <1>6 DEF DummyIsRight
<1>8. \A e \in Dummies \ {d} : state'[e] = state[e] /\ mails'[e] = mails[e] /\ expected'[e] = expected[e]
  BY DEF EchoIsKept, EchoIsTyped, Delete
<1>9. QED
  BY <1>1, <1>7, <1>8, DummySteps DEF Delete

-----------------------------------------------------------------------------
(* The mailbox of a dummy.                                                 *)

\* The mail that is taken is the first of those that wait.
LEMMA TakesFirst ==
  ASSUME EchoIsTyped, NEW d \in Dummies, NEW now \in States, Takes(d, now)
  PROVE  /\ state[d] = now /\ d \notin connecting /\ d \in Living
         /\ mails[d] \in Seq(Values \union {Tick, Ended}) /\ mails[d] # <<>>
         /\ mails'[d] = Tail(mails[d])
         /\ mails' \in [Dummies -> Seq(Values \union {Tick, Ended})]
         /\ \A e \in Dummies \ {d} : mails'[e] = mails[e]
         /\ 1 \in 1 .. Len(mails[d]) /\ Head(mails[d]) = mails[d][1]
         /\ Head(mails[d]) \in Values \union {Tick, Ended}
         /\ \A i \in 1 .. Len(mails'[d]) : i + 1 \in 1 .. Len(mails[d]) /\ mails'[d][i] = mails[d][i + 1]
<1>1. mails[d] \in Seq(Values \union {Tick, Ended}) /\ mails[d] # <<>>
  BY DEF EchoIsTyped, Takes
<1>2. mails'[d] = Tail(mails[d]) /\ (\A e \in Dummies \ {d} : mails'[e] = mails[e])
  BY DEF EchoIsTyped, Takes
<1>3. Tail(mails[d]) \in Seq(Values \union {Tick, Ended})
  BY <1>1
<1>4. mails' \in [Dummies -> Seq(Values \union {Tick, Ended})]
  BY <1>3 DEF EchoIsTyped, Takes
<1>5. 1 \in 1 .. Len(mails[d]) /\ Head(mails[d]) = mails[d][1] /\ Head(mails[d]) \in Values \union {Tick, Ended}
  BY <1>1
<1>6. PICK box : box = mails[d]
  OBVIOUS
<1>7. \A i \in 1 .. Len(Tail(box)) : i + 1 \in 1 .. Len(box) /\ Tail(box)[i] = box[i + 1]
  <2>1. Len(Tail(box)) = Len(box) - 1 /\ \A i \in 1 .. Len(Tail(box)) : Tail(box)[i] = box[i + 1]
    BY <1>1, <1>6, HeadTailProperties
  <2>2. Len(box) \in Nat
    BY <1>1, <1>6
  <2>3. QED
    BY <2>1, <2>2
<1>8. QED
  BY <1>1, <1>2, <1>4, <1>5, <1>6, <1>7 DEF Takes

\* A dummy that takes a mail which is no echo, and waits for what it waited for.
LEMMA OtherIsTaken ==
  ASSUME EchoIsKept, NEW d \in Dummies, NEW now \in States, Takes(d, now), Head(mails[d]) \notin Values
  PROVE  AreOldest(mails'[d], expected[d]) /\ Received(d)' = Received(d)
<1>1. EchoIsTyped /\ AreOldest(mails[d], expected[d])
  BY DEF EchoIsKept, DummyIsRight
<1>2. /\ mails[d] \in Seq(Values \union {Tick, Ended}) /\ mails[d] # <<>> /\ mails'[d] = Tail(mails[d])
  BY <1>1, TakesFirst
<1>3. Len(expected[d]) \in Nat
  BY <1>1 DEF EchoIsTyped
<1>4. QED
  BY <1>1, <1>2, <1>3, OtherTaken DEF Received

\* The mails that stay are of the kinds that were there.
LEMMA SessionStays ==
  ASSUME EchoIsKept, NEW d \in Dummies, NEW now \in States, Takes(d, now),
         session' = session, toServer' = toServer, toClient' = toClient,
         expected'[d] = expected[d], state'[d] = state[d], d \in connecting' => state[d] = "disconnect"
  PROVE  SessionIsRight(d)'
<1>1. EchoIsTyped /\ SessionIsRight(d)
  BY DEF EchoIsKept, DummyIsRight
<1>2. \A i \in 1 .. Len(mails'[d]) : i + 1 \in 1 .. Len(mails[d]) /\ mails'[d][i] = mails[d][i + 1]
  BY <1>1, TakesFirst
<1>3. QED
  BY <1>1, <1>2 DEF SessionIsRight

\* A dummy without a session begins to connect.
LEMMA BeginConnectKeeps ==
  ASSUME EchoIsKept, EchoDummyAssumption, ~stopped, NEW d \in Dummies, BeginConnect(d)
  PROVE  EchoIsKept'
<1>1. EchoIsTyped /\ DummyIsRight(d) /\ "disconnect" \in States /\ Takes(d, "disconnect")
      /\ Head(mails[d]) \notin Values
  BY DEF EchoIsKept, BeginConnect, States, EchoDummyAssumption
<1>2. state[d] = "disconnect" /\ (\A e \in Dummies \ {d} : mails'[e] = mails[e])
      /\ mails' \in [Dummies -> Seq(Values \union {Tick, Ended})]
  BY <1>1, TakesFirst
<1>3. EchoIsTyped'
  BY <1>1, <1>2 DEF EchoIsTyped, BeginConnect
<1>4. AreOldest(mails'[d], expected[d])
  BY <1>1, OtherIsTaken
<1>5. SessionIsRight(d)'
  BY <1>1, <1>2, SessionStays DEF BeginConnect
<1>6. session'[d] = "none" /\ state'[d] = state[d] /\ expected'[d] = expected[d]
  BY <1>1, <1>2 DEF BeginConnect, DummyIsRight, SessionIsRight
<1>7. DummyIsRight(d)'
  BY <1>2, <1>4, <1>5, <1>6 DEF DummyIsRight
<1>8. QED
  BY <1>2, <1>3, <1>7, DummySteps DEF BeginConnect

\* A tick in the middle of a round, or any mail of a dummy whose connect failed.
LEMMA IgnoreKeeps ==
  ASSUME EchoIsKept, EchoDummyAssumption, ~stopped, NEW d \in Dummies, Ignore(d)
  PROVE  EchoIsKept'
<1>1. EchoIsTyped /\ DummyIsRight(d)
  BY DEF EchoIsKept
<1>2. PICK now \in States : Takes(d, now) /\ ((now = "interact" /\ Head(mails[d]) = Tick) \/ now = "error")
  BY DEF Ignore, States
<1>3. state[d] = now /\ (\A e \in Dummies \ {d} : mails'[e] = mails[e]) /\ d \notin connecting
      /\ mails' \in [Dummies -> Seq(Values \union {Tick, Ended})]
      /\ 1 \in 1 .. Len(mails[d]) /\ Head(mails[d]) = mails[d][1]
  BY <1>1, <1>2, TakesFirst
<1>4. Head(mails[d]) = Tick
  BY <1>1, <1>2, <1>3 DEF DummyIsRight, SessionIsRight
<1>5. EchoIsTyped'
  BY <1>1, <1>3 DEF EchoIsTyped, Ignore
<1>6. AreOldest(mails'[d], expected[d]) /\ Received(d)' = Received(d)
  BY <1>2, <1>4, OtherIsTaken DEF EchoDummyAssumption
<1>7. SessionIsRight(d)'
  BY <1>2, <1>3, SessionStays DEF Ignore
<1>8. OnTheWay(d) => OnTheWay(d)'
  BY <1>6 DEF OnTheWay, Ignore
<1>9. Living' = Living
  BY DEF Living, Ignore
<1>10. DummyIsRight(d)'
  BY <1>1, <1>6, <1>7, <1>8, <1>9 DEF DummyIsRight, Ignore
<1>11. QED
  BY <1>3, <1>5, <1>10, DummySteps DEF Ignore

\* The mail nobody expects is the end of the session.
LEMMA UnexpectedKeeps ==
  ASSUME EchoIsKept, EchoDummyAssumption, ~stopped, NEW d \in Dummies, Unexpected(d)
  PROVE  EchoIsKept'
<1>1. EchoIsTyped /\ DummyIsRight(d)
  BY DEF EchoIsKept
<1>2. PICK now \in States : /\ Takes(d, now)
                            /\ \/ now = "disconnect" /\ Head(mails[d]) # Tick
                               \/ now = "connect" /\ Head(mails[d]) # Tick
                               \/ now = "interact" /\ Head(mails[d]) = Ended
  BY DEF Unexpected, States
<1>3. /\ state[d] = now /\ (\A e \in Dummies \ {d} : mails'[e] = mails[e]) /\ d \notin connecting
      /\ mails' \in [Dummies -> Seq(Values \union {Tick, Ended})] /\ d \in Living
      /\ mails[d] \in Seq(Values \union {Tick, Ended}) /\ Head(mails[d]) \in Values \union {Tick, Ended}
      /\ 1 \in 1 .. Len(mails[d]) /\ Head(mails[d]) = mails[d][1]
  BY <1>1, <1>2, TakesFirst
<1>4. now # "disconnect"
  BY <1>1, <1>2, <1>3 DEF DummyIsRight, SessionIsRight
<1>5. now = "connect" => Head(mails[d]) \notin Values
  <2>1. SUFFICES ASSUME now = "connect" PROVE Head(mails[d]) \notin Values
    OBVIOUS
  <2>2. AreOldest(mails[d], <<>>)
    BY <1>1, <1>3, <2>1 DEF DummyIsRight
  <2>3. QED
    BY <1>3, <2>2, OldestOfNone
<1>6. Head(mails[d]) = Ended
  BY <1>2, <1>3, <1>4, <1>5
<1>7. session[d] = "ended"
  BY <1>1, <1>3, <1>6 DEF DummyIsRight, SessionIsRight, EchoIsTyped
<1>8. EchoIsTyped'
  BY <1>1, <1>3 DEF EchoIsTyped, Unexpected
<1>9. AreOldest(mails'[d], expected[d])
  BY <1>2, <1>6, OtherIsTaken DEF EchoDummyAssumption
<1>10. SessionIsRight(d)'
  BY <1>2, <1>3, SessionStays DEF Unexpected
<1>11. session'[d] = "ended" /\ d \in Living'
  BY <1>3, <1>7 DEF Unexpected, Living
<1>12. DummyIsRight(d)'
  BY <1>1, <1>9, <1>10, <1>11 DEF DummyIsRight, Unexpected
<1>13. QED
  BY <1>3, <1>8, <1>11, <1>12, DummySteps DEF Unexpected

\* A dummy whose connection is there waits for nothing, and has only ticks.
LEMMA ConnectedKeeps ==
  ASSUME EchoIsKept, EchoDummyAssumption, ~stopped, NEW d \in Dummies, Connected(d)
  PROVE  EchoIsKept'
<1>1. EchoIsTyped /\ DummyIsRight(d)
  BY DEF EchoIsKept
<1>2. /\ state[d] = "disconnect" /\ session[d] = "none" /\ expected[d] = <<>>
      /\ toClient[d] = <<>> /\ toServer[d] = <<>>
      /\ \A i \in 1 .. Len(mails[d]) : mails[d][i] = Tick
  BY <1>1 DEF Connected, DummyIsRight, SessionIsRight
<1>3. EchoIsTyped'
  BY <1>1 DEF EchoIsTyped, Connected, States
<1>4. state'[d] = "connect" /\ session'[d] = "open" /\ d \notin connecting'
  BY <1>1 DEF EchoIsTyped, Connected
<1>5. SessionIsRight(d)'
  BY <1>2, <1>4 DEF SessionIsRight, Connected, EchoDummyAssumption
<1>6. mails[d] \in Seq(Values \union {Tick, Ended}) /\ AreOldest(mails[d], <<>>)
  BY <1>1, <1>2 DEF EchoIsTyped, DummyIsRight
<1>7. Received(d) = 0
  BY <1>6, OldestOfNone DEF Received
<1>8. OnTheWay(d)'
  <2>1. Received(d)' = 0 /\ expected'[d] = <<>> /\ toClient'[d] = <<>> /\ toServer'[d] = <<>>
    BY <1>2, <1>7 DEF Received, Connected
  <2>2. QED
    BY <2>1 DEF OnTheWay
<1>9. DummyIsRight(d)'
  BY <1>2, <1>5, <1>6, <1>8 DEF DummyIsRight, Connected
<1>10. \A e \in Dummies \ {d} : state'[e] = state[e] /\ session'[e] = session[e]
  BY <1>1 DEF EchoIsTyped, Connected
<1>11. QED
  BY <1>3, <1>9, <1>10, DummySteps DEF Connected

\* A dummy whose connect failed has no session.
LEMMA ConnectFailsKeeps ==
  ASSUME EchoIsKept, ~stopped, NEW d \in Dummies, ConnectFails(d)
  PROVE  EchoIsKept'
<1>1. EchoIsTyped /\ DummyIsRight(d)
  BY DEF EchoIsKept
<1>2. state[d] = "disconnect" /\ session[d] = "none"
  BY <1>1 DEF ConnectFails, DummyIsRight, SessionIsRight
<1>3. EchoIsTyped'
  BY <1>1 DEF EchoIsTyped, ConnectFails, States
<1>4. state'[d] = "error" /\ session'[d] = "none" /\ d \notin connecting'
  BY <1>1, <1>2 DEF EchoIsTyped, ConnectFails
<1>5. SessionIsRight(d)'
  BY <1>1, <1>4 DEF DummyIsRight, SessionIsRight, ConnectFails
<1>6. DummyIsRight(d)'
  BY <1>1, <1>4, <1>5 DEF DummyIsRight, ConnectFails
<1>7. \A e \in Dummies \ {d} : state'[e] = state[e]
  BY <1>1 DEF EchoIsTyped, ConnectFails
<1>8. QED
  BY <1>3, <1>6, <1>7, DummySteps DEF ConnectFails

\* A round is sent when the last has come back, so it is all that is on the way.
LEMMA SendRoundKeeps ==
  ASSUME EchoIsKept, EchoDummyAssumption, ~stopped, NEW d \in Dummies,
         NEW n \in OverSends, NEW round \in [1 .. n -> Values], SendRound(d, round)
  PROVE  EchoIsKept'
<1>1. EchoIsTyped /\ DummyIsRight(d) /\ "connect" \in States /\ Takes(d, "connect")
      /\ Head(mails[d]) \notin Values
  BY DEF EchoIsKept, SendRound, States, EchoDummyAssumption
<1>2. /\ state[d] = "connect" /\ (\A e \in Dummies \ {d} : mails'[e] = mails[e]) /\ d \notin connecting
      /\ mails' \in [Dummies -> Seq(Values \union {Tick, Ended})] /\ d \in Living
      /\ \A i \in 1 .. Len(mails'[d]) : i + 1 \in 1 .. Len(mails[d]) /\ mails'[d][i] = mails[d][i + 1]
  BY <1>1, TakesFirst
<1>3. round \in Seq(Values) /\ Len(round) \in Nat
  BY DEF EchoDummyAssumption
<1>4. expected[d] = <<>> /\ session[d] # "none"
  BY <1>1, <1>2 DEF DummyIsRight, SessionIsRight
<1>5. AreOldest(mails'[d], <<>>)
  BY <1>1, <1>4, OtherIsTaken
<1>6. EchoesIn(mails'[d], Len(mails'[d])) = 0 /\ \A i \in 1 .. Len(mails'[d]) : mails'[d][i] \notin Values
  <2>1. mails'[d] \in Seq(Values \union {Tick, Ended})
    BY <1>2
  <2>2. QED
    BY <1>5, <2>1, OldestOfNone
<1>7. AreOldest(mails'[d], round)
  BY <1>3, <1>6, NoneIsOldest
<1>8. toServer[d] \in Seq(Values) /\ toServer[d] \o round \in Seq(Values)
  BY <1>1, <1>3 DEF EchoIsTyped
<1>9. EchoIsTyped'
  BY <1>1, <1>2, <1>3, <1>8 DEF EchoIsTyped, SendRound, States
<1>10. /\ state'[d] = "interact" /\ expected'[d] = round
       /\ toServer'[d] = IF session[d] = "open" THEN toServer[d] \o round ELSE toServer[d]
  BY <1>1 DEF EchoIsTyped, SendRound
<1>11. SessionIsRight(d)'
  BY <1>1, <1>2, <1>4, <1>10 DEF DummyIsRight, SessionIsRight, SendRound
<1>12. ASSUME d \in Living \ destroyed, session[d] = "open"
       PROVE  OnTheWay(d)'
  <2>1. OnTheWay(d) /\ Received(d) \in Nat /\ Len(toClient[d]) \in Nat /\ Len(toServer[d]) \in Nat
    BY <1>1, <1>12, ReceivedIsNat DEF DummyIsRight, EchoIsTyped
  <2>2. Received(d) + Len(toClient[d]) + Len(toServer[d]) = 0
    BY <1>4, <2>1 DEF OnTheWay
  <2>3. toClient[d] = <<>> /\ toServer[d] = <<>>
    BY <1>1, <2>1, <2>2 DEF EchoIsTyped
  <2>4. <<>> \o round = round
    BY <1>3
  <2>5. toClient'[d] = <<>> /\ toServer'[d] = round /\ Received(d)' = 0
    BY <1>6, <1>10, <1>12, <2>3, <2>4 DEF SendRound, Received
  <2>6. Len(<<>>) = 0
    OBVIOUS
  <2>7. PICK many : many = Len(round)
    OBVIOUS
  <2>8. many \in Nat /\ many = 0 + 0 + many /\ \A i \in 1 .. many : round[i] = round[0 + 0 + i]
    BY <1>3, <2>7
  <2>9. expected'[d] = round
    BY <1>10
  <2>10. QED
    BY <2>5, <2>6, <2>7, <2>8, <2>9 DEF OnTheWay
<1>13. DummyIsRight(d)'
  BY <1>2, <1>7, <1>10, <1>11, <1>12 DEF DummyIsRight, SendRound, Living
<1>14. \A e \in Dummies \ {d} : /\ state'[e] = state[e] /\ expected'[e] = expected[e]
                                /\ toServer'[e] = toServer[e]
  BY <1>1 DEF EchoIsTyped, SendRound
<1>15. QED
  BY <1>2, <1>9, <1>13, <1>14, DummySteps DEF SendRound

\* The echo in front is the oldest number, so the comparison never fails.
LEMMA ComparisonKeeps ==
  ASSUME EchoIsKept, EchoDummyAssumption, ~stopped, NEW d \in Dummies, Compare(d)
  PROVE  EchoIsKept'
<1>1. EchoIsTyped /\ DummyIsRight(d) /\ "interact" \in States /\ Takes(d, "interact")
      /\ Head(mails[d]) \in Values
  BY DEF EchoIsKept, Compare, States
<1>2. /\ state[d] = "interact" /\ (\A e \in Dummies \ {d} : mails'[e] = mails[e]) /\ d \notin connecting
      /\ mails' \in [Dummies -> Seq(Values \union {Tick, Ended})] /\ d \in Living
      /\ mails[d] \in Seq(Values \union {Tick, Ended}) /\ mails[d] # <<>> /\ mails'[d] = Tail(mails[d])
      /\ \A i \in 1 .. Len(mails'[d]) : i + 1 \in 1 .. Len(mails[d]) /\ mails'[d][i] = mails[d][i + 1]
  BY <1>1, TakesFirst
<1>3. AreOldest(mails[d], expected[d]) /\ expected[d] \in Seq(Values) /\ session[d] # "none"
  BY <1>1, <1>2 DEF DummyIsRight, SessionIsRight, EchoIsTyped
<1>4. /\ expected[d] # <<>> /\ Head(mails[d]) = Head(expected[d])
      /\ AreOldest(Tail(mails[d]), Tail(expected[d]))
      /\ EchoesIn(mails[d], Len(mails[d])) = EchoesIn(Tail(mails[d]), Len(Tail(mails[d]))) + 1
  BY <1>1, <1>2, <1>3, EchoTaken
<1>5. /\ expected' = [expected EXCEPT ![d] = Tail(expected[d])]
      /\ state' = [state EXCEPT ![d] = IF Tail(expected[d]) = <<>> THEN "connect" ELSE "interact"]
  BY <1>4 DEF Compare
<1>6. Tail(expected[d]) \in Seq(Values)
  BY <1>3, <1>4
<1>7. EchoIsTyped'
  BY SMTT(30), <1>1, <1>2, <1>5, <1>6 DEF EchoIsTyped, Compare, States
<1>8. /\ expected'[d] = Tail(expected[d])
      /\ state'[d] \in {"connect", "interact"} /\ (state'[d] = "connect" => Tail(expected[d]) = <<>>)
  BY <1>1, <1>5 DEF EchoIsTyped
<1>9. SessionIsRight(d)'
  BY <1>1, <1>2, <1>3, <1>8 DEF DummyIsRight, SessionIsRight, Compare
<1>10. Received(d) = Received(d)' + 1
  BY <1>2, <1>4 DEF Received
<1>11. Received(d)' \in Nat
  <2>1. Len(mails'[d]) \in Nat
    BY <1>2
  <2>2. QED
    BY <2>1, EchoesNext DEF Received
<1>12. ASSUME OnTheWay(d)
       PROVE  OnTheWay(d)'
  <2>1. PICK late : late = Received(d)'
    OBVIOUS
  <2>2. late \in Nat /\ Received(d) = late + 1
    BY <1>10, <1>11, <2>1
  <2>3. PICK long : long = expected[d]
    OBVIOUS
  <2>4. /\ Len(Tail(long)) = Len(long) - 1 /\ Len(long) \in Nat
        /\ \A i \in 1 .. Len(long) - 1 : Tail(long)[i] = long[i + 1]
    <3>1. Len(Tail(long)) = Len(long) - 1 /\ \A i \in 1 .. Len(Tail(long)) : Tail(long)[i] = long[i + 1]
      BY <1>3, <1>4, <2>3, HeadTailProperties
    <3>2. QED
      BY <1>3, <2>3, <3>1
  <2>5. PICK answers, requests, total :
          answers = Len(toClient[d]) /\ requests = Len(toServer[d]) /\ total = Len(long)
    OBVIOUS
  <2>6. answers \in Nat /\ requests \in Nat /\ total \in Nat /\ total = (late + 1) + answers + requests
    <3>1. answers \in Nat /\ requests \in Nat /\ total \in Nat
      BY <1>1, <2>4, <2>5 DEF EchoIsTyped
    <3>2. Len(long) = (late + 1) + Len(toClient[d]) + Len(toServer[d])
      BY <1>12, <2>2, <2>3 DEF OnTheWay
    <3>3. QED
      BY <2>5, <3>1, <3>2
  <2>7. \A i \in 1 .. answers : toClient[d][i] = Tail(long)[late + i]
    <3>1. ASSUME NEW i \in 1 .. answers
          PROVE  toClient[d][i] = Tail(long)[late + i]
      <4>1. toClient[d][i] = long[(late + 1) + i]
        BY <1>12, <2>2, <2>3, <2>5 DEF OnTheWay
      <4>2. late + i \in 1 .. total - 1 /\ (late + 1) + i = (late + i) + 1
        BY <2>2, <2>6
      <4>3. QED
        BY <2>4, <2>5, <4>1, <4>2
    <3>2. QED
      BY <3>1
  <2>8. \A i \in 1 .. requests : toServer[d][i] = Tail(long)[late + answers + i]
    <3>1. ASSUME NEW i \in 1 .. requests
          PROVE  toServer[d][i] = Tail(long)[late + answers + i]
      <4>1. toServer[d][i] = long[(late + 1) + answers + i]
        BY <1>12, <2>2, <2>3, <2>5 DEF OnTheWay
      <4>2. late + answers + i \in 1 .. total - 1 /\ (late + 1) + answers + i = (late + answers + i) + 1
        BY <2>2, <2>6
      <4>3. QED
        BY <2>4, <2>5, <4>1, <4>2
    <3>2. QED
      BY <3>1
  <2>9. Len(Tail(long)) = late + answers + requests
    <3>1. total - 1 = late + answers + requests
      BY <2>2, <2>6
    <3>2. QED
      BY <2>4, <2>5, <3>1
  <2>10. toClient' = toClient /\ toServer' = toServer /\ expected'[d] = Tail(long)
    BY <1>8, <2>3 DEF Compare
  <2>11. QED
    BY <2>1, <2>5, <2>7, <2>8, <2>9, <2>10 DEF OnTheWay
<1>13. DummyIsRight(d)'
  BY <1>1, <1>2, <1>4, <1>8, <1>9, <1>12 DEF DummyIsRight, Compare, Living
<1>14. \A e \in Dummies \ {d} : state'[e] = state[e] /\ expected'[e] = expected[e]
  BY <1>1, <1>5 DEF EchoIsTyped
<1>15. QED
  BY <1>2, <1>7, <1>13, <1>14, DummySteps DEF Compare

-----------------------------------------------------------------------------
(* The server, and the session of a dummy.                                 *)

\* Numbers are on the way only over an open session.
LEMMA WayIsOpen ==
  ASSUME EchoIsKept, NEW d \in Dummies, toServer[d] # <<>> \/ toClient[d] # <<>>
  PROVE  session[d] = "open"
BY DEF EchoIsKept, DummyIsRight, SessionIsRight

\* An answer follows the answers to the messages before.
LEMMA EchoKeeps ==
  ASSUME EchoIsKept, ~stopped, NEW d \in Dummies, Echo(d)
  PROVE  EchoIsKept'
<1>1. EchoIsTyped /\ DummyIsRight(d) /\ session[d] = "open"
  BY WayIsOpen DEF EchoIsKept, Echo
<1>2. PICK asked : asked = toServer[d]
  OBVIOUS
<1>3. PICK answered : answered = toClient[d]
  OBVIOUS
<1>4. asked \in Seq(Values) /\ asked # <<>> /\ answered \in Seq(Values)
  BY <1>1, <1>2, <1>3 DEF EchoIsTyped, Echo
<1>5. /\ Len(asked) \in Nat /\ Len(asked) >= 1 /\ Len(answered) \in Nat
      /\ Head(asked) = asked[1] /\ Head(asked) \in Values
      /\ Tail(asked) \in Seq(Values) /\ Append(answered, Head(asked)) \in Seq(Values)
  BY <1>4
<1>6. Len(Tail(asked)) = Len(asked) - 1 /\ \A i \in 1 .. Len(Tail(asked)) : Tail(asked)[i] = asked[i + 1]
  BY <1>4, HeadTailProperties
<1>7. /\ Len(Append(answered, Head(asked))) = Len(answered) + 1
      /\ Append(answered, Head(asked))[Len(answered) + 1] = Head(asked)
      /\ \A i \in 1 .. Len(answered) : Append(answered, Head(asked))[i] = answered[i]
  BY <1>4, <1>5
<1>8. /\ toClient'[d] = Append(answered, Head(asked)) /\ toServer'[d] = Tail(asked)
      /\ \A e \in Dummies \ {d} : toClient'[e] = toClient[e] /\ toServer'[e] = toServer[e]
  BY <1>1, <1>2, <1>3 DEF EchoIsTyped, Echo
<1>9. EchoIsTyped'
  BY <1>1, <1>2, <1>3, <1>5 DEF EchoIsTyped, Echo
<1>10. ASSUME OnTheWay(d)
       PROVE  OnTheWay(d)'
  <2>1. PICK n : n = Received(d)
    OBVIOUS
  <2>2. n \in Nat
    BY <1>1, <2>1, ReceivedIsNat
  <2>3. Received(d)' = n /\ expected' = expected
    BY <2>1 DEF Received, Echo
  <2>4. /\ Len(expected[d]) = n + Len(answered) + Len(asked)
        /\ \A i \in 1 .. Len(answered) : answered[i] = expected[d][n + i]
        /\ \A i \in 1 .. Len(asked) : asked[i] = expected[d][n + Len(answered) + i]
    BY <1>2, <1>3, <1>10, <2>1 DEF OnTheWay
  <2>5. ASSUME NEW i \in 1 .. Len(answered) + 1
        PROVE  Append(answered, Head(asked))[i] = expected[d][n + i]
    <3>1. CASE i \in 1 .. Len(answered)
      BY <1>7, <2>4, <3>1
    <3>2. CASE i = Len(answered) + 1
      <4>1. 1 \in 1 .. Len(asked) /\ n + Len(answered) + 1 = n + i
        BY <1>5, <2>2, <3>2
      <4>2. QED
        BY <1>5, <1>7, <2>4, <3>2, <4>1
    <3>3. QED
      BY <1>5, <3>1, <3>2
  <2>6. ASSUME NEW i \in 1 .. Len(asked) - 1
        PROVE  Tail(asked)[i] = expected[d][n + (Len(answered) + 1) + i]
    <3>1. i + 1 \in 1 .. Len(asked) /\ n + Len(answered) + (i + 1) = n + (Len(answered) + 1) + i
      BY <1>5, <2>2
    <3>2. Tail(asked)[i] = asked[i + 1]
      BY <1>6
    <3>3. QED
      BY <2>4, <3>1, <3>2
  <2>7. n + Len(answered) + Len(asked) = n + (Len(answered) + 1) + (Len(asked) - 1)
    BY <1>5, <2>2
  <2>8. QED
    BY <1>6, <1>7, <1>8, <2>3, <2>4, <2>5, <2>6, <2>7 DEF OnTheWay
<1>11. SessionIsRight(d)'
  BY <1>1 DEF DummyIsRight, SessionIsRight, Echo
<1>12. DummyIsRight(d)'
  BY <1>1, <1>10, <1>11 DEF DummyIsRight, Echo, Living
<1>13. QED
  BY <1>8, <1>9, <1>12, DummySteps DEF Echo

\* What a dummy gets when a mail is put in its mailbox.
LEMMA EnqueuedAtEnd ==
  ASSUME EchoIsTyped, NEW d \in Dummies, NEW mail \in Values \union {Tick, Ended}, mails' = Enqueued(d, mail)
  PROVE  /\ mails' \in [Dummies -> Seq(Values \union {Tick, Ended})]
         /\ \A e \in Dummies \ {d} : mails'[e] = mails[e]
         /\ d \in Living \ destroyed => mails'[d] = Append(mails[d], mail)
         /\ d \notin Living \ destroyed => mails'[d] = mails[d]
         /\ \A i \in 1 .. Len(mails'[d]) :
              mails'[d][i] = mail \/ (i \in 1 .. Len(mails[d]) /\ mails'[d][i] = mails[d][i])
<1>1. CASE d \in Living \ destroyed
  <2>1. mails' = [mails EXCEPT ![d] = Append(mails[d], mail)]
    BY <1>1 DEF Enqueued
  <2>2. mails[d] \in Seq(Values \union {Tick, Ended}) /\ Append(mails[d], mail) \in Seq(Values \union {Tick, Ended})
    BY DEF EchoIsTyped
  <2>3. mails'[d] = Append(mails[d], mail)
    BY <2>1 DEF EchoIsTyped
  <2>4. \A i \in 1 .. Len(Append(mails[d], mail)) :
          Append(mails[d], mail)[i] = mail \/ (i \in 1 .. Len(mails[d]) /\ Append(mails[d], mail)[i] = mails[d][i])
    BY <2>2
  <2>5. mails' \in [Dummies -> Seq(Values \union {Tick, Ended})] /\ \A e \in Dummies \ {d} : mails'[e] = mails[e]
    BY <2>1, <2>2 DEF EchoIsTyped
  <2>6. QED
    BY <1>1, <2>3, <2>4, <2>5
<1>2. CASE d \notin Living \ destroyed
  BY <1>2 DEF Enqueued, EchoIsTyped
<1>3. QED
  BY <1>1, <1>2

\* The oldest answer becomes the newest echo of the mailbox.
LEMMA SessionReceiveKeeps ==
  ASSUME EchoIsKept, EchoDummyAssumption, ~stopped, NEW d \in Dummies, SessionReceive(d)
  PROVE  EchoIsKept'
<1>1. EchoIsTyped /\ DummyIsRight(d) /\ session[d] = "open"
  BY WayIsOpen DEF EchoIsKept, SessionReceive
<1>2. PICK answered : answered = toClient[d]
  OBVIOUS
<1>3. answered \in Seq(Values) /\ answered # <<>>
  BY <1>1, <1>2 DEF EchoIsTyped, SessionReceive
<1>4. PICK mail : mail = Head(answered)
  OBVIOUS
<1>5. /\ Len(answered) \in Nat /\ Len(answered) >= 1 /\ mail = answered[1] /\ mail \in Values
      /\ Tail(answered) \in Seq(Values) /\ mail # Ended
  BY <1>3, <1>4 DEF EchoDummyAssumption
<1>6. Len(Tail(answered)) = Len(answered) - 1
      /\ \A i \in 1 .. Len(Tail(answered)) : Tail(answered)[i] = answered[i + 1]
  BY <1>3, HeadTailProperties
<1>7. mail \in Values \union {Tick, Ended} /\ mails' = Enqueued(d, mail)
  BY <1>2, <1>4, <1>5 DEF SessionReceive
<1>8. /\ mails' \in [Dummies -> Seq(Values \union {Tick, Ended})]
      /\ \A e \in Dummies \ {d} : mails'[e] = mails[e]
      /\ d \in Living \ destroyed => mails'[d] = Append(mails[d], mail)
      /\ d \notin Living \ destroyed => mails'[d] = mails[d]
      /\ \A i \in 1 .. Len(mails'[d]) :
           mails'[d][i] = mail \/ (i \in 1 .. Len(mails[d]) /\ mails'[d][i] = mails[d][i])
  BY <1>1, <1>7, EnqueuedAtEnd
<1>9. toClient'[d] = Tail(answered) /\ \A e \in Dummies \ {d} : toClient'[e] = toClient[e]
  BY <1>1, <1>2 DEF EchoIsTyped, SessionReceive
<1>10. EchoIsTyped'
  BY <1>1, <1>2, <1>5, <1>8 DEF EchoIsTyped, SessionReceive
<1>11. SessionIsRight(d)'
  BY <1>1, <1>5, <1>8 DEF DummyIsRight, SessionIsRight, SessionReceive
<1>12. ASSUME d \in Living \ destroyed
       PROVE  AreOldest(mails'[d], expected[d]) /\ OnTheWay(d)'
  <2>1. PICK n : n = Received(d)
    OBVIOUS
  <2>2. n \in Nat /\ Len(toServer[d]) \in Nat
    BY <1>1, <2>1, ReceivedIsNat DEF EchoIsTyped
  <2>3. /\ Len(expected[d]) = n + Len(answered) + Len(toServer[d])
        /\ \A i \in 1 .. Len(answered) : answered[i] = expected[d][n + i]
        /\ \A i \in 1 .. Len(toServer[d]) : toServer[d][i] = expected[d][n + Len(answered) + i]
    BY <1>1, <1>2, <1>12, <2>1 DEF DummyIsRight, OnTheWay
  <2>4. n < Len(expected[d]) /\ mail = expected[d][n + 1] /\ Len(expected[d]) \in Nat
    <3>1. PICK answers, requests : answers = Len(answered) /\ requests = Len(toServer[d])
      OBVIOUS
    <3>2. answers \in Nat /\ requests \in Nat /\ answers >= 1 /\ Len(expected[d]) = n + answers + requests
      BY <1>5, <2>2, <2>3, <3>1
    <3>3. n + answers + requests \in Nat /\ n < n + answers + requests /\ 1 \in 1 .. answers
      BY <2>2, <3>2
    <3>4. mail = expected[d][n + 1]
      BY <1>5, <2>3, <3>1, <3>3
    <3>5. QED
      BY <3>2, <3>3, <3>4
  <2>5. AreOldest(mails'[d], expected[d]) /\ EchoesIn(mails'[d], Len(mails'[d])) = n + 1
    <3>1. mails[d] \in Seq(Values \union {Tick, Ended}) /\ AreOldest(mails[d], expected[d])
          /\ EchoesIn(mails[d], Len(mails[d])) = n
      BY <1>1, <2>1 DEF EchoIsTyped, DummyIsRight, Received
    <3>2. mails'[d] = Append(mails[d], mail)
      BY <1>8, <1>12
    <3>3. PICK box : box = mails[d]
      OBVIOUS
    <3>4. AreOldest(Append(box, mail), expected[d])
          /\ EchoesIn(Append(box, mail), Len(Append(box, mail))) = EchoesIn(box, Len(box)) + 1
      BY SMTT(30), <1>5, <1>7, <2>4, <3>1, <3>3, EchoAtEnd
    <3>5. QED
      BY <3>1, <3>2, <3>3, <3>4
  <2>6. Received(d)' = n + 1 /\ expected' = expected /\ toServer' = toServer
    BY <2>5 DEF Received, SessionReceive
  <2>7. ASSUME NEW i \in 1 .. Len(answered) - 1
        PROVE  Tail(answered)[i] = expected[d][(n + 1) + i]
    <3>1. i + 1 \in 1 .. Len(answered) /\ n + (i + 1) = (n + 1) + i
      BY <1>5, <2>2
    <3>2. Tail(answered)[i] = answered[i + 1]
      BY <1>6
    <3>3. QED
      BY <2>3, <3>1, <3>2
  <2>8. n + Len(answered) = (n + 1) + (Len(answered) - 1)
    BY <1>5, <2>2
  <2>9. toClient'[d] = Tail(answered)
    BY <1>9
  <2>10. PICK later : later = Tail(answered)
    OBVIOUS
  <2>11. Len(later) = Len(answered) - 1 /\ \A i \in 1 .. Len(later) : later[i] = expected[d][(n + 1) + i]
    BY <1>6, <2>7, <2>10
  <2>12. /\ Len(expected[d]) = (n + 1) + Len(later) + Len(toServer[d])
         /\ \A i \in 1 .. Len(toServer[d]) : toServer[d][i] = expected[d][(n + 1) + Len(later) + i]
    BY <2>3, <2>8, <2>11
  <2>13. OnTheWay(d)'
    BY <2>6, <2>9, <2>10, <2>11, <2>12 DEF OnTheWay
  <2>14. QED
    BY <2>5, <2>13
<1>13. DummyIsRight(d)'
  <2>1. AreOldest(mails'[d], expected[d])
    BY <1>1, <1>8, <1>12 DEF DummyIsRight
  <2>2. QED
    BY <1>1, <1>11, <1>12, <2>1 DEF DummyIsRight, SessionReceive, Living
<1>14. QED
  BY <1>8, <1>9, <1>10, <1>13, DummySteps DEF SessionReceive

\* The end of a session is no echo, and nothing stays on the way.
LEMMA SessionEndKeeps ==
  ASSUME EchoIsKept, EchoDummyAssumption, ~stopped, NEW d \in Dummies, SessionEnd(d)
  PROVE  EchoIsKept'
<1>1. EchoIsTyped /\ DummyIsRight(d) /\ session[d] = "open"
  BY DEF EchoIsKept, SessionEnd
<1>2. Ended \in Values \union {Tick, Ended} /\ Ended \notin Values /\ mails' = Enqueued(d, Ended)
  BY DEF SessionEnd, EchoDummyAssumption
<1>3. /\ mails' \in [Dummies -> Seq(Values \union {Tick, Ended})]
      /\ \A e \in Dummies \ {d} : mails'[e] = mails[e]
      /\ d \in Living \ destroyed => mails'[d] = Append(mails[d], Ended)
      /\ d \notin Living \ destroyed => mails'[d] = mails[d]
  BY <1>1, <1>2, EnqueuedAtEnd
<1>4. /\ session'[d] = "ended" /\ toServer'[d] = <<>> /\ toClient'[d] = <<>>
      /\ \A e \in Dummies \ {d} : /\ session'[e] = session[e] /\ toServer'[e] = toServer[e]
                                  /\ toClient'[e] = toClient[e]
  BY <1>1 DEF EchoIsTyped, SessionEnd
<1>5. EchoIsTyped'
  <2>1. <<>> \in Seq(Values)
    OBVIOUS
  <2>2. QED
    BY <1>1, <1>3, <2>1 DEF EchoIsTyped, SessionEnd
<1>6. SessionIsRight(d)'
  BY <1>1, <1>4 DEF DummyIsRight, SessionIsRight, SessionEnd
<1>7. AreOldest(mails'[d], expected[d])
  <2>1. mails[d] \in Seq(Values \union {Tick, Ended}) /\ AreOldest(mails[d], expected[d]) /\ Len(expected[d]) \in Nat
    BY <1>1 DEF EchoIsTyped, DummyIsRight
  <2>2. AreOldest(Append(mails[d], Ended), expected[d])
    BY <1>2, <2>1, OtherAtEnd
  <2>3. QED
    BY <1>3, <2>1, <2>2
<1>8. DummyIsRight(d)'
  BY <1>1, <1>4, <1>6, <1>7 DEF DummyIsRight, SessionEnd
<1>9. QED
  BY <1>3, <1>4, <1>5, <1>8, DummySteps DEF SessionEnd

\* A step of another part changes nothing of the echo client.
LEMMA EchoStutters ==
  ASSUME EchoIsKept, UNCHANGED dummyVars
  PROVE  EchoIsKept'
<1>1. EchoIsTyped'
  BY DEF EchoIsKept, EchoIsTyped, dummyVars
<1>2. ASSUME NEW d \in Dummies
      PROVE  DummyIsRight(d)'
  <2>1. DummyIsRight(d)
    BY DEF EchoIsKept
  <2>2. QED
    BY <2>1, DummyStays DEF dummyVars
<1>3. stopped' => \E d \in Living' : session'[d] = "ended"
  BY DEF EchoIsKept, Living, dummyVars
<1>4. QED
  BY <1>1, <1>2, <1>3 DEF EchoIsKept

\* Every step of the echo client keeps its invariant.
LEMMA EchoStep ==
  ASSUME EchoIsKept, EchoDummyAssumption, Next
  PROVE  EchoIsKept'
<1>1. ~stopped
  BY DEF Next
<1>2. ASSUME NEW d \in Dummies, MailboxStep(d)
      PROVE  EchoIsKept'
  BY <1>1, <1>2, BeginConnectKeeps, ComparisonKeeps, IgnoreKeeps, UnexpectedKeeps, SendRoundKeeps DEF MailboxStep
<1>3. ASSUME NEW d \in Dummies,
             Connected(d) \/ ConnectFails(d) \/ Delete(d) \/ Echo(d) \/ SessionReceive(d) \/ SessionEnd(d)
      PROVE  EchoIsKept'
  BY <1>1, <1>3, ConnectedKeeps, ConnectFailsKeeps, DeleteKeeps, EchoKeeps, SessionReceiveKeeps, SessionEndKeeps
<1>4. CASE \E group \in SUBSET Dummies : Start(group)
  BY <1>1, <1>4, StartKeeps
<1>5. CASE Stop \/ WakeLoop
  BY <1>1, <1>5, StopKeeps, WakeLoopKeeps
<1>6. QED
  BY <1>2, <1>3, <1>4, <1>5 DEF Next

\* What is on the way is the rest of the round.
LEMMA WayIsRest ==
  ASSUME EchoIsTyped, NEW d \in Dummies, OnTheWay(d)
  PROVE  toClient[d] \o toServer[d] = SubSeq(expected[d], Received(d) + 1, Len(expected[d]))
<1>1. PICK answered : answered = toClient[d]
  OBVIOUS
<1>2. PICK asked : asked = toServer[d]
  OBVIOUS
<1>3. PICK long : long = expected[d]
  OBVIOUS
<1>4. PICK n : n = Received(d)
  OBVIOUS
<1>5. /\ answered \in Seq(Values) /\ asked \in Seq(Values) /\ long \in Seq(Values) /\ n \in Nat
      /\ Len(answered) \in Nat /\ Len(asked) \in Nat /\ Len(long) \in Nat
  BY <1>1, <1>2, <1>3, <1>4, ReceivedIsNat DEF EchoIsTyped
<1>6. /\ Len(long) = n + Len(answered) + Len(asked)
      /\ \A i \in 1 .. Len(answered) : answered[i] = long[n + i]
      /\ \A i \in 1 .. Len(asked) : asked[i] = long[n + Len(answered) + i]
  BY <1>1, <1>2, <1>3, <1>4 DEF OnTheWay
<1>7. PICK both : both = answered \o asked
  OBVIOUS
<1>8. /\ both \in Seq(Values) /\ Len(both) = Len(answered) + Len(asked)
      /\ \A i \in 1 .. Len(both) : both[i] = IF i <= Len(answered) THEN answered[i] ELSE asked[i - Len(answered)]
  BY <1>5, <1>7
<1>9. PICK part : part = SubSeq(long, n + 1, Len(long))
  OBVIOUS
<1>10. /\ part \in Seq(Values) /\ Len(part) = Len(long) - n
       /\ \A i \in 1 .. Len(part) : part[i] = long[n + i]
  BY <1>5, <1>6, <1>9
<1>11. Len(both) = Len(part)
  BY <1>5, <1>6, <1>8, <1>10
<1>12. ASSUME NEW i \in 1 .. Len(both)
       PROVE  both[i] = part[i]
  <2>1. part[i] = long[n + i] /\ i \in Nat /\ i >= 1 /\ i <= Len(answered) + Len(asked)
    BY <1>5, <1>8, <1>10, <1>11
  <2>2. CASE i <= Len(answered)
    <3>1. i \in 1 .. Len(answered) /\ both[i] = answered[i]
      BY <1>5, <1>8, <2>1, <2>2
    <3>2. QED
      BY <1>6, <2>1, <3>1
  <2>3. CASE i > Len(answered)
    <3>1. i - Len(answered) \in 1 .. Len(asked) /\ n + Len(answered) + (i - Len(answered)) = n + i
      BY <1>5, <2>1, <2>3
    <3>2. both[i] = asked[i - Len(answered)]
      BY <1>5, <1>8, <2>1, <2>3
    <3>3. QED
      BY <1>6, <2>1, <3>1, <3>2
  <2>4. QED
    BY <1>5, <2>1, <2>2, <2>3
<1>13. both = part
  BY <1>8, <1>10, <1>11, <1>12, SeqEqual
<1>14. QED
  BY <1>1, <1>2, <1>3, <1>4, <1>7, <1>9, <1>13

\* While a session is open, what its dummy waits for is what is on the way.
LEMMA EchoImplies ==
  ASSUME EchoIsKept
  PROVE  EchoIsRight
<1>1. ASSUME NEW d \in Living \ destroyed
      PROVE  /\ session[d] = "open" /\ state[d] # "disconnect" =>
                  /\ AreOldest(mails[d], expected[d])
                  /\ toClient[d] \o toServer[d]
                       = SubSeq(expected[d], EchoesIn(mails[d], Len(mails[d])) + 1, Len(expected[d]))
             /\ state[d] = "connect" => expected[d] = <<>>
             /\ state[d] = "error" => session[d] = "none"
             /\ session[d] = "none" => EchoesIn(mails[d], Len(mails[d])) = 0
  <2>1. d \in Dummies /\ EchoIsTyped
    BY DEF Living, EchoIsKept
  <2>2. DummyIsRight(d)
    BY <2>1 DEF EchoIsKept
  <2>3. session[d] = "open" => toClient[d] \o toServer[d]
             = SubSeq(expected[d], EchoesIn(mails[d], Len(mails[d])) + 1, Len(expected[d]))
    <3>1. SUFFICES ASSUME session[d] = "open"
                   PROVE  toClient[d] \o toServer[d] = SubSeq(expected[d], Received(d) + 1, Len(expected[d]))
      BY DEF Received
    <3>2. OnTheWay(d)
      BY <1>1, <2>2, <3>1 DEF DummyIsRight
    <3>3. QED
      BY <2>1, <3>2, WayIsRest
  <2>4. session[d] = "none" => EchoesIn(mails[d], Len(mails[d])) = 0
    <3>1. SUFFICES ASSUME session[d] = "none" PROVE EchoesIn(mails[d], Len(mails[d])) = 0
      OBVIOUS
    <3>2. AreOldest(mails[d], <<>>) /\ mails[d] \in Seq(Values \union {Tick, Ended})
      BY <2>1, <2>2, <3>1 DEF DummyIsRight, SessionIsRight, EchoIsTyped
    <3>3. QED
      BY <3>2, OldestOfNone
  <2>5. QED
    BY <2>2, <2>3, <2>4 DEF DummyIsRight, SessionIsRight
<1>2. stopped => \E d \in Living : session[d] = "ended"
  BY DEF EchoIsKept
<1>3. QED
  BY <1>1, <1>2 DEF EchoIsRight

-----------------------------------------------------------------------------

IInv == EndingIsRight /\ FramesAreRight /\ ForkIsRight /\ ClockIsRight /\ EchoIsKept

\* The invariants hold together.
THEOREM Invariance == ApplicationsSpec => []IInv
<1>0. /\ Ending!ShutdownAssumption /\ Frame!CoroutineAssumption /\ Clock!TimerAssumption
      /\ EchoDummyAssumption
  BY ApplicationsAssumption
<1>1. ApplicationsInit => IInv
  BY <1>0, EndingInit, FramesInit, ClockInit, EchoInit DEF ApplicationsInit, IInv
<1>2. IInv /\ [ApplicationsNext]_applicationVars => IInv'
  <2> SUFFICES ASSUME IInv, [ApplicationsNext]_applicationVars
               PROVE  IInv'
    OBVIOUS
  <2> USE <1>0
  <2>1. /\ Ending!Next \/ UNCHANGED endingVars
        /\ Frame!Next \/ UNCHANGED frameVars
        /\ Clock!Next \/ UNCHANGED clockVars
        /\ Next \/ UNCHANGED dummyVars
    BY DEF ApplicationsNext, applicationVars
  <2>2. EndingIsRight'
    <3>1. CASE Ending!Next
      BY <3>1, EndingStep DEF IInv
    <3>2. CASE UNCHANGED endingVars
      BY <3>2 DEF IInv, EndingIsRight, EndingIsTyped, Uncounted, endingVars
    <3>3. QED
      BY <2>1, <3>1, <3>2
  <2>3. FramesAreRight' /\ ForkIsRight'
    <3>1. CASE Frame!Next
      BY <3>1, FramesStep DEF IInv
    <3>2. CASE UNCHANGED frameVars
      BY <3>2 DEF IInv, FramesAreRight, FramesAreTyped, FrameIsRight, ParentsAreRight, Wakes,
         ForkIsRight, frameVars
    <3>3. QED
      BY <2>1, <3>1, <3>2
  <2>4. ClockIsRight'
    <3>1. CASE Clock!Next
      BY <3>1, WorkerKeeps, ThreadKeeps, OutsideKeeps DEF IInv, Clock!Next
    <3>2. CASE UNCHANGED clockVars
      BY <3>2 DEF IInv, ClockIsRight, ClockIsTyped, LinesAreRight, WorkersAreRight, ThreadIsRight,
         Inserting, Clock!At, clockVars
    <3>3. QED
      BY <2>1, <3>1, <3>2
  <2>5. EchoIsKept'
    <3>1. CASE Next
      BY <3>1, EchoStep DEF IInv
    <3>2. CASE UNCHANGED dummyVars
      BY <3>2, EchoStutters DEF IInv
    <3>3. QED
      BY <2>1, <3>1, <3>2
  <2>6. QED
    BY <2>2, <2>3, <2>4, <2>5 DEF IInv
<1>3. QED
  BY <1>1, <1>2, PTL DEF ApplicationsSpec

\* When the destructor leaves its wait no loop runs any more, and when it is
\* through every session it cancelled has ended (echo-dummy/application.cpp:14, :74).
THEOREM EndCorrect == ApplicationsSpec => []LoopsEndFirst
<1>1. IInv => LoopsEndFirst
  BY EndingImplies DEF IInv, LoopsEndFirst
<1>2. QED
  BY <1>1, Invariance, PTL

\* A frame is freed once, at its end, and whoever waits is woken by one frame;
\* a fork goes on once, after all its joins (promise.h:85, iocp/lock.h:48).
THEOREM FramesCorrect == ApplicationsSpec => []FramesEndOnce
<1>1. IInv => FramesEndOnce
  BY FramesImply DEF IInv, FramesEndOnce
<1>2. QED
  BY <1>1, Invariance, PTL

\* A sleeper is at one place, is not posted before its time, and the thread of
\* the timer does not sleep while one waits in the queue (iocp/timer.h:21).
THEOREM SleepersCorrect == ApplicationsSpec => []SleepersAreKept
<1>1. IInv => SleepersAreKept
  BY ClockImplies, ApplicationsAssumption DEF IInv, SleepersAreKept
<1>2. QED
  BY <1>1, Invariance, PTL

\* While its session is open, the numbers a dummy waits for are exactly those on
\* their way, oldest first; no dummy finds a wrong echo, and the program is
\* stopped by a session that ended under a living dummy only (dummy.cpp:26-93).
THEOREM EchoCorrect == ApplicationsSpec => []EchoIsRight
<1>1. IInv => EchoIsRight
  BY EchoImplies DEF IInv
<1>2. QED
  BY <1>1, Invariance, PTL

=============================================================================
