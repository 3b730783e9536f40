------------------------- MODULE CommandRing_proof --------------------------
(***************************************************************************)
(* Proofs about CommandRing, for a ring of any size and any surfaces.      *)
(***************************************************************************)
EXTENDS CommandRing, SequenceTheorems, TLAPS

USE DEF ringVars, pushVars, popVars

\* The types of the ring, of the surfaces and of the consumer.
RingTypes == slots \in [Slots -> Commands] /\ writeIdx \in Slots /\ readIdx \in Slots
PushTypes ==
    /\ pushMx \in Surfaces \cup {Nobody}
    /\ pushPc \in [Surfaces -> {"idle", "checks", "stores", "publishes", "unlocks"}]
    /\ cmd \in [Surfaces -> Commands] /\ w \in [Surfaces -> Slots]
PopTypes ==
    /\ consumer \in {"none", "loop", "configure"}
    /\ popPc \in {"idle", "copies", "frees"}
    /\ item \in Commands /\ handed \in Commands

\* The surfaces take turns; one that found room still has it.
Turns == \A s \in Surfaces : pushPc[s] # "idle" => pushMx = s
Room ==
    \A s \in Surfaces : pushPc[s] \in {"stores", "publishes"} =>
        w[s] = writeIdx /\ Succ(writeIdx) # readIdx
Stored == \A s \in Surfaces : pushPc[s] = "publishes" => slots[writeIdx] = cmd[s]

\* The consumer copies a command that is there, and has it until it frees it.
Taken ==
    /\ popPc # "idle" => readIdx # writeIdx
    /\ popPc = "frees" => item = slots[readIdx]

RingInv == RingTypes /\ PushTypes /\ PopTypes /\ Turns /\ Room /\ Stored /\ Taken

-----------------------------------------------------------------------------
\* The index arithmetic of the ring: the index after one is an index, and no
\* other has it as the next.
LEMMA SuccSlots ==
    /\ \A i \in Slots : Succ(i) \in Slots /\ Succ(i) # i
    /\ \A i, j \in Slots : Succ(i) = Succ(j) => i = j
BY SizeAssumption DEF Slots, Succ

\* What the ring holds is shorter than the ring.
LEMMA LengthBounds ==
    ASSUME RingTypes
    PROVE  Length \in 0..N-1 /\ (Length = 0 <=> readIdx = writeIdx)
BY SizeAssumption DEF RingTypes, Length, Slots

\* The place of each command of the content is a slot, the first of them the
\* one read next, and the one written next none of them.
LEMMA Places ==
    ASSUME RingTypes, NEW k \in 1..Length
    PROVE  /\ Place(k) \in Slots /\ Place(k) # writeIdx
           /\ k = 1 => Place(k) = readIdx
BY SizeAssumption DEF RingTypes, Length, Place, Slots

\* The content is a sequence of commands, shorter than the ring.
ContentOk ==
    /\ Length \in 0..N-1
    /\ Content \in Seq(Commands) /\ Len(Content) = Length
    /\ \A k \in 1..Length : Content[k] = slots[Place(k)]

\* It is, as long as the ring keeps its types.
LEMMA ContentSeq == RingTypes => ContentOk
<1> SUFFICES ASSUME RingTypes PROVE ContentOk
  OBVIOUS
<1>1. Length \in 0..N-1
  BY LengthBounds
<1>2. \A k \in 1..Length : slots[Place(k)] \in Commands
  BY Places DEF RingTypes
<1>3. QED
  BY <1>1, <1>2, SizeAssumption DEF Content, ContentOk

-----------------------------------------------------------------------------
\* The invariant of the ring is inductive.
LEMMA RingInvariant == Spec => []RingInv
<1>1. Init => RingInv
  BY SizeAssumption, BlankAssumption
  DEF Init, RingInv, RingTypes, PushTypes, PopTypes, Turns, Room, Stored, Taken, Slots
<1>2. RingInv /\ [Next]_vars => RingInv'
  <2> SUFFICES ASSUME RingInv, [Next]_vars PROVE RingInv'
    OBVIOUS
  <2> USE SuccSlots DEF RingInv
  <2>1. ASSUME NEW s \in Surfaces, Enqueue(s) PROVE RingInv'
    <3> USE <2>1, NobodyAssumption DEF PushStep, RingTypes, PushTypes, PopTypes
    <3>1. ASSUME NEW c \in Commands, Lock(s, c) PROVE RingInv'
      BY <3>1 DEF Lock, Turns, Room, Stored, Taken
    <3>2. CASE CheckFull(s)
      BY <3>2 DEF CheckFull, Turns, Room, Stored, Taken
    <3>3. CASE Store(s)
      BY <3>3 DEF Store, Turns, Room, Stored, Taken
    <3>4. CASE Publish(s)
      BY <3>4 DEF Publish, Turns, Room, Stored, Taken
    <3>5. CASE Unlock(s)
      BY <3>5 DEF Unlock, Turns, Room, Stored, Taken
    <3>6. QED BY <3>1, <3>2, <3>3, <3>4, <3>5 DEF Enqueue
  <2>2. CASE StartLoop \/ StartDiscard \/ Found \/ FoundNone
    BY <2>2 DEF StartLoop, StartDiscard, Found, FoundNone, RingTypes, PushTypes, PopTypes,
                Turns, Room, Stored, Taken
  <2>3. CASE Copy
    BY <2>3 DEF Copy, RingTypes, PushTypes, PopTypes, Turns, Room, Stored, Taken
  <2>4. CASE Free
    BY <2>4 DEF Free, RingTypes, PushTypes, PopTypes, Turns, Room, Stored, Taken
  <2>5. CASE UNCHANGED vars
    BY <2>5 DEF vars, RingTypes, PushTypes, PopTypes, Turns, Room, Stored, Taken
  <2>6. QED
    BY <2>1, <2>2, <2>3, <2>4, <2>5 DEF Next, Drain
<1>3. QED
  BY <1>1, <1>2, PTL DEF Spec

\* ... and so the content is always a sequence of commands.
LEMMA ContentInvariant == Spec => []ContentOk
<1>1. RingInv => ContentOk
  BY ContentSeq DEF RingInv
<1>2. QED
  BY <1>1, RingInvariant, PTL

\* A surface never writes the slot the consumer copies from: the slot written
\* next is outside the content, and the one copied inside.
THEOREM Apart == Spec => []SlotsApart
<1>1. RingInv => SlotsApart
  BY DEF RingInv, SlotsApart, Room, Taken
<1>2. QED
  BY <1>1, RingInvariant, PTL

-----------------------------------------------------------------------------
\* A push makes the content one longer, and leaves the places of the rest ...
LEMMA PublishLength ==
    ASSUME RingInv, NEW s \in Surfaces, Publish(s)
    PROVE  /\ Length' = Length + 1
           /\ \A k \in 1..Length : Place(k)' = Place(k)
           /\ Place(Length)' = writeIdx
<1>1. /\ writeIdx \in 0..N-1 /\ readIdx \in 0..N-1 /\ readIdx' = readIdx
      /\ writeIdx' = IF writeIdx = N - 1 THEN 0 ELSE writeIdx + 1
      /\ writeIdx' # readIdx
  BY DEF RingInv, RingTypes, PushTypes, Room, Publish, PushStep, Succ, Slots
<1>2. Length' = Length + 1
  BY <1>1, SizeAssumption DEF Length
<1>3. \A k \in 1..Length : Place(k)' = Place(k)
  BY <1>1 DEF Place
<1>4. Place(Length)' = writeIdx
  <2>1. Place(Length)' = IF readIdx + Length + 1 <= N THEN readIdx + Length
                         ELSE readIdx + Length - N
    BY <1>1, <1>2, SizeAssumption DEF Place, Length
  <2>2. QED BY <1>1, <2>1, SizeAssumption DEF Length
<1>5. QED BY <1>2, <1>3, <1>4

\* ... and a pop makes it one shorter, each place the next one of before.
LEMMA FreeLength ==
    ASSUME RingInv, Free
    PROVE  /\ Length' = Length - 1 /\ Length > 0
           /\ \A k \in 1..Length - 1 : Place(k)' = Place(k + 1)
BY SizeAssumption DEF RingInv, RingTypes, Taken, Free, Length, Place, Succ, Slots

\* The commands a discard found are a part of the content, and none are left
\* once the discard is over.
OldInv ==
    /\ old \in Nat /\ old <= Length
    /\ consumer # "configure" => old = 0

\* OldInv is inductive, once the ring is known to be in order.
LEMMA OldInvariant == Spec => []OldInv
<1>1. Init => OldInv
  BY DEF Init, OldInv, Length
<1>2. RingInv /\ OldInv /\ [Next]_vars => OldInv'
  <2> SUFFICES ASSUME RingInv, OldInv, [Next]_vars PROVE OldInv'
    OBVIOUS
  <2>1. ASSUME NEW s \in Surfaces, Publish(s) PROVE OldInv'
    <3>1. Length \in Nat
      BY LengthBounds DEF RingInv
    <3>2. QED BY <2>1, <3>1, PublishLength DEF Publish, OldInv
  <2>2. ASSUME NEW s \in Surfaces, Enqueue(s), ~Publish(s) PROVE OldInv'
    BY <2>2 DEF Enqueue, Lock, CheckFull, Store, Unlock, OldInv, Length
  <2>3. CASE StartLoop \/ Found \/ Copy
    BY <2>3 DEF StartLoop, Found, Copy, OldInv, Length
  <2>4. CASE StartDiscard
    <3>1. Length \in Nat /\ Length' = Length
      BY <2>4, LengthBounds DEF RingInv, StartDiscard, Length
    <3>2. QED BY <2>4, <3>1 DEF StartDiscard, OldInv
  <2>5. CASE FoundNone
    <3>1. Length = 0 /\ Length' = Length
      BY <2>5, LengthBounds DEF RingInv, FoundNone, Length
    <3>2. QED BY <2>5, <3>1 DEF FoundNone, OldInv
  <2>6. CASE Free
    <3>1. Length \in Nat /\ Length' = Length - 1 /\ Length > 0
      BY <2>6, FreeLength, LengthBounds DEF RingInv
    <3>2. QED BY <2>6, <3>1 DEF Free, OldInv
  <2>7. CASE UNCHANGED vars
    BY <2>7 DEF vars, OldInv, Length
  <2>8. QED
    BY <2>1, <2>2, <2>3, <2>4, <2>5, <2>6, <2>7 DEF Next, Drain
<1>3. QED
  BY <1>1, <1>2, RingInvariant, PTL DEF Spec

\* Every variable of the ring keeps its type.
THEOREM RingTyping == Spec => []TypeOK
<1>1. RingInv /\ OldInv => TypeOK
  BY LengthBounds, SizeAssumption
  DEF RingInv, OldInv, RingTypes, PushTypes, PopTypes, TypeOK
<1>2. QED
  BY <1>1, RingInvariant, OldInvariant, PTL

\* What was queued when an Initialize began to discard is gone before the
\* loop runs: the discard ends only at an empty ring, and takes in order.
THEOREM Discarded == Spec => []OldDiscarded
<1>1. OldInv => OldDiscarded
  BY DEF OldInv, OldDiscarded
<1>2. QED
  BY <1>1, OldInvariant, PTL

-----------------------------------------------------------------------------
\* A publish appends the surface's command to the content.
LEMMA PublishAppends ==
    ASSUME RingInv, ContentOk, ContentOk', NEW s \in Surfaces, Publish(s)
    PROVE  Fifo!Push(cmd[s])
<1>1. /\ Length \in Nat /\ Length' \in 0..N-1
      /\ Content \in Seq(Commands) /\ Len(Content) = Length
      /\ \A k \in 1..Length : Content[k] = slots[Place(k)]
  BY SizeAssumption DEF ContentOk
<1>2. /\ Content' \in Seq(Commands) /\ Len(Content') = Length'
      /\ \A k \in 1..Length' : Content'[k] = slots'[Place(k)']
  BY DEF ContentOk
<1>3. /\ Length' = Length + 1 /\ slots' = slots /\ handed' = handed
      /\ \A k \in 1..Length : Place(k)' = Place(k)
  BY PublishLength DEF Publish
<1>4. Content'[Length + 1] = cmd[s]
  <2>1. Content'[Length'] = slots'[Place(Length)']
    BY <1>1, <1>2, <1>3
  <2>2. Place(Length)' = writeIdx
    BY PublishLength
  <2>3. slots[writeIdx] = cmd[s]
    BY DEF RingInv, PushTypes, Stored, Publish, PushStep
  <2>4. QED BY <1>3, <2>1, <2>2, <2>3
<1>5. Content' = Append(Content, cmd[s])
  <2>1. cmd[s] \in Commands
    BY DEF RingInv, PushTypes
  <2>2. /\ Append(Content, cmd[s]) \in Seq(Commands)
        /\ Len(Append(Content, cmd[s])) = Length + 1
        /\ \A k \in 1..Length : Append(Content, cmd[s])[k] = Content[k]
        /\ Append(Content, cmd[s])[Length + 1] = cmd[s]
    BY <1>1, <2>1
  <2>3. \A k \in 1..Length : Content'[k] = Content[k]
    BY <1>1, <1>2, <1>3
  <2>4. QED
    BY <1>1, <1>2, <1>3, <1>4, <2>2, <2>3, SeqEqual
<1>6. QED
  BY <1>1, <1>3, <1>5, SizeAssumption DEF Fifo!Push

\* The freeing of a slot hands the first command of the content over.
LEMMA FreePops ==
    ASSUME RingInv, ContentOk, ContentOk', Free
    PROVE  Fifo!Pop
<1>1. /\ Length \in Nat /\ Length > 0 /\ Length' = Length - 1
      /\ Content \in Seq(Commands) /\ Len(Content) = Length
      /\ \A k \in 1..Length : Content[k] = slots[Place(k)]
  BY FreeLength, SizeAssumption DEF ContentOk
<1>2. /\ Content' \in Seq(Commands) /\ Len(Content') = Length'
      /\ \A k \in 1..Length' : Content'[k] = slots'[Place(k)']
  BY DEF ContentOk
<1>3. slots' = slots /\ \A k \in 1..Length - 1 : Place(k)' = Place(k + 1)
  BY FreeLength DEF Free
<1>4. Content # <<>>
  BY <1>1
<1>5. handed' = Head(Content)
  <2>1. Place(1) = readIdx
    BY <1>1, Places DEF RingInv
  <2>2. Content[1] = slots[readIdx]
    BY <1>1, <2>1
  <2>3. QED
    BY <1>1, <2>2 DEF RingInv, Taken, Free
<1>6. Content' = Tail(Content)
  <2>1. /\ Tail(Content) \in Seq(Commands) /\ Len(Tail(Content)) = Length - 1
        /\ \A k \in 1..Length - 1 : Tail(Content)[k] = Content[k + 1]
    BY <1>1, <1>4, HeadTailProperties
  <2>2. \A k \in 1..Length - 1 : Content'[k] = Tail(Content)[k]
    BY <1>1, <1>2, <1>3, <2>1
  <2>3. QED
    BY <1>1, <1>2, <2>1, <2>2, SeqEqual
<1>7. QED
  BY <1>4, <1>5, <1>6 DEF Fifo!Pop

\* Every other step leaves the content and what was handed over last alone:
\* the slot a store writes is no place of the content.
LEMMA OthersStutter ==
    ASSUME RingInv, [Next]_vars, ~Free, \A s \in Surfaces : ~Publish(s)
    PROVE  UNCHANGED <<Content, handed>>
<1>1. ASSUME NEW s \in Surfaces, Store(s) PROVE UNCHANGED <<Content, handed>>
  <2>1. /\ Length' = Length /\ handed' = handed
        /\ \A k \in 1..Length : Place(k)' = Place(k)
    BY <1>1 DEF Store, Length, Place
  <2>2. \A k \in 1..Length : slots'[Place(k)] = slots[Place(k)]
    BY <1>1, Places DEF RingInv, RingTypes, PushTypes, Room, Store, PushStep
  <2>3. QED BY <2>1, <2>2 DEF Content
<1>2. ASSUME NEW s \in Surfaces, Enqueue(s), ~Store(s) PROVE UNCHANGED <<Content, handed>>
  BY <1>2 DEF Enqueue, Lock, CheckFull, Unlock, Content, Length, Place
<1>3. CASE StartLoop \/ StartDiscard \/ Found \/ FoundNone \/ Copy
  BY <1>3 DEF StartLoop, StartDiscard, Found, FoundNone, Copy, Content, Length, Place
<1>4. CASE UNCHANGED vars
  BY <1>4 DEF vars, Content, Length, Place
<1>5. QED
  BY <1>1, <1>2, <1>3, <1>4 DEF Next, Drain

\* The ring implements the queue, at any size and for any surfaces: nothing is
\* lost, handed over twice, torn or out of order.
THEOREM RingImplements == Spec => ImplementsFifo
<1>1. Init => Fifo!Init
  <2> SUFFICES ASSUME Init PROVE Fifo!Init
    OBVIOUS
  <2>1. Length = 0
    BY DEF Init, Length
  <2>2. Content = <<>>
    BY <2>1 DEF Content
  <2>3. QED BY <2>2, BlankAssumption DEF Init, Fifo!Init
<1>2. RingInv /\ ContentOk /\ ContentOk' /\ [Next]_vars => [Fifo!Next]_<<Content, handed>>
  <2> SUFFICES ASSUME RingInv, ContentOk, ContentOk', [Next]_vars
               PROVE [Fifo!Next]_<<Content, handed>>
    OBVIOUS
  <2>1. ASSUME NEW s \in Surfaces, Publish(s) PROVE Fifo!Next
    <3>1. cmd[s] \in Commands
      BY DEF RingInv, PushTypes
    <3>2. QED BY <2>1, <3>1, PublishAppends DEF Fifo!Next
  <2>2. CASE Free
    BY <2>2, FreePops DEF Fifo!Next
  <2>3. QED
    BY <2>1, <2>2, OthersStutter
<1>3. QED
  BY <1>1, <1>2, RingInvariant, ContentInvariant, PTL DEF Spec, ImplementsFifo, Fifo!Spec
=============================================================================
