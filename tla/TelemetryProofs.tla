--------------------------- MODULE TelemetryProofs ---------------------------
(***************************************************************************)
(* Proofs about TelemetryBuffer for every number of processes and every    *)
(* limit: the types, the bound of the file that several processes          *)
(* truncate, write and remove without a lock between them, and what        *)
(* processes that take turns at it keep: every event that has to be kept,  *)
(* and the order of what is delivered.                                     *)
(***************************************************************************)
EXTENDS TelemetryBuffer, SequenceTheorems, FiniteSetTheorems, TLAPS

\* What an emitter holds.
Holding == [pc : Steps, item : 0..MaxEvents, hand : Seq(Events), sent : 0..(MaxBuffer + 1)]

\* The emitters: an emit under way has an event of its own.
Emitted ==
  \A p \in Emitters : Emitting(p) => emitter[p].item \in Events

\* The processes that have opened the file and will write to it.
Writers == {p \in Emitters : At(p, "write")}

\* Who writes has truncated the file before: what is in it now was written by others
\* since, who would have to truncate it before they write again.
RoomLeft == Len(rows) <= (Cardinality(Emitters) - Cardinality(Writers)) * MaxBuffer

-----------------------------------------------------------------------------
\* Last keeps no more than it is asked to.
LEMMA LastType ==
  ASSUME NEW S, NEW s \in Seq(S), NEW n \in Nat
  PROVE  Last(s, n) \in Seq(S) /\ Len(Last(s, n)) <= n
<1>1. CASE Len(s) <= n
  BY <1>1 DEF Last
<1>2. CASE ~(Len(s) <= n)
  <2>1. Len(s) - n + 1 \in 1..(Len(s) + 1)
    BY <1>2
  <2>2. /\ SubSeq(s, Len(s) - n + 1, Len(s)) \in Seq(S)
        /\ Len(SubSeq(s, Len(s) - n + 1, Len(s))) = n
    BY <2>1, <1>2, SubSeqProperties
  <2> QED
    BY <2>2, <1>2 DEF Last
<1> QED
  BY <1>1, <1>2

\* A part of a sequence has elements of the same set.
LEMMA PartType ==
  ASSUME NEW S, NEW s \in Seq(S), NEW m \in Nat, NEW n \in Nat, n <= Len(s)
  PROVE  /\ SubSeq(s, m + 1, n) \in Seq(S)
         /\ Len(SubSeq(s, m + 1, n)) <= n
         /\ Elements(SubSeq(s, m + 1, n)) \subseteq S
<1>1. /\ SubSeq(s, m + 1, n) \in Seq(S)
      /\ Len(SubSeq(s, m + 1, n)) <= n
  BY SubSeqProperties
<1> QED
  BY <1>1 DEF Elements

\* The event of an emit is put at the end of what is read.
LEMMA QueuedType ==
  ASSUME TypeOK, NEW s \in Seq(Events), NEW e \in Events, Len(s) <= MaxBuffer
  PROVE  Queued(s, e) \in Seq(Events) /\ Len(Queued(s, e)) <= MaxBuffer + 1
  BY TelemetryAssumption DEF Queued

-----------------------------------------------------------------------------
(* Types.                                                                  *)

Typed == TypeOK /\ Emitted

LEMMA IdleType == Idle \in Holding /\ Idle.pc = "idle" /\ Len(Idle.hand) = 0
<1>1. << >> \in Seq(Events) /\ Len(<< >>) = 0
  OBVIOUS
<1>2. 0 \in 0..MaxEvents /\ 0 \in 0..(MaxBuffer + 1)
  BY TelemetryAssumption
<1> QED
  BY <1>1, <1>2 DEF Idle, Holding, Steps

LEMMA InitTyped == Init => Typed
<1> SUFFICES ASSUME Init PROVE Typed
  OBVIOUS
<1>1. emitter \in [Emitters -> Holding] /\ \A p \in Emitters : emitter[p] = Idle
  BY IdleType DEF Init
<1>2. rows \in Seq(Events) /\ emitted \in 0..MaxEvents
  BY TelemetryAssumption DEF Init
<1>3. \A p \in Emitters : Len(emitter[p].hand) <= MaxBuffer + 1
  BY <1>1, IdleType, TelemetryAssumption
<1>4. Emitted
  BY <1>1, IdleType DEF Emitted, Emitting
<1> QED
  BY <1>1, <1>2, <1>3, <1>4 DEF Init, Typed, TypeOK, Holding, Files

\* An emitter that moves on holds what it held.
LEMMA GotoTyped ==
  ASSUME Typed, NEW p \in Emitters, NEW step \in Steps, Goto(p, step), Emitting(p)
  PROVE  /\ emitter' \in [Emitters -> Holding]
         /\ \A q \in Emitters : Len(emitter'[q].hand) <= MaxBuffer + 1
         /\ Emitted'
<1> USE DEF Typed, TypeOK, Holding, Emitted, Emitting, Goto
<1>1. emitter' \in [Emitters -> Holding]
  OBVIOUS
<1> QED
  BY <1>1

LEMMA EndEmitTyped ==
  ASSUME Typed, NEW p \in Emitters, EndEmit(p)
  PROVE  /\ emitter' \in [Emitters -> Holding]
         /\ \A q \in Emitters : Len(emitter'[q].hand) <= MaxBuffer + 1
         /\ Emitted'
<1> USE TelemetryAssumption DEF Typed, TypeOK, Holding, Emitted, Emitting, EndEmit
<1>1. emitter' \in [Emitters -> Holding]
  BY IdleType
<1> QED
  BY <1>1, IdleType

\* An emitter that goes on with other things in its hand.
LEMMA HoldsTyped ==
  ASSUME Typed, NEW p \in Emitters, NEW row \in Holding,
         Len(row.hand) <= MaxBuffer + 1, row.item \in Events,
         emitter' = [emitter EXCEPT ![p] = row]
  PROVE  /\ emitter' \in [Emitters -> Holding]
         /\ \A q \in Emitters : Len(emitter'[q].hand) <= MaxBuffer + 1
         /\ Emitted'
  BY DEF Typed, TypeOK, Holding, Emitted, Emitting

LEMMA BeginTyped ==
  ASSUME Typed, NEW p \in Emitters, Begin(p)
  PROVE  Typed'
<1> USE TelemetryAssumption DEF Typed, TypeOK
<1> DEFINE row == [pc |-> IF Exists THEN "read" ELSE "post",
                   item |-> emitted + 1,
                   hand |-> IF Exists THEN << >> ELSE Queued(<< >>, emitted + 1),
                   sent |-> 0]
<1>1. emitted + 1 \in Events /\ emitted + 1 \in 0..MaxEvents
  BY DEF Begin, Events
<1>2. /\ Queued(<< >>, emitted + 1) \in Seq(Events)
      /\ Len(Queued(<< >>, emitted + 1)) <= MaxBuffer + 1
  <2>1. << >> \in Seq(Events) /\ Len(<< >>) <= MaxBuffer
    OBVIOUS
  <2> QED
    BY <1>1, <2>1, QueuedType
<1>3. row.hand \in Seq(Events) /\ Len(row.hand) <= MaxBuffer + 1
  <2>1. << >> \in Seq(Events) /\ Len(<< >>) = 0
    OBVIOUS
  <2>2. CASE Exists
    BY <2>1, <2>2
  <2>3. CASE ~Exists
    BY <1>2, <2>3
  <2> QED
    BY <2>2, <2>3
<1>4. row \in Holding /\ row.item \in Events
  <2>1. row.pc \in Steps
    BY DEF Steps
  <2>2. 0 \in 0..(MaxBuffer + 1)
    OBVIOUS
  <2>3. row = [pc |-> row.pc, item |-> emitted + 1, hand |-> row.hand, sent |-> 0]
    OBVIOUS
  <2>4. row.item = emitted + 1
    OBVIOUS
  <2> HIDE DEF row
  <2> QED
    BY <1>1, <1>3, <2>1, <2>2, <2>3, <2>4 DEF Holding
<1>5. emitter' = [emitter EXCEPT ![p] = row]
  BY DEF Begin
<1> HIDE DEF row
<1>6. /\ emitter' \in [Emitters -> Holding]
      /\ \A q \in Emitters : Len(emitter'[q].hand) <= MaxBuffer + 1
      /\ Emitted'
  BY <1>3, <1>4, <1>5, HoldsTyped
<1>7. emitted' \in 0..MaxEvents /\ overlapped' \in BOOLEAN
  BY DEF Begin
<1> QED
  BY <1>6, <1>7 DEF Begin, Holding

\* What is written and what is read are sequences of events.
LEMMA LegibleType ==
  ASSUME NEW s \in Seq(Events)
  PROVE  Legible(s) \in Seq(Events) /\ Len(Legible(s)) <= Len(s)
<1>1. CASE s # << >>
  <2>1. Len(s) - 1 \in Nat /\ Len(s) - 1 <= Len(s) /\ Len(s) \in Nat
    BY <1>1
  <2>2. /\ SubSeq(s, 0 + 1, Len(s) - 1) \in Seq(Events)
        /\ Len(SubSeq(s, 0 + 1, Len(s) - 1)) <= Len(s) - 1
    BY <2>1, PartType
  <2>3. Len(SubSeq(s, 1, Len(s) - 1)) \in Nat /\ 0 + 1 = 1
    BY <2>2
  <2> QED
    BY <2>1, <2>2, <2>3 DEF Legible
<1> QED
  BY <1>1 DEF Legible

LEMMA OverlayType ==
  ASSUME TypeOK, NEW s \in Seq(Events), NEW t \in Overlay(s)
  PROVE  t \in Seq(Events) /\ (t = s \/ Len(t) <= Len(s) + Len(rows))
<1>1. ASSUME NEW k \in 2..Len(rows), t = s \o SubSeq(rows, k, Len(rows))
      PROVE  t \in Seq(Events) /\ Len(t) <= Len(s) + Len(rows)
  <2>1. rows \in Seq(Events) /\ Len(rows) \in Nat /\ Len(s) \in Nat
    BY DEF TypeOK
  <2>2. /\ SubSeq(rows, k, Len(rows)) \in Seq(Events)
        /\ Len(SubSeq(rows, k, Len(rows))) = Len(rows) - k + 1
    BY <2>1, SubSeqProperties
  <2>3. t \in Seq(Events) /\ Len(t) = Len(s) + (Len(rows) - k + 1)
    BY <1>1, <2>1, <2>2
  <2> QED
    BY <2>1, <2>3
<1> QED
  BY <1>1 DEF Overlay

LEMMA VisibleType ==
  ASSUME TypeOK, NEW p \in Emitters, NEW found \in Visible(p)
  PROVE  found \in Seq(Events)
<1>1. ASSUME NEW q \in Emitters, NEW n \in 0..(Len(Retained(emitter[q].hand)) - 1)
      PROVE  SubSeq(Retained(emitter[q].hand), 1, n) \in Seq(Events)
  <2>1. emitter[q].hand \in Seq(Events)
    BY DEF TypeOK
  <2>2. Retained(emitter[q].hand) \in Seq(Events)
    BY <2>1, LastType, TelemetryAssumption DEF Retained
  <2> HIDE DEF Retained
  <2> QED
    BY <2>2, SubSeqProperties
<1> QED
  BY <1>1 DEF Visible, TypeOK

LEMMA ReadBufferTyped ==
  ASSUME Typed, NEW p \in Emitters, ReadBuffer(p)
  PROVE  Typed'
<1> USE TelemetryAssumption DEF Typed, TypeOK
<1>0. Emitting(p) /\ emitter[p] \in Holding
  BY DEF ReadBuffer, At, Emitting, Holding
<1>1. CASE Goto(p, "raised")
  BY <1>0, <1>1, GotoTyped DEF ReadBuffer, Holding, Steps
<1>2. ASSUME NEW found \in Visible(p),
             emitter' = [emitter EXCEPT
                           ![p].pc = "post",
                           ![p].hand = Queued(Last(found, MaxBuffer), emitter[p].item)]
      PROVE  Typed'
  <2> DEFINE hand == Queued(Last(found, MaxBuffer), emitter[p].item)
  <2> DEFINE row == [emitter[p] EXCEPT !.pc = "post", !.hand = hand]
  <2>1. emitter[p].item \in Events
    BY <1>0 DEF Emitted
  <2>2. hand \in Seq(Events) /\ Len(hand) <= MaxBuffer + 1
    <3>1. found \in Seq(Events)
      BY VisibleType
    <3>2. Last(found, MaxBuffer) \in Seq(Events) /\ Len(Last(found, MaxBuffer)) <= MaxBuffer
      BY <3>1, LastType
    <3> QED
      BY <2>1, <3>2, QueuedType
  <2>3. emitter' = [emitter EXCEPT ![p] = row]
    BY <1>2
  <2> HIDE DEF hand
  <2>4. row \in Holding /\ Len(row.hand) <= MaxBuffer + 1 /\ row.item \in Events
    BY <1>0, <2>1, <2>2 DEF Holding, Steps
  <2> HIDE DEF row
  <2>5. /\ emitter' \in [Emitters -> Holding]
        /\ \A q \in Emitters : Len(emitter'[q].hand) <= MaxBuffer + 1
        /\ Emitted'
    BY <2>3, <2>4, HoldsTyped
  <2> QED
    BY <2>5 DEF ReadBuffer, Holding
<1> QED
  BY <1>1, <1>2 DEF ReadBuffer

LEMMA PostBatchTyped ==
  ASSUME Typed, NEW p \in Emitters, PostBatch(p)
  PROVE  Typed'
<1> USE TelemetryAssumption DEF Typed, TypeOK
<1> DEFINE hand == emitter[p].hand
           sent == emitter[p].sent
           upto == IF sent + BatchSize < Len(hand) THEN sent + BatchSize ELSE Len(hand)
           accepted == delivered \cup Elements(SubSeq(hand, sent + 1, upto))
<1>0. Emitting(p) /\ emitter[p] \in Holding
  BY DEF PostBatch, At, Emitting, Holding
<1>1. hand \in Seq(Events) /\ Len(hand) <= MaxBuffer + 1 /\ sent \in Nat
  BY <1>0 DEF Holding
<1>2. upto \in Nat /\ upto <= Len(hand) /\ upto \in 0..(MaxBuffer + 1)
  BY <1>1
<1>3. accepted \subseteq Events
  BY <1>1, <1>2, PartType
<1>4. \/ /\ delivered' = accepted
         /\ emitter' = [emitter EXCEPT
                          ![p].sent = upto,
                          ![p].pc = IF upto = Len(hand) THEN "discard" ELSE "post"]
      \/ delivered' \in {delivered, accepted} /\ Goto(p, "open")
  BY DEF PostBatch
<1> HIDE DEF accepted, upto
<1>5. delivered' \subseteq Events
  BY <1>3, <1>4
<1>6. /\ emitter' \in [Emitters -> Holding]
      /\ \A q \in Emitters : Len(emitter'[q].hand) <= MaxBuffer + 1
      /\ Emitted'
  <2>1. CASE Goto(p, "open")
    BY <1>0, <2>1, GotoTyped DEF Steps
  <2>2. CASE emitter' = [emitter EXCEPT
                          ![p].sent = upto,
                          ![p].pc = IF upto = Len(hand) THEN "discard" ELSE "post"]
    <3> DEFINE row == [emitter[p] EXCEPT
                         !.sent = upto, !.pc = IF upto = Len(hand) THEN "discard" ELSE "post"]
    <3>1. emitter' = [emitter EXCEPT ![p] = row]
      BY <2>2
    <3>2. row \in Holding /\ row.hand = hand /\ row.item = emitter[p].item
      BY <1>0, <1>2 DEF Holding, Steps
    <3>3. row.item \in Events
      BY <1>0, <3>2 DEF Emitted
    <3> HIDE DEF row
    <3> QED
      BY <1>1, <3>1, <3>2, <3>3, HoldsTyped
  <2> QED
    BY <1>4, <2>1, <2>2
<1> QED
  BY <1>5, <1>6 DEF PostBatch, Holding

LEMMA DiscardTyped ==
  ASSUME Typed, NEW p \in Emitters, Discard(p)
  PROVE  Typed'
<1>1. Emitting(p) /\ "unlink" \in Steps
  BY DEF Discard, At, Emitting, Steps
<1> QED
  BY <1>1, GotoTyped, EndEmitTyped DEF Discard, Typed, TypeOK, Holding

LEMMA UnlinkTyped ==
  ASSUME Typed, NEW p \in Emitters, Unlink(p)
  PROVE  Typed'
<1> USE TelemetryAssumption DEF Typed, TypeOK
<1>0. Emitting(p) /\ "open" \in Steps /\ "orphan" \in Steps
  BY DEF Unlink, At, Emitting, Steps
<1>1. /\ emitter' \in [Emitters -> Holding]
      /\ \A q \in Emitters : Len(emitter'[q].hand) <= MaxBuffer + 1
      /\ Emitted'
  <2>1. CASE Exists
    <3> DEFINE after(q) == IF q = p THEN Idle
                           ELSE IF At(q, "write") THEN [emitter[q] EXCEPT !.pc = "orphan"]
                           ELSE emitter[q]
    <3>1. emitter' = [q \in Emitters |-> after(q)]
      BY <2>1 DEF Unlink
    <3>2. ASSUME NEW q \in Emitters
          PROVE  /\ after(q) \in Holding
                 /\ Len(after(q).hand) <= MaxBuffer + 1
                 /\ after(q).pc \notin {"idle", "raised"} => after(q).item \in Events
      <4>0. emitter[q] \in Holding /\ Len(emitter[q].hand) <= MaxBuffer + 1
        BY DEF Holding
      <4>1. CASE q = p
        BY <4>1, IdleType
      <4>2. CASE q # p /\ At(q, "write")
        <5>1. emitter[q].item \in Events
          BY <4>2 DEF At, Emitted, Emitting
        <5> QED
          BY <1>0, <4>0, <4>2, <5>1 DEF Holding
      <4>3. CASE q # p /\ ~At(q, "write")
        BY <4>0, <4>3 DEF Emitted, Emitting
      <4> QED
        BY <4>1, <4>2, <4>3
    <3> HIDE DEF after
    <3>3. emitter' \in [Emitters -> Holding]
      BY <3>1, <3>2
    <3>4. \A q \in Emitters : emitter'[q] = after(q)
      BY <3>1
    <3>5. Emitted'
      BY <3>2, <3>4 DEF Emitted, Emitting
    <3> QED
      BY <3>2, <3>3, <3>4, <3>5
  <2>2. CASE ~Exists
    BY <1>0, <2>2, GotoTyped DEF Unlink, Holding
  <2> QED
    BY <2>1, <2>2
<1>2. rows' \in Seq(Events) /\ file' \in Files
  BY DEF Unlink, Files
<1> QED
  BY <1>1, <1>2 DEF Unlink, Holding

LEMMA OpenBufferTyped ==
  ASSUME Typed, NEW p \in Emitters, OpenBuffer(p)
  PROVE  Typed'
<1>1. Emitting(p) /\ "write" \in Steps
  BY DEF OpenBuffer, At, Emitting, Steps
<1>2. rows' \in Seq(Events) /\ file' \in Files
  BY DEF OpenBuffer, Files
<1> QED
  BY <1>1, <1>2, GotoTyped DEF OpenBuffer, Typed, TypeOK, Holding

LEMMA WriteTyped ==
  ASSUME Typed, NEW p \in Emitters,
         WriteBuffer(p) \/ WriteOrphan(p) \/ WriteCutShort(p) \/ Killed(p)
  PROVE  Typed'
<1> USE TelemetryAssumption DEF Typed, TypeOK
<1>0. emitter[p] \in Holding /\ emitter[p].hand \in Seq(Events)
  BY DEF Holding
<1>1. Retained(emitter[p].hand) \in Seq(Events)
  BY <1>0, LastType DEF Retained
<1>2. EndEmit(p)
  BY DEF WriteBuffer, WriteOrphan, WriteCutShort, Killed
<1>3. rows' \in Seq(Events)
  <2>1. CASE WriteBuffer(p)
    <3>1. Legible(Retained(emitter[p].hand)) \in Seq(Events)
      BY <1>1, LegibleType
    <3> QED
      BY <2>1, <3>1, OverlayType DEF WriteBuffer
  <2>2. ASSUME NEW n \in 0..(Len(Retained(emitter[p].hand)) - 1),
               rows' \in Overlay(SubSeq(Retained(emitter[p].hand), 1, n))
        PROVE  rows' \in Seq(Events)
    <3>1. SubSeq(Retained(emitter[p].hand), 1, n) \in Seq(Events)
      <4> HIDE DEF Retained
      <4> QED BY <1>1, SubSeqProperties
    <3> QED
      BY <2>2, <3>1, OverlayType
  <2> QED
    BY <2>1, <2>2 DEF WriteOrphan, Killed, WriteCutShort
<1>4. forfeited' \subseteq Events
  <2>1. Elements(emitter[p].hand) \subseteq Events
    BY <1>0 DEF Elements
  <2>2. CASE WriteCutShort(p)
    BY <2>1, <2>2 DEF WriteCutShort
  <2>3. CASE Killed(p)
    <3>1. emitter[p].item \in Events
      BY <2>3 DEF Killed, Emitted
    <3> QED
      BY <2>1, <2>3, <3>1 DEF Killed
  <2> QED
    BY <2>2, <2>3 DEF WriteBuffer, WriteOrphan
<1>5. file' \in Files /\ UNCHANGED <<delivered, emitted, overlapped>>
  BY DEF WriteBuffer, WriteOrphan, WriteCutShort, Killed, Files
<1> QED
  BY <1>2, <1>3, <1>4, <1>5, EndEmitTyped DEF Holding

LEMMA TypedInductive == Spec => []Typed
<1>1. Typed /\ [Next]_vars => Typed'
  <2> SUFFICES ASSUME Typed, [Next]_vars PROVE Typed'
    OBVIOUS
  <2>1. CASE UNCHANGED vars
    BY <2>1 DEF vars, Typed, TypeOK, Emitted, Emitting
  <2>2. CASE Next
    BY <2>2, BeginTyped, ReadBufferTyped, PostBatchTyped, DiscardTyped, UnlinkTyped,
       OpenBufferTyped, WriteTyped DEF Next, EmitStep
  <2> QED
    BY <2>1, <2>2
<1> QED
  BY InitTyped, <1>1, PTL DEF Spec

\* Every emitter, row and event is well typed, whatever the limits.
THEOREM TelemetryTypes == Spec => []TypeOK
<1>1. Typed => TypeOK
  BY DEF Typed
<1> QED
  BY TypedInductive, <1>1, PTL

-----------------------------------------------------------------------------
(* The bound.                                                              *)

\* One more writer takes one more share of the room.
LEMMA Share ==
  ASSUME NEW a \in Int, NEW b \in Int, NEW m \in Nat, a <= b
  PROVE  /\ a * m <= b * m
         /\ a < b => a * m + m <= b * m
<1>1. a * m + m = (a + 1) * m
  BY SMT
<1>2. a * m <= b * m
  BY SMT
<1>3. a + 1 <= b => (a + 1) * m <= b * m
  BY SMT
<1> QED
  BY <1>1, <1>2, <1>3

LEMMA SomeEmitters ==
  ASSUME NEW W \in SUBSET Emitters
  PROVE  /\ IsFiniteSet(W)
         /\ Cardinality(W) \in Nat
         /\ Cardinality(Emitters) \in Nat
         /\ Cardinality(W) <= Cardinality(Emitters)
  BY TelemetryAssumption, FS_Subset, FS_CardinalityType

\* What is left of the room when the file is empty, when nobody starts to write and
\* when a writer adds at most its share.
LEMMA RoomWhenEmpty ==
  ASSUME rows' = << >>
  PROVE  RoomLeft'
<1>1. Writers' \in SUBSET Emitters
  BY DEF Writers
<1>2. Cardinality(Writers') <= Cardinality(Emitters)
  BY <1>1, SomeEmitters
<1>3. 0 * MaxBuffer <= (Cardinality(Emitters) - Cardinality(Writers')) * MaxBuffer
  BY <1>1, <1>2, SomeEmitters, Share, TelemetryAssumption
<1>4. Len(rows') = 0
  OBVIOUS
<1> QED
  BY <1>3, <1>4, TelemetryAssumption DEF RoomLeft

LEMMA RoomWhenQuiet ==
  ASSUME RoomLeft, TypeOK, rows' = rows, Writers' \subseteq Writers
  PROVE  RoomLeft'
<1>1. Writers \in SUBSET Emitters /\ Writers' \in SUBSET Emitters
  BY DEF Writers
<1>2. Cardinality(Writers') <= Cardinality(Writers)
  BY <1>1, SomeEmitters, FS_Subset
<1>3. (Cardinality(Emitters) - Cardinality(Writers)) * MaxBuffer
        <= (Cardinality(Emitters) - Cardinality(Writers')) * MaxBuffer
  BY <1>1, <1>2, SomeEmitters, Share, TelemetryAssumption
<1> DEFINE before == (Cardinality(Emitters) - Cardinality(Writers)) * MaxBuffer
           after == (Cardinality(Emitters) - Cardinality(Writers')) * MaxBuffer
<1>4. before \in Int /\ after \in Int /\ Len(rows) \in Nat
  BY <1>1, SomeEmitters, TelemetryAssumption DEF TypeOK
<1>5. Len(rows) <= before
  BY DEF RoomLeft
<1> HIDE DEF before, after
<1>6. Len(rows') <= after
  BY <1>3, <1>4, <1>5 DEF before, after
<1> QED
  BY <1>6 DEF RoomLeft, after

LEMMA RoomAfterWriting ==
  ASSUME RoomLeft, TypeOK, NEW p \in Emitters, p \in Writers, Writers' = Writers \ {p},
         Len(rows') \in Nat,
         Len(rows') <= MaxBuffer \/ Len(rows') <= Len(rows) + MaxBuffer
  PROVE  RoomLeft'
<1> DEFINE all == Cardinality(Emitters)
           w == Cardinality(Writers)
           before == (all - w) * MaxBuffer
           after == (all - (w - 1)) * MaxBuffer
<1>1. Writers \in SUBSET Emitters
  BY DEF Writers
<1>2. Cardinality(Writers') = w - 1
  BY <1>1, SomeEmitters, FS_RemoveElement
<1>3. all \in Nat /\ w \in Nat /\ w <= all /\ MaxBuffer \in Nat /\ Len(rows) \in Nat
  BY <1>1, SomeEmitters, TelemetryAssumption DEF TypeOK
<1> HIDE DEF all, w
<1>4. before + MaxBuffer <= after /\ 0 * MaxBuffer <= before /\ before \in Int /\ after \in Int
  BY <1>3, Share
<1>5. Len(rows) <= before
  BY DEF RoomLeft, all, w
<1> HIDE DEF before, after
<1>6. Len(rows') <= after
  BY <1>3, <1>4, <1>5
<1> QED
  BY <1>2, <1>6 DEF RoomLeft, after, all

\* A writer that is done leaves the writers.
LEMMA WriterLeaves ==
  ASSUME TypeOK, NEW p \in Emitters, At(p, "write"), EndEmit(p)
  PROVE  Writers' = Writers \ {p} /\ p \in Writers
  BY DEF TypeOK, Writers, At, EndEmit, Idle

\* An emitter that does not go to "write" adds no writer.
LEMMA NoNewWriter ==
  ASSUME TypeOK, NEW p \in Emitters,
         \A q \in Emitters \ {p} : emitter'[q] = emitter[q],
         emitter'[p].pc # "write"
  PROVE  Writers' \subseteq Writers
  BY DEF Writers, At

LEMMA RoomStep ==
  ASSUME Typed, RoomLeft, NEW p \in Emitters, Begin(p) \/ EmitStep(p) \/ Killed(p)
  PROVE  RoomLeft'
<1> USE DEF Typed
<1>1. CASE Begin(p) \/ ReadBuffer(p) \/ PostBatch(p) \/ Discard(p)
  <2>1. /\ \A q \in Emitters \ {p} : emitter'[q] = emitter[q]
        /\ emitter'[p].pc # "write"
    BY <1>1 DEF Begin, ReadBuffer, PostBatch, Discard, Goto, EndEmit, Idle, TypeOK
  <2>2. rows' = rows
    BY <1>1 DEF Begin, ReadBuffer, PostBatch, Discard
  <2> QED
    BY <2>1, <2>2, NoNewWriter, RoomWhenQuiet
<1>2. CASE Unlink(p) \/ OpenBuffer(p)
  BY <1>2, RoomWhenEmpty DEF Unlink, OpenBuffer
<1>3. CASE WriteOrphan(p) \/ Killed(p)
  <2>1. /\ \A q \in Emitters \ {p} : emitter'[q] = emitter[q]
        /\ emitter'[p].pc # "write"
    BY <1>3 DEF WriteOrphan, Killed, EndEmit, Idle, TypeOK
  <2>2. rows' = rows
    BY <1>3 DEF WriteOrphan, Killed
  <2> QED
    BY <2>1, <2>2, NoNewWriter, RoomWhenQuiet
<1>4. CASE WriteBuffer(p) \/ WriteCutShort(p)
  <2> DEFINE kept == Retained(emitter[p].hand)
  <2>0. Len(rows) \in Nat
    BY DEF TypeOK
  <2>1. kept \in Seq(Events) /\ Len(kept) <= MaxBuffer /\ Len(kept) \in Nat
    BY LastType, TelemetryAssumption DEF Retained, TypeOK
  <2> HIDE DEF kept
  <2>2. /\ Len(rows') \in Nat
        /\ Len(rows') <= MaxBuffer \/ Len(rows') <= Len(rows) + MaxBuffer
    <3>1. CASE rows' = rows
      BY <2>0, <3>1, TelemetryAssumption
    <3>2. ASSUME NEW s \in Seq(Events), Len(s) <= MaxBuffer, rows' \in Overlay(s)
          PROVE  Len(rows') \in Nat /\ (Len(rows') <= MaxBuffer \/ Len(rows') <= Len(rows) + MaxBuffer)
      <4>1. rows' \in Seq(Events) /\ (rows' = s \/ Len(rows') <= Len(s) + Len(rows))
        BY <3>2, OverlayType
      <4>2. Len(rows') \in Nat /\ Len(s) \in Nat
        BY <4>1
      <4> QED
        BY <2>0, <3>2, <4>1, <4>2, TelemetryAssumption
    <3>3. Legible(kept) \in Seq(Events) /\ Len(Legible(kept)) <= MaxBuffer
      <4>1. Legible(kept) \in Seq(Events) /\ Len(Legible(kept)) <= Len(kept)
        BY <2>1, LegibleType
      <4>2. Len(Legible(kept)) \in Nat
        BY <4>1
      <4> QED
        BY <2>1, <4>1, <4>2, TelemetryAssumption
    <3>4. ASSUME NEW n \in 0..(Len(kept) - 1)
          PROVE  SubSeq(kept, 1, n) \in Seq(Events) /\ Len(SubSeq(kept, 1, n)) <= MaxBuffer
      <4>1. SubSeq(kept, 1, n) \in Seq(Events) /\ Len(SubSeq(kept, 1, n)) = n
        BY <2>1, SubSeqProperties
      <4> QED
        BY <2>1, <4>1, TelemetryAssumption
    <3> QED
      BY <1>4, <3>1, <3>2, <3>3, <3>4 DEF WriteBuffer, WriteCutShort, kept
  <2>3. At(p, "write") /\ EndEmit(p)
    BY <1>4 DEF WriteBuffer, WriteCutShort
  <2> QED
    BY <2>2, <2>3, WriterLeaves, RoomAfterWriting
<1> QED
  BY <1>1, <1>2, <1>3, <1>4 DEF EmitStep

\* The rows of the buffer file never exceed max_buffer_events for each process, for
\* any number of processes, limits, kills, full disks and Monitor outages.
THEOREM BufferStaysBounded == Spec => []BufferBounded
<1>1. Init => RoomLeft
  <2> SUFFICES ASSUME Init PROVE RoomLeft
    OBVIOUS
  <2>1. Writers = {} /\ Len(rows) = 0
    BY DEF Init, Writers, At, Idle
  <2>2. Cardinality(Writers) = 0 /\ Cardinality(Emitters) \in Nat
    BY <2>1, FS_EmptySet, TelemetryAssumption, FS_CardinalityType
  <2>3. 0 * MaxBuffer <= (Cardinality(Emitters) - 0) * MaxBuffer
    BY <2>2, Share, TelemetryAssumption
  <2> QED
    BY <2>1, <2>2, <2>3, TelemetryAssumption DEF RoomLeft
<1>2. Typed /\ RoomLeft /\ [Next]_vars => RoomLeft'
  <2> SUFFICES ASSUME Typed, RoomLeft, [Next]_vars PROVE RoomLeft'
    OBVIOUS
  <2>1. CASE UNCHANGED vars
    BY <2>1 DEF vars, RoomLeft, Writers, At
  <2> QED
    BY <2>1, RoomStep DEF Next
<1>3. Typed /\ RoomLeft => BufferBounded
  <2> SUFFICES ASSUME Typed, RoomLeft PROVE BufferBounded
    OBVIOUS
  <2> DEFINE all == Cardinality(Emitters)
             w == Cardinality(Writers)
  <2>1. Writers \in SUBSET Emitters
    BY DEF Writers
  <2>2. all \in Nat /\ w \in Nat /\ MaxBuffer \in Nat /\ Len(rows) \in Nat
    BY <2>1, SomeEmitters, TelemetryAssumption DEF Typed, TypeOK
  <2>3. Len(rows) <= (all - w) * MaxBuffer
    BY DEF RoomLeft
  <2> HIDE DEF all, w
  <2>4. /\ (all - w) * MaxBuffer <= all * MaxBuffer
        /\ (all - w) * MaxBuffer \in Int /\ all * MaxBuffer \in Int
    BY <2>2, Share
  <2>5. Len(rows) <= all * MaxBuffer
    BY <2>2, <2>3, <2>4
  <2> QED
    BY <2>5 DEF BufferBounded, all
<1> QED
  BY TypedInductive, <1>1, <1>2, <1>3, PTL DEF Spec
-----------------------------------------------------------------------------
(* Emits that take turns.  While no two emits overlap, the others are idle *)
(* and what one emit knows of the file, of its hand and of the Monitor is  *)
(* a fact about values: r is its record, the rest are the variables.       *)

Holders == {"post", "discard", "unlink", "open", "write"}

\* Events in the order of their emits.
Spread(s) == \A i, k \in DOMAIN s : i <= k => s[k] - s[i] >= k - i

\* What waits was emitted after all that was delivered.
Later(del, S) == \A f \in del, e \in S : e \in del \/ f < e

File(ex, rw, del, n) ==
  /\ ex \/ rw = << >>
  /\ Len(rw) <= MaxBuffer
  /\ Spread(rw)
  /\ \A e \in Elements(rw) \cup del : e <= n
  /\ Later(del, Elements(rw))

InHand(r, rw, del, n) ==
  /\ r.hand # << >>
  /\ Spread(r.hand)
  /\ r.hand[Len(r.hand)] = n
  /\ Later(del, Elements(r.hand))
  /\ IF r.pc = "write" THEN rw = << >> ELSE r.hand = Append(rw, n)

Turn(r, ex, rw, del, n) ==
  /\ r.pc # "idle" => r.item = n
  /\ r.pc \in {"read", "unlink", "write"} => ex
  /\ r.pc = "read" => r.hand = << >> /\ r.sent = 0 /\ n \notin Elements(rw) \cup del
  /\ r.pc \in Holders => InHand(r, rw, del, n)
  /\ r.pc = "post" => \A i \in DOMAIN r.hand : i <= r.sent => r.hand[i] \in del
  /\ r.pc \in {"discard", "unlink"} => Elements(r.hand) \subseteq del

Kept(r, rw, del, forf, n) ==
  \A e \in 1..n :
    \/ e \in del \cup forf \cup Elements(rw)
    \/ e = r.item \/ e \in Elements(r.hand)
    \/ n - e >= MaxBuffer

Fine(r, ex, rw, del, forf, n) ==
  /\ File(ex, rw, del, n)
  /\ Turn(r, ex, rw, del, n)
  /\ Kept(r, rw, del, forf, n)

Others(p) == \A q \in Emitters \ {p} : emitter[q] = Idle

\* Events that may be missing: given up, or of a row that cannot be read back.
Excused == forfeited \cup Splitting

\* The file cannot be read any more, and no emit gets past that.
Mute == file = "torn" /\ \A p \in Emitters : emitter[p].pc \in {"idle", "read", "raised"}

Solo ==
  \/ overlapped
  \/ Mute
  \/ /\ \A p \in Emitters : emitter[p] = Idle \/ (Emitting(p) /\ emitter[p].pc # "orphan")
     /\ \A p, q \in Emitters : Emitting(p) /\ Emitting(q) => p = q
     /\ Emitters = {} => emitted = 0
     /\ file # "torn"
     /\ \A p \in Emitters :
          Others(p) => Fine(emitter[p], Exists, rows, delivered, Excused, emitted)

\* The values are of the types of the variables.
Values(r, rw, del, forf, n) ==
  /\ r \in Holding /\ Len(r.hand) <= MaxBuffer + 1
  /\ rw \in Seq(Events) /\ del \subseteq Events /\ forf \subseteq Events
  /\ n \in Nat /\ n <= MaxEvents

-----------------------------------------------------------------------------
LEMMA EventsAreNumbers == Events \subseteq Nat /\ \A e \in Events : e >= 1
  BY TelemetryAssumption DEF Events

LEMMA OneMore ==
  ASSUME NEW s \in Seq(Events), NEW n \in Events, Spread(s), \A e \in Elements(s) : e < n
  PROVE  /\ Spread(Append(s, n))
         /\ Append(s, n) # << >>
         /\ Append(s, n)[Len(Append(s, n))] = n
         /\ Elements(Append(s, n)) = Elements(s) \cup {n}
<1> PICK w : w = Append(s, n)
  OBVIOUS
<1>1. /\ Len(s) \in Nat /\ DOMAIN s = 1..Len(s) /\ Len(w) = Len(s) + 1
      /\ DOMAIN w = DOMAIN s \cup {Len(s) + 1} /\ Len(s) + 1 \notin DOMAIN s
      /\ w[Len(s) + 1] = n
      /\ \A i \in DOMAIN s : w[i] = s[i] /\ s[i] \in Nat
      /\ w # << >> /\ n \in Nat
  <2>1. /\ Len(s) \in Nat /\ DOMAIN s = 1..Len(s) /\ Len(w) = Len(s) + 1
        /\ DOMAIN w = DOMAIN s \cup {Len(s) + 1} /\ Len(s) + 1 \notin DOMAIN s
        /\ w[Len(s) + 1] = n
        /\ \A i \in DOMAIN s : w[i] = s[i] /\ s[i] \in Events
    OBVIOUS
  <2>2. w # << >>
    BY <2>1
  <2> QED BY <2>1, <2>2, EventsAreNumbers
<1>2. Elements(w) = Elements(s) \cup {n}
  BY <1>1 DEF Elements
<1>3. ASSUME NEW i \in DOMAIN w, NEW k \in DOMAIN w, i <= k
      PROVE  w[k] - w[i] >= k - i
  <2>1. CASE k \in DOMAIN s
    <3>1. i \in DOMAIN s
      BY <1>1, <1>3, <2>1
    <3> QED BY <1>1, <1>3, <2>1, <3>1 DEF Spread
  <2>2. CASE k = Len(s) + 1 /\ i = k
    BY <1>1, <2>2
  <2>3. CASE k = Len(s) + 1 /\ i \in DOMAIN s
    <3>1. Len(s) \in DOMAIN s
      BY <1>1, <2>3
    <3>2. s[Len(s)] < n /\ s[Len(s)] - s[i] >= Len(s) - i
      BY <1>1, <2>3, <3>1 DEF Spread, Elements
    <3> PICK x, y : x = s[Len(s)] /\ y = s[i]
      OBVIOUS
    <3>3. x \in Nat /\ y \in Nat /\ i \in Nat /\ x < n /\ x - y >= Len(s) - i
      BY <1>1, <2>3, <3>1, <3>2
    <3>4. n - y >= Len(s) + 1 - i
      BY <1>1, <3>3
    <3> QED BY <1>1, <2>3, <3>4
  <2> QED BY <1>1, <2>1, <2>2, <2>3
<1> QED BY <1>1, <1>2, <1>3 DEF Spread

\* The last of what is held is the greatest.
LEMMA UpToLast ==
  ASSUME NEW s \in Seq(Events), s # << >>, Spread(s), NEW n, s[Len(s)] = n
  PROVE  /\ n \in Elements(s) /\ n \in Nat
         /\ \A i \in DOMAIN s : n - s[i] >= Len(s) - i /\ s[i] \in Nat
         /\ \A e \in Elements(s) : e <= n
<1>1. /\ Len(s) \in Nat /\ DOMAIN s = 1..Len(s) /\ Len(s) \in DOMAIN s
      /\ \A i \in DOMAIN s : s[i] \in Nat
  <2>1. /\ Len(s) \in Nat /\ DOMAIN s = 1..Len(s) /\ Len(s) \in DOMAIN s
        /\ \A i \in DOMAIN s : s[i] \in Events
    OBVIOUS
  <2> QED BY <2>1, EventsAreNumbers
<1>2. n \in Elements(s) /\ n \in Nat
  BY <1>1 DEF Elements
<1>3. \A i \in DOMAIN s : n - s[i] >= Len(s) - i
  BY <1>1 DEF Spread
<1>4. ASSUME NEW i \in DOMAIN s
      PROVE  s[i] <= n
  <2>1. n - s[i] >= Len(s) - i /\ Len(s) - i >= 0 /\ s[i] \in Nat
    BY <1>1, <1>3
  <2> QED BY <1>1, <1>2, <2>1
<1> QED BY <1>1, <1>2, <1>3, <1>4 DEF Elements

\* A part of what is in order is in order.
LEMMA PartSpread ==
  ASSUME NEW s \in Seq(Events), Spread(s), NEW a \in Nat, NEW b \in Nat, b <= Len(s)
  PROVE  /\ Spread(SubSeq(s, a + 1, b))
         /\ Elements(SubSeq(s, a + 1, b)) = {s[i] : i \in (a + 1)..b}
<1> PICK w : w = SubSeq(s, a + 1, b)
  OBVIOUS
<1>1. DOMAIN s = 1..Len(s) /\ \A i \in DOMAIN s : s[i] \in Nat
  <2>1. DOMAIN s = 1..Len(s) /\ \A i \in DOMAIN s : s[i] \in Events
    OBVIOUS
  <2> QED BY <2>1, EventsAreNumbers
<1>2. CASE a + 1 <= b
  <2>1. /\ Len(w) = b - a /\ DOMAIN w = 1..(b - a)
        /\ \A i \in 1..(b - a) : w[i] = s[a + i] /\ a + i \in DOMAIN s
    BY <1>1, <1>2
  <2>2. ASSUME NEW i \in DOMAIN w, NEW k \in DOMAIN w, i <= k
        PROVE  w[k] - w[i] >= k - i
    <3>1. s[a + k] - s[a + i] >= (a + k) - (a + i)
      BY <1>1, <2>1, <2>2 DEF Spread
    <3>2. (a + k) - (a + i) = k - i
      BY <2>1
    <3> QED BY <2>1, <3>1, <3>2
  <2>3. Elements(w) = {s[i] : i \in (a + 1)..b}
    <3>1. ASSUME NEW i \in (a + 1)..b
          PROVE  s[i] \in Elements(w)
      <4>1. i - a \in DOMAIN w /\ w[i - a] = s[i]
        BY <2>1
      <4> QED BY <4>1 DEF Elements
    <3>2. \A i \in DOMAIN w : a + i \in (a + 1)..b
      BY <2>1
    <3> QED BY <2>1, <3>1, <3>2 DEF Elements
  <2> QED BY <2>2, <2>3 DEF Spread
<1>3. CASE ~(a + 1 <= b)
  <2>1. w = << >> /\ (a + 1)..b = {}
    BY <1>3, SubSeqEmpty
  <2>2. DOMAIN w = {}
    BY <2>1
  <2>3. Elements(w) = {} /\ {s[i] : i \in (a + 1)..b} = {}
    BY <2>1, <2>2 DEF Elements
  <2>4. Spread(w)
    BY <2>2 DEF Spread
  <2> QED BY <2>3, <2>4
<1> QED BY <1>2, <1>3

-----------------------------------------------------------------------------
(* The emit of one process, as values: what each step makes of them.       *)

\* r2 is r at another step.
Moves(r2, r, step) ==
  r2.pc = step /\ r2.item = r.item /\ r2.hand = r.hand /\ r2.sent = r.sent

LEMMA IdleFine ==
  ASSUME NEW ex, NEW rw, NEW del, NEW forf, NEW n,
         File(ex, rw, del, n),
         \A e \in 1..n : e \in del \cup forf \cup Elements(rw) \/ n - e >= MaxBuffer
  PROVE  Fine(Idle, ex, rw, del, forf, n)
BY DEF Fine, Turn, Kept, Idle, Holders

LEMMA BeginFine ==
  ASSUME NEW r, NEW ex \in BOOLEAN, NEW rw, NEW del, NEW forf, NEW n,
         Values(Idle, rw, del, forf, n), Fine(Idle, ex, rw, del, forf, n), n + 1 \in Events,
         r = [pc |-> IF ex THEN "read" ELSE "post", item |-> n + 1,
              hand |-> IF ex THEN << >> ELSE Queued(<< >>, n + 1), sent |-> 0]
  PROVE  Fine(r, ex, rw, del, forf, n + 1)
<1>0. n \in Nat /\ rw \in Seq(Events) /\ del \subseteq Events /\ del \subseteq Nat
  BY EventsAreNumbers DEF Values
<1>1. \A e \in Elements(rw) \cup del : e \in Nat /\ e <= n /\ e < n + 1
  <2>1. Elements(rw) \subseteq Nat
    <3>1. Elements(rw) \subseteq Events
      BY <1>0 DEF Elements
    <3> QED BY <3>1, EventsAreNumbers
  <2>2. \A e \in Elements(rw) \cup del : e <= n
    BY DEF Fine, File
  <2>3. ASSUME NEW e \in Nat, e <= n PROVE e < n + 1
    BY <1>0, <2>3
  <2> QED BY <1>0, <2>1, <2>2, <2>3
<1>2. File(ex, rw, del, n + 1)
  BY <1>0, <1>1 DEF Fine, File
<1>3. Turn(r, ex, rw, del, n + 1)
  <2>1. CASE ex
    <3>1. r.pc = "read" /\ r.item = n + 1 /\ r.hand = << >> /\ r.sent = 0
      BY <2>1
    <3>2. n + 1 \notin Elements(rw) \cup del
      BY <1>0, <1>1
    <3> QED BY <2>1, <3>1, <3>2 DEF Turn, Holders
  <2>2. CASE ~ex
    <3> PICK h : h = Append(<< >>, n + 1)
      OBVIOUS
    <3>1. r.pc = "post" /\ r.item = n + 1 /\ r.hand = h /\ r.sent = 0 /\ rw = << >>
      BY <2>2 DEF Queued, Fine, File
    <3>2. << >> \in Seq(Events) /\ Spread(<< >>) /\ Elements(<< >>) = {}
      BY DEF Spread, Elements
    <3>3. Spread(h) /\ h # << >> /\ h[Len(h)] = n + 1 /\ Elements(h) = {n + 1}
      BY <3>2, OneMore
    <3>4. Later(del, Elements(h))
      BY <1>1, <3>3 DEF Later
    <3>5. InHand(r, rw, del, n + 1)
      BY <3>1, <3>3, <3>4 DEF InHand
    <3>6. \A i \in DOMAIN h : ~(i <= 0)
      OBVIOUS
    <3> HIDE DEF Queued
    <3> QED BY <3>1, <3>5, <3>6 DEF Turn
  <2> QED BY <2>1, <2>2
<1>4. Kept(r, rw, del, forf, n + 1)
  <2> SUFFICES ASSUME NEW e \in 1..(n + 1)
               PROVE  \/ e \in del \cup forf \cup Elements(rw)
                      \/ e = r.item \/ e \in Elements(r.hand)
                      \/ (n + 1) - e >= MaxBuffer
    BY DEF Kept
  <2>1. CASE e = n + 1
    BY <2>1
  <2>2. CASE e # n + 1
    <3>1. e \in 1..n /\ e # 0
      BY <1>0, <2>2
    <3>2. Elements(<< >>) = {}
      BY DEF Elements
    <3>3. e \in del \cup forf \cup Elements(rw) \/ n - e >= MaxBuffer
      BY <3>1, <3>2 DEF Fine, Kept, Idle
    <3>4. n - e >= MaxBuffer => (n + 1) - e >= MaxBuffer
      BY <1>0, <3>1, TelemetryAssumption
    <3> QED BY <3>3, <3>4
  <2> QED BY <2>1, <2>2
<1> QED BY <1>2, <1>3, <1>4 DEF Fine

LEMMA ReadFine ==
  ASSUME NEW r, NEW r2, NEW ex, NEW rw, NEW del, NEW forf, NEW n,
         Values(r, rw, del, forf, n), Fine(r, ex, rw, del, forf, n), n \in Events,
         r.pc = "read", r2.pc = "post", r2.item = r.item, r2.sent = r.sent,
         r2.hand = Queued(Last(rw, MaxBuffer), n)
  PROVE  Fine(r2, ex, rw, del, forf, n)
<1> PICK h : h = Append(rw, n)
  OBVIOUS
<1>0. rw \in Seq(Events) /\ n \in Nat /\ Elements(rw) \subseteq Nat /\ del \subseteq Nat
  <2>1. rw \in Seq(Events) /\ del \subseteq Events /\ n \in Nat
    BY DEF Values
  <2>2. Elements(rw) \subseteq Events
    BY <2>1 DEF Elements
  <2> QED BY <2>1, <2>2, EventsAreNumbers
<1>1. r2.hand = h
  BY DEF Last, Queued, Fine, File
<1>2. /\ \A e \in Elements(rw) \cup del : e < n
      /\ Later(del, Elements(rw)) /\ Spread(rw)
  <2>1. n \notin Elements(rw) \cup del /\ \A e \in Elements(rw) \cup del : e <= n
    BY DEF Fine, File, Turn
  <2>2. ASSUME NEW e \in Nat, e <= n, e # n PROVE e < n
    BY <1>0, <2>2
  <2>3. \A e \in Elements(rw) \cup del : e < n
    BY <1>0, <2>1, <2>2
  <2> QED BY <2>3 DEF Fine, File
<1>3. Spread(h) /\ h # << >> /\ h[Len(h)] = n /\ Elements(h) = Elements(rw) \cup {n}
  BY <1>0, <1>2, OneMore
<1>4. Later(del, Elements(h))
  BY <1>2, <1>3 DEF Later
<1>5. InHand(r2, rw, del, n)
  BY <1>1, <1>3, <1>4 DEF InHand
<1>6. \A i \in DOMAIN h : ~(i <= 0)
  <2>1. h \in Seq(Events)
    BY <1>0
  <2> QED BY <2>1
<1>7. Turn(r2, ex, rw, del, n)
  BY <1>1, <1>5, <1>6 DEF Turn, Fine
<1>8. Kept(r2, rw, del, forf, n)
  BY <1>1, <1>3 DEF Kept, Fine, Turn, Elements
<1> QED BY <1>7, <1>8 DEF Fine

\* The end of the batch that is posted next, and what is in it.
Upto(r) == IF r.sent + BatchSize < Len(r.hand) THEN r.sent + BatchSize ELSE Len(r.hand)
Sent(r, upto) == Elements(SubSeq(r.hand, r.sent + 1, upto))

\* What a POST delivers is the head of what is held.
LEMMA Accepted ==
  ASSUME NEW r, NEW rw, NEW del, NEW forf, NEW n, NEW ex, NEW upto, NEW del2,
         Values(r, rw, del, forf, n), Fine(r, ex, rw, del, forf, n), r.pc = "post",
         upto = Upto(r),
         del2 = del \cup Sent(r, upto)
  PROVE  /\ upto \in Nat /\ upto <= Len(r.hand) /\ del \subseteq del2
         /\ \A i \in DOMAIN r.hand : i <= upto => r.hand[i] \in del2
         /\ \A e \in del2 \ del : \A f \in del : f < e
         /\ File(ex, rw, del2, n)
         /\ Later(del2, Elements(r.hand))
<1> PICK h, s : h = r.hand /\ s = r.sent
  OBVIOUS
<1>1. /\ h \in Seq(Events) /\ s \in Nat /\ rw \in Seq(Events) /\ n \in Nat
      /\ Len(h) \in Nat /\ DOMAIN h = 1..Len(h) /\ del \subseteq Nat
  BY EventsAreNumbers DEF Values, Holding
<1>2. /\ h # << >> /\ Spread(h) /\ h[Len(h)] = n /\ Later(del, Elements(h))
      /\ h = Append(rw, n)
      /\ \A i \in DOMAIN h : i <= s => h[i] \in del
      /\ File(ex, rw, del, n)
  BY DEF Fine, Turn, InHand, Holders
<1>3. upto \in Nat /\ upto <= Len(h)
  <2> PICK l \in Nat : l = Len(h)
    BY <1>1
  <2>1. upto = IF s + BatchSize < l THEN s + BatchSize ELSE l
    BY DEF Upto
  <2>2. s + BatchSize \in Nat
    BY <1>1, TelemetryAssumption
  <2> QED BY <2>1, <2>2
<1>4. Elements(SubSeq(h, s + 1, upto)) = {h[i] : i \in (s + 1)..upto}
  <2>1. /\ h \in Seq(Events) /\ Spread(h) /\ s \in Nat /\ upto \in Nat /\ upto <= Len(h)
    BY <1>1, <1>2, <1>3
  <2>2. Elements(SubSeq(h, s + 1, upto)) = {h[i] : i \in (s + 1)..upto}
    BY <2>1, PartSpread
  <2> QED BY <2>2
<1>5. del2 = del \cup {h[i] : i \in (s + 1)..upto}
  BY <1>4 DEF Sent
<1>6. ASSUME NEW i \in DOMAIN h, i <= upto
      PROVE  h[i] \in del2
  <2>1. i <= s \/ i \in (s + 1)..upto
    BY <1>1, <1>3, <1>6
  <2> QED BY <1>2, <1>5, <2>1
<1>7. \A i \in (s + 1)..upto : i \in DOMAIN h
  BY <1>1, <1>3
<1>8. del2 \ del \subseteq Elements(h)
  BY <1>5, <1>7 DEF Elements
<1>9. \A e \in del2 \ del : \A f \in del : f < e
  BY <1>2, <1>8 DEF Later
<1>10. \A e \in Elements(h) : e <= n /\ e \in Nat
  BY <1>1, <1>2, UpToLast DEF Elements
<1>11. Later(del2, Elements(h))
  <2> SUFFICES ASSUME NEW f \in del2, NEW e \in Elements(h), e \notin del2
               PROVE  f < e
    BY DEF Later
  <2>1. PICK k \in DOMAIN h : e = h[k]
    BY DEF Elements
  <2>2. ~(k <= upto)
    BY <1>6, <2>1
  <2>3. CASE f \in del
    BY <1>2, <1>5, <2>3 DEF Later
  <2>4. CASE f \notin del
    <3>1. PICK i \in (s + 1)..upto : f = h[i]
      BY <1>5, <2>4
    <3>2. i \in DOMAIN h /\ i <= k /\ i < k
      BY <1>1, <1>3, <1>7, <2>2, <3>1
    <3>3. h[k] - h[i] >= k - i
      BY <1>2, <3>2 DEF Spread
    <3>4. f \in Nat /\ e \in Nat /\ i \in Nat /\ k \in Nat
      <4>1. e \in Nat /\ i \in Nat /\ k \in Nat
        BY <1>1, <1>10, <3>2
      <4>2. f \in Elements(h)
        BY <3>1, <3>2 DEF Elements
      <4> QED BY <1>10, <4>1, <4>2
    <3>5. e - f >= k - i
      BY <2>1, <3>1, <3>3
    <3> QED BY <3>2, <3>4, <3>5
  <2> QED BY <2>3, <2>4
<1>12. Elements(rw) \subseteq Elements(h)
  BY <1>1, <1>2 DEF Elements
<1>13. File(ex, rw, del2, n)
  <2>1. \A e \in Elements(rw) \cup del2 : e <= n
    BY <1>2, <1>8, <1>10 DEF File
  <2>2. Later(del2, Elements(rw))
    BY <1>11, <1>12 DEF Later
  <2> QED BY <1>2, <2>1, <2>2 DEF File
<1> QED BY <1>3, <1>5, <1>6, <1>9, <1>11, <1>13

LEMMA PostFine ==
  ASSUME NEW r, NEW r2, NEW rw, NEW del, NEW forf, NEW n, NEW ex, NEW upto, NEW del2,
         Values(r, rw, del, forf, n), Fine(r, ex, rw, del, forf, n), r.pc = "post",
         upto = Upto(r),
         del2 = del \cup Sent(r, upto),
         r2.item = r.item, r2.hand = r.hand,
         \/ r2.sent = upto /\ r2.pc = IF upto = Len(r.hand) THEN "discard" ELSE "post"
         \/ r2.pc = "open"
  PROVE  Fine(r2, ex, rw, del2, forf, n)
<1>1. /\ upto \in Nat /\ upto <= Len(r.hand) /\ del \subseteq del2
      /\ \A i \in DOMAIN r.hand : i <= upto => r.hand[i] \in del2
      /\ \A e \in del2 \ del : \A f \in del : f < e
      /\ File(ex, rw, del2, n)
      /\ Later(del2, Elements(r.hand))
  BY Accepted, Zenon
<1>2. InHand(r, rw, del, n) /\ r.item = n
  BY DEF Fine, Turn, Holders
<1>3. InHand(r2, rw, del2, n) /\ r2.pc \in {"post", "discard", "open"}
  BY <1>1, <1>2 DEF InHand
<1>4. r2.pc = "discard" => Elements(r2.hand) \subseteq del2
  <2>1. r.hand \in Seq(Events)
    BY DEF Values, Holding
  <2> PICK h : h = r.hand
    OBVIOUS
  <2>2. Len(h) \in Nat /\ \A i \in DOMAIN h : i <= Len(h)
    BY <2>1
  <2>3. r2.pc = "discard" => upto = Len(h)
    OBVIOUS
  <2>4. r2.pc = "discard" => \A i \in DOMAIN h : h[i] \in del2
    BY <1>1, <2>2, <2>3
  <2> QED BY <2>4 DEF Elements
<1>5. r2.pc = "post" => \A i \in DOMAIN r2.hand : i <= r2.sent => r2.hand[i] \in del2
  BY <1>1
<1>6. Turn(r2, ex, rw, del2, n)
  BY <1>2, <1>3, <1>4, <1>5 DEF Turn
<1>7. Kept(r2, rw, del2, forf, n)
  BY <1>1 DEF Fine, Kept
<1> QED BY <1>1, <1>6, <1>7 DEF Fine

\* A POST that delivered nothing.
LEMMA RefusedFine ==
  ASSUME NEW r, NEW r2, NEW rw, NEW del, NEW forf, NEW n, NEW ex,
         Fine(r, ex, rw, del, forf, n), r.pc = "post", Moves(r2, r, "open")
  PROVE  Fine(r2, ex, rw, del, forf, n)
BY DEF Fine, Turn, InHand, Holders, Kept, Moves

\* All of the hand has been delivered: there is a file to remove or there is none.
LEMMA DiscardFine ==
  ASSUME NEW r, NEW r2, NEW rw, NEW del, NEW forf, NEW n, NEW ex,
         Fine(r, ex, rw, del, forf, n), r.pc = "discard",
         IF ex THEN Moves(r2, r, "unlink") ELSE r2 = Idle
  PROVE  Fine(r2, ex, rw, del, forf, n)
<1>1. CASE ex
  BY <1>1 DEF Fine, Turn, InHand, Holders, Kept, Moves
<1>2. CASE ~ex
  <2>1. /\ Elements(r.hand) \subseteq del /\ r.hand # << >> /\ r.item = n
        /\ r.hand = Append(rw, n) /\ r.hand[Len(r.hand)] = n
    BY DEF Fine, Turn, InHand, Holders
  <2>2. rw = << >>
    BY <1>2 DEF Fine, File
  <2>3. n \in Elements(r.hand)
    BY <2>1, <2>2 DEF Elements
  <2>4. \A e \in 1..n : e \in del \cup forf \cup Elements(rw) \/ n - e >= MaxBuffer
    BY <2>1, <2>3 DEF Fine, Kept
  <2> QED BY <1>2, <2>4, IdleFine DEF Fine
<1> QED BY <1>1, <1>2

\* The rows that are there are held as well.
LEMMA RowsHeld ==
  ASSUME NEW r, NEW rw, NEW del, NEW forf, NEW n, NEW ex,
         Values(r, rw, del, forf, n), Fine(r, ex, rw, del, forf, n), r.pc \in Holders
  PROVE  /\ Elements(rw) \subseteq Elements(r.hand)
         /\ n \in Elements(r.hand)
         /\ \A e \in Elements(r.hand) : e <= n
         /\ Spread(r.hand) /\ r.hand \in Seq(Events) /\ Len(r.hand) <= MaxBuffer + 1
         /\ r.item = n
<1>1. InHand(r, rw, del, n) /\ r.item = n
  BY DEF Fine, Turn, Holders
<1>2. r.hand \in Seq(Events) /\ Len(r.hand) <= MaxBuffer + 1 /\ rw \in Seq(Events)
  BY DEF Values, Holding
<1>3. n \in Elements(r.hand) /\ \A e \in Elements(r.hand) : e <= n
  BY <1>1, <1>2, UpToLast DEF InHand
<1>4. Elements(rw) \subseteq Elements(r.hand)
  <2>1. CASE rw = << >>
    BY <2>1 DEF Elements
  <2>2. CASE r.hand = Append(rw, n)
    <3>1. \A i \in DOMAIN rw : i \in DOMAIN Append(rw, n) /\ Append(rw, n)[i] = rw[i]
      BY <1>2
    <3> QED BY <2>2, <3>1 DEF Elements
  <2> QED BY <1>1, <2>1, <2>2 DEF InHand
<1> QED BY <1>1, <1>2, <1>3, <1>4 DEF InHand

\* An empty file is in order.
LEMMA EmptyFile ==
  ASSUME NEW ex, NEW rw, NEW del, NEW n, File(ex, rw, del, n), NEW ex2
  PROVE  File(ex2, << >>, del, n) /\ Elements(<< >>) = {}
<1>1. Elements(<< >>) = {} /\ Spread(<< >>) /\ Len(<< >>) <= MaxBuffer
  BY TelemetryAssumption DEF Elements, Spread
<1> QED BY <1>1 DEF File, Later

LEMMA UnlinkFine ==
  ASSUME NEW r, NEW rw, NEW del, NEW forf, NEW n, NEW ex,
         Values(r, rw, del, forf, n), Fine(r, ex, rw, del, forf, n), r.pc = "unlink"
  PROVE  ex /\ Fine(Idle, FALSE, << >>, del, forf, n)
<1>1. ex /\ Elements(r.hand) \subseteq del
  BY DEF Fine, Turn
<1>2. Elements(rw) \subseteq del /\ r.item \in del
  BY <1>1, RowsHeld DEF Holders
<1>3. \A e \in 1..n : e \in del \cup forf \cup Elements(<< >>) \/ n - e >= MaxBuffer
  BY <1>1, <1>2 DEF Fine, Kept
<1>4. File(FALSE, << >>, del, n)
  BY EmptyFile DEF Fine
<1> QED BY <1>1, <1>3, <1>4, IdleFine

LEMMA OpenFine ==
  ASSUME NEW r, NEW r2, NEW rw, NEW del, NEW forf, NEW n, NEW ex,
         Values(r, rw, del, forf, n), Fine(r, ex, rw, del, forf, n), r.pc = "open",
         Moves(r2, r, "write")
  PROVE  Fine(r2, TRUE, << >>, del, forf, n)
<1>1. Elements(rw) \subseteq Elements(r.hand)
  BY RowsHeld DEF Holders
<1>2. File(TRUE, << >>, del, n)
  BY EmptyFile DEF Fine
<1>3. Turn(r2, TRUE, << >>, del, n)
  BY DEF Fine, Turn, InHand, Holders, Moves
<1>4. Kept(r2, << >>, del, forf, n)
  BY <1>1 DEF Fine, Kept, Moves
<1> QED BY <1>2, <1>3, <1>4 DEF Fine

\* What is retained is the end of the hand, and what is not is old.
LEMMA RetainedIsLast ==
  ASSUME NEW h \in Seq(Events), Spread(h), h # << >>, NEW n, h[Len(h)] = n
  PROVE  /\ Retained(h) \in Seq(Events) /\ Len(Retained(h)) <= MaxBuffer
         /\ Spread(Retained(h))
         /\ Elements(Retained(h)) \subseteq Elements(h)
         /\ \A e \in Elements(h) : e \in Elements(Retained(h)) \/ n - e >= MaxBuffer
<1>0. MaxBuffer \in Nat /\ Len(h) \in Nat /\ DOMAIN h = 1..Len(h)
  BY TelemetryAssumption
<1>1. Retained(h) \in Seq(Events) /\ Len(Retained(h)) <= MaxBuffer
  BY <1>0, LastType DEF Retained
<1>2. CASE Len(h) <= MaxBuffer
  <2>1. Retained(h) = h
    BY <1>2 DEF Retained, Last
  <2> QED BY <1>1, <2>1
<1>3. CASE ~(Len(h) <= MaxBuffer)
  <2>0. Len(h) - MaxBuffer \in Nat
    BY <1>0, <1>3
  <2> PICK a \in Nat : a = Len(h) - MaxBuffer
    BY <2>0
  <2>1. Retained(h) = SubSeq(h, a + 1, Len(h))
    BY <1>3 DEF Retained, Last
  <2>2. /\ Spread(SubSeq(h, a + 1, Len(h)))
        /\ Elements(SubSeq(h, a + 1, Len(h))) = {h[i] : i \in (a + 1)..Len(h)}
    <3>1. Len(h) <= Len(h) /\ Len(h) \in Nat
      BY <1>0
    <3> QED BY <3>1, PartSpread
  <2>3. \A i \in (a + 1)..Len(h) : i \in DOMAIN h
    BY <1>0
  <2>4. Elements(Retained(h)) \subseteq Elements(h)
    BY <2>1, <2>2, <2>3 DEF Elements
  <2>5. ASSUME NEW i \in DOMAIN h, i \notin (a + 1)..Len(h)
        PROVE  n - h[i] >= MaxBuffer
    <3>1. n - h[i] >= Len(h) - i /\ h[i] \in Nat /\ n \in Nat
      BY UpToLast
    <3>2. i <= a
      BY <1>0, <2>5
    <3>3. Len(h) - i >= MaxBuffer
      BY <1>0, <3>2
    <3> QED BY <1>0, <3>1, <3>3
  <2>6. \A e \in Elements(h) : e \in Elements(Retained(h)) \/ n - e >= MaxBuffer
    BY <2>1, <2>2, <2>5 DEF Elements
  <2> QED BY <1>1, <2>1, <2>2, <2>4, <2>6
<1> QED BY <1>2, <1>3

\* The file is written, as a whole or cut short, and the emit is over.
LEMMA WriteFine ==
  ASSUME NEW r, NEW rw, NEW del, NEW forf, NEW n, NEW ex, NEW rw2, NEW forf2,
         Values(r, rw, del, forf, n), Fine(r, ex, rw, del, forf, n), r.pc = "write",
         NEW w, w = Retained(r.hand), Splitting \subseteq forf,
         \/ rw2 = Legible(w) /\ forf2 = forf
         \/ /\ \/ rw2 = << >>
               \/ \E k \in 0..(Len(w) - 1) : rw2 = SubSeq(w, 1, k)
            /\ forf2 = forf \cup (Elements(r.hand) \ Elements(rw2))
  PROVE  Fine(Idle, ex, rw2, del, forf2, n)
<1> PICK h : h = r.hand
  OBVIOUS
<1>1. /\ h \in Seq(Events) /\ Spread(h) /\ h # << >> /\ h[Len(h)] = n
      /\ Later(del, Elements(h)) /\ rw = << >> /\ r.item = n
  <2>1. InHand(r, rw, del, n) /\ r.item = n
    BY DEF Fine, Turn, Holders
  <2> QED BY <2>1 DEF InHand, Values, Holding
<1>2. /\ w \in Seq(Events) /\ Len(w) <= MaxBuffer /\ Spread(w)
      /\ Elements(w) \subseteq Elements(h)
      /\ \A e \in Elements(h) : e \in Elements(w) \/ n - e >= MaxBuffer
  BY <1>1, RetainedIsLast
<1>3. n \in Elements(h) /\ \A e \in Elements(h) : e <= n
  BY <1>1, UpToLast
<1>4. /\ Len(rw2) <= MaxBuffer /\ Spread(rw2) /\ Elements(rw2) \subseteq Elements(h)
      /\ forf \subseteq forf2
      /\ \A e \in Elements(h) : e \in forf2 \cup Elements(rw2) \/ n - e >= MaxBuffer
  <2>0. Len(w) \in Nat
    BY <1>2
  <2>1. ASSUME NEW k \in Nat, k <= Len(w)
        PROVE  /\ Len(SubSeq(w, 1, k)) <= MaxBuffer /\ Spread(SubSeq(w, 1, k))
               /\ Elements(SubSeq(w, 1, k)) = {w[i] : i \in 1..k}
               /\ Elements(SubSeq(w, 1, k)) \subseteq Elements(w)
    <3>1. DOMAIN w = 1..Len(w) /\ 0 \in Nat /\ 0 + 1 = 1
      BY <1>2
    <3>2. /\ Spread(SubSeq(w, 0 + 1, k))
          /\ Elements(SubSeq(w, 0 + 1, k)) = {w[i] : i \in (0 + 1)..k}
      BY <1>2, <2>1, <3>1, PartSpread
    <3>3. SubSeq(w, 0 + 1, k) \in Seq(Events) /\ Len(SubSeq(w, 0 + 1, k)) <= k
      BY <1>2, <2>1, <3>1, PartType
    <3>4. Len(SubSeq(w, 1, k)) \in Nat
      BY <3>1, <3>3
    <3>5. Elements(SubSeq(w, 1, k)) \subseteq Elements(w)
      <4>1. \A i \in 1..k : i \in DOMAIN w
        BY <2>0, <2>1, <3>1
      <4> QED BY <3>1, <3>2, <4>1 DEF Elements
    <3> QED BY <1>2, <2>0, <2>1, <3>1, <3>2, <3>3, <3>4, <3>5, TelemetryAssumption
  <2>2. CASE rw2 = Legible(w) /\ forf2 = forf
    <3>1. CASE Legible(w) = w
      BY <1>2, <2>2, <3>1
    <3>2. CASE w # << >> /\ w[Len(w)] \in Splitting /\ Legible(w) = SubSeq(w, 1, Len(w) - 1)
      <4>1. /\ Len(w) - 1 \in Nat /\ Len(w) - 1 <= Len(w) /\ DOMAIN w = 1..Len(w)
            /\ \A i \in 1..Len(w) : i = Len(w) \/ i \in 1..(Len(w) - 1)
        BY <1>2, <3>2
      <4>2. \A e \in Elements(w) : e \in Elements(rw2) \/ e \in Splitting
        <5>1. Elements(rw2) = {w[i] : i \in 1..(Len(w) - 1)}
          <6>1. \E k \in Nat : k <= Len(w) /\ k = Len(w) - 1
            BY <4>1
          <6>2. PICK k \in Nat : k <= Len(w) /\ k = Len(w) - 1
            BY <6>1
          <6> QED BY <2>1, <2>2, <3>2, <6>2
        <5>2. Elements(w) = {w[i] : i \in 1..Len(w)}
          BY <4>1 DEF Elements
        <5> QED BY <3>2, <4>1, <5>1, <5>2
      <4>3. Len(rw2) <= MaxBuffer /\ Spread(rw2) /\ Elements(rw2) \subseteq Elements(w)
        <5>1. \E k \in Nat : k <= Len(w) /\ k = Len(w) - 1
          BY <4>1
        <5>2. PICK k \in Nat : k <= Len(w) /\ k = Len(w) - 1
          BY <5>1
        <5>3. rw2 = SubSeq(w, 1, k)
          BY <2>2, <3>2, <5>2
        <5>4. /\ Len(SubSeq(w, 1, k)) <= MaxBuffer /\ Spread(SubSeq(w, 1, k))
              /\ Elements(SubSeq(w, 1, k)) \subseteq Elements(w)
          BY <2>1, <5>2
        <5> QED BY <5>3, <5>4
      <4>4. \A e \in Elements(h) : e \in forf2 \cup Elements(rw2) \/ n - e >= MaxBuffer
        BY <1>2, <2>2, <4>2
      <4> QED BY <1>2, <2>2, <4>3, <4>4
    <3> QED BY <3>1, <3>2 DEF Legible
  <2>3. ASSUME NEW k \in 0..(Len(w) - 1), rw2 = SubSeq(w, 1, k),
               forf2 = forf \cup (Elements(h) \ Elements(rw2))
        PROVE  /\ Len(rw2) <= MaxBuffer /\ Spread(rw2) /\ Elements(rw2) \subseteq Elements(h)
               /\ forf \subseteq forf2
               /\ \A e \in Elements(h) : e \in forf2 \cup Elements(rw2) \/ n - e >= MaxBuffer
    <3>1. k \in Nat /\ k <= Len(w)
      BY <2>0, <2>3
    <3> QED BY <1>2, <2>1, <2>3, <3>1
  <2>4. CASE rw2 = << >> /\ forf2 = forf \cup (Elements(h) \ Elements(rw2))
    <3>1. Elements(<< >>) = {} /\ Spread(<< >>) /\ Len(<< >>) <= MaxBuffer
      BY TelemetryAssumption DEF Elements, Spread
    <3> QED BY <2>4, <3>1
  <2> QED BY <2>2, <2>3, <2>4
<1>5. File(ex, rw2, del, n)
  <2>1. ex /\ \A e \in del : e <= n
    BY DEF Fine, File, Turn
  <2> QED BY <1>1, <1>3, <1>4, <2>1 DEF File, Later
<1>6. \A e \in 1..n : e \in del \cup forf2 \cup Elements(rw2) \/ n - e >= MaxBuffer
  <2>1. Elements(rw) = {}
    BY <1>1 DEF Elements
  <2> QED BY <1>1, <1>3, <1>4, <2>1 DEF Fine, Kept
<1> QED BY <1>5, <1>6, IdleFine

LEMMA KilledFine ==
  ASSUME NEW r, NEW rw, NEW del, NEW forf, NEW n, NEW ex, NEW forf2,
         Values(r, rw, del, forf, n), Fine(r, ex, rw, del, forf, n),
         r.pc \in {"read"} \cup Holders, r.pc # "write",
         forf2 = forf \cup {r.item}
  PROVE  Fine(Idle, ex, rw, del, forf2, n)
<1>1. r.item \in forf2
  OBVIOUS
<1>2. \A e \in Elements(r.hand) : e \in forf2 \cup Elements(rw)
  <2>1. CASE r.pc = "read"
    <3>1. Elements(r.hand) = {}
      BY <2>1 DEF Fine, Turn, Elements
    <3> QED BY <3>1
  <2>2. CASE r.pc \in Holders \ {"write"}
    <3>1. r.hand = Append(rw, n) /\ r.item = n
      BY <2>2 DEF Fine, Turn, InHand, Holders
    <3>2. Elements(Append(rw, n)) = Elements(rw) \cup {n}
      <4> PICK w : w = Append(rw, n)
        OBVIOUS
      <4>1. /\ DOMAIN w = DOMAIN rw \cup {Len(rw) + 1} /\ w[Len(rw) + 1] = n
            /\ \A i \in DOMAIN rw : w[i] = rw[i]
        <5>1. rw \in Seq(Events) /\ n \in Events
          <6>1. r.hand \in Seq(Events) /\ n \in Elements(r.hand)
            BY <2>2, RowsHeld
          <6> QED BY <6>1 DEF Values, Elements
        <5> QED BY <5>1
      <4> QED BY <4>1 DEF Elements
    <3> QED BY <1>1, <3>1, <3>2
  <2> QED BY <2>1, <2>2
<1>3. \A e \in 1..n : e \in del \cup forf2 \cup Elements(rw) \/ n - e >= MaxBuffer
  BY <1>1, <1>2 DEF Fine, Kept
<1> QED BY <1>3, IdleFine DEF Fine

-----------------------------------------------------------------------------
(* The steps of an emit while the others are idle.                         *)

LEMMA SoloInit == Init => Solo
<1> SUFFICES ASSUME Init PROVE Solo
  OBVIOUS
<1>1. \A p \in Emitters : emitter[p] = Idle
  BY DEF Init
<1>2. \A p \in Emitters : ~Emitting(p)
  BY <1>1 DEF Emitting, Idle
<1>3. File(Exists, rows, delivered, emitted)
  <2>1. Spread(<< >>) /\ Elements(<< >>) = {} /\ Len(<< >>) <= MaxBuffer
    BY TelemetryAssumption DEF Spread, Elements
  <2> QED BY <2>1 DEF Init, File, Later, Exists
<1>4. Fine(Idle, Exists, rows, delivered, Excused, emitted)
  <2>1. 1..emitted = {}
    BY DEF Init
  <2> QED BY <1>3, <2>1, IdleFine
<1>5. emitted = 0 /\ file # "torn"
  BY DEF Init
<1> QED BY <1>1, <1>2, <1>4, <1>5 DEF Solo

LEMMA TypedValues ==
  ASSUME Typed, NEW p \in Emitters
  PROVE  /\ Values(emitter[p], rows, delivered, Excused, emitted)
         /\ emitter \in [Emitters -> Holding]
         /\ Emitting(p) => emitter[p].item \in Events
<1>1. /\ emitter \in [Emitters -> Holding] /\ Len(emitter[p].hand) <= MaxBuffer + 1
      /\ rows \in Seq(Events) /\ delivered \subseteq Events /\ Excused \subseteq Events
      /\ emitted \in 0..MaxEvents
  BY TelemetryAssumption DEF Typed, TypeOK, Holding, Excused, Events
<1>2. emitted \in Nat /\ emitted <= MaxEvents
  BY <1>1, TelemetryAssumption
<1> QED BY <1>1, <1>2 DEF Values, Typed, Emitted

\* One emitter at most has an emit under way: the one that steps.
LEMMA SoloActor ==
  ASSUME Typed, Solo, ~overlapped, ~Mute, NEW p \in Emitters,
         Emitting(p) \/ (\A q \in Emitters \ {p} : ~Emitting(q))
  PROVE  /\ Others(p) /\ file # "torn"
         /\ Fine(emitter[p], Exists, rows, delivered, Excused, emitted)
         /\ Emitting(p) => emitter[p].pc \in {"read"} \cup Holders
         /\ ~Emitting(p) => emitter[p] = Idle
<1>1. \A q \in Emitters \ {p} : ~Emitting(q)
  BY DEF Solo
<1>2. Others(p)
  BY <1>1 DEF Solo, Others
<1>3. emitter[p].pc \in Steps
  BY TypedValues DEF Values, Holding
<1>4. Emitting(p) => emitter[p].pc \in {"read"} \cup Holders
  <2>1. Emitting(p) => emitter[p].pc \notin {"idle", "raised", "orphan"}
    BY DEF Solo, Emitting, Idle
  <2> QED BY <1>3, <2>1 DEF Steps, Holders
<1> QED BY <1>2, <1>4 DEF Solo

LEMMA SoloKept ==
  ASSUME Solo, ~overlapped, ~Mute, NEW p \in Emitters, Others(p), file' # "torn",
         \A q \in Emitters \ {p} : emitter'[q] = emitter[q],
         emitter'[p] = Idle \/ emitter'[p].pc \in {"read"} \cup Holders,
         Fine(emitter'[p], Exists', rows', delivered', Excused', emitted')
  PROVE  Solo'
<1> PICK em : em = emitter'
  OBVIOUS
<1>1. \A q \in Emitters \ {p} : em[q] = Idle
  BY DEF Others
<1>2. em[p] = Idle \/ em[p].pc \notin {"idle", "raised", "orphan"}
  BY DEF Holders
<1>3. Idle.pc = "idle"
  BY DEF Idle
<1>4. \A q \in Emitters : em[q] = Idle \/ em[q].pc \notin {"idle", "raised", "orphan"}
  BY <1>1, <1>2
<1>5. \A q, s \in Emitters :
        em[q].pc \notin {"idle", "raised"} /\ em[s].pc \notin {"idle", "raised"} => q = s
  BY <1>1, <1>3
<1>6. ASSUME NEW q \in Emitters, \A s \in Emitters \ {q} : em[s] = Idle
      PROVE  em[q] = em[p]
  BY <1>1, <1>6
<1>7. \A q \in Emitters :
        (\A s \in Emitters \ {q} : em[s] = Idle)
          => Fine(em[q], Exists', rows', delivered', Excused', emitted')
  BY <1>6
<1> QED BY <1>4, <1>5, <1>7 DEF Solo, Others, Emitting

\* What holds when an emitter steps and the others are idle.
Alone(p) ==
  /\ Typed /\ Solo /\ ~overlapped /\ ~Mute /\ Others(p) /\ file # "torn"
  /\ Fine(emitter[p], Exists, rows, delivered, Excused, emitted)
  /\ Emitting(p) => emitter[p].pc \in {"read"} \cup Holders
  /\ ~Emitting(p) => emitter[p] = Idle

LEMMA BeginSolo ==
  ASSUME NEW p \in Emitters, Alone(p), Begin(p)
  PROVE  Solo'
<1>1. Values(Idle, rows, delivered, Excused, emitted) /\ emitter[p] = Idle
      /\ Exists \in BOOLEAN
  BY TypedValues DEF Alone, Begin, Typed, TypeOK, Exists
<1>2. emitted + 1 \in Events
  BY TelemetryAssumption DEF Begin, Alone, Typed, TypeOK, Events
<1> PICK r : r = emitter'[p]
  OBVIOUS
<1>3. /\ \A q \in Emitters \ {p} : emitter'[q] = emitter[q]
      /\ r = [pc |-> IF Exists THEN "read" ELSE "post", item |-> emitted + 1,
              hand |-> IF Exists THEN << >> ELSE Queued(<< >>, emitted + 1), sent |-> 0]
  BY TypedValues DEF Alone, Begin
<1>4. Fine(r, Exists, rows, delivered, Excused, emitted + 1)
  BY <1>1, <1>2, <1>3, BeginFine DEF Alone
<1>5. r.pc \in {"read"} \cup Holders
  BY <1>1, <1>3 DEF Holders
<1>6. Exists' = Exists /\ Excused' = Excused
  BY DEF Begin, Exists, Excused
<1> QED BY <1>3, <1>4, <1>5, <1>6, SoloKept DEF Alone, Begin

LEMMA ReadBufferSolo ==
  ASSUME NEW p \in Emitters, Alone(p), ReadBuffer(p)
  PROVE  Solo'
<1> PICK r, r2 : r = emitter[p] /\ r2 = emitter'[p]
  OBVIOUS
<1>1. Values(r, rows, delivered, Excused, emitted) /\ r.pc = "read" /\ r.item \in Events
  BY TypedValues DEF Alone, ReadBuffer, At, Emitting
<1>2. Exists /\ r.item = emitted
  BY <1>1 DEF Alone, Fine, Turn
<1>3. /\ \A q \in Emitters \ {p} : emitter'[q] = emitter[q]
      /\ r2.pc = "post" /\ r2.item = r.item /\ r2.sent = r.sent
      /\ r2.hand = Queued(Last(rows, MaxBuffer), emitted)
  <2>1. \A q \in Emitters \ {p} : ~At(q, "write")
    BY DEF Alone, Others, At, Idle
  <2>2. Visible(p) = {rows}
    BY <2>1 DEF Visible
  <2>3. file \notin {"absent", "torn"}
    BY <1>2 DEF Alone, Exists
  <2>4. emitter' = [emitter EXCEPT
                      ![p].pc = "post",
                      ![p].hand = Queued(Last(rows, MaxBuffer), emitter[p].item)]
    BY <2>1, <2>2, <2>3 DEF ReadBuffer
  <2> QED BY <1>2, <2>4, TypedValues DEF Alone, Holding
<1>4. Fine(r2, Exists, rows, delivered, Excused, emitted)
  BY <1>1, <1>2, <1>3, ReadFine DEF Alone
<1>5. r2.pc \in {"read"} \cup Holders
  BY <1>3 DEF Holders
<1>6. Exists' = Exists /\ Excused' = Excused
  BY DEF ReadBuffer, Exists, Excused
<1> QED BY <1>3, <1>4, <1>5, <1>6, SoloKept DEF Alone, ReadBuffer

\* A POST delivers, in the order of their emits, events that come after all that was
\* delivered before.
LEMMA PostBatchSolo ==
  ASSUME NEW p \in Emitters, Alone(p), PostBatch(p)
  PROVE  Solo' /\ \A e \in delivered' \ delivered, f \in delivered : f < e
<1> PICK r, r2 : r = emitter[p] /\ r2 = emitter'[p]
  OBVIOUS
<1> PICK upto : upto = Upto(r)
  OBVIOUS
<1> PICK del2 : del2 = delivered \cup Sent(r, upto)
  OBVIOUS
<1>1. Values(r, rows, delivered, Excused, emitted) /\ r.pc = "post"
  BY TypedValues DEF Alone, PostBatch, At
<1>2. Fine(r, Exists, rows, delivered, Excused, emitted)
  BY DEF Alone
<1>3. \A e \in del2 \ delivered : \A f \in delivered : f < e
  BY <1>1, <1>2, Accepted
<1>4. /\ \A q \in Emitters \ {p} : emitter'[q] = emitter[q]
      /\ r2.item = r.item /\ r2.hand = r.hand
      /\ \/ /\ r2.sent = upto /\ r2.pc = IF upto = Len(r.hand) THEN "discard" ELSE "post"
            /\ delivered' = del2
         \/ /\ r2.pc = "open" /\ r2.sent = r.sent
            /\ delivered' = delivered \/ delivered' = del2
      /\ UNCHANGED <<file, rows, emitted, forfeited>>
  BY TypedValues DEF Alone, PostBatch, Holding, Upto, Sent, Goto
<1>5. \A e \in delivered' \ delivered, f \in delivered : f < e
  BY <1>3, <1>4
<1>6. Fine(r2, Exists, rows, delivered', Excused, emitted)
  <2>1. CASE delivered' = del2
    <3>1. Fine(r2, Exists, rows, del2, Excused, emitted)
      BY <1>1, <1>2, <1>4, PostFine
    <3> QED BY <2>1, <3>1
  <2>2. CASE delivered' = delivered /\ Moves(r2, r, "open")
    <3>1. Fine(r2, Exists, rows, delivered, Excused, emitted)
      BY <1>1, <1>2, <2>2, RefusedFine
    <3> QED BY <2>2, <3>1
  <2> QED BY <1>4, <2>1, <2>2 DEF Moves
<1>7. r2.pc \in {"read"} \cup Holders
  BY <1>4 DEF Holders
<1>8. Solo'
  <2>1. Exists' = Exists /\ Excused' = Excused
    BY <1>4 DEF Exists, Excused
  <2> QED BY <1>4, <1>6, <1>7, <2>1, SoloKept DEF Alone
<1> QED BY <1>5, <1>8

LEMMA DiscardSolo ==
  ASSUME NEW p \in Emitters, Alone(p), Discard(p)
  PROVE  Solo'
<1> PICK r, r2 : r = emitter[p] /\ r2 = emitter'[p]
  OBVIOUS
<1>1. r.pc = "discard"
  BY DEF Discard, At
<1>2. /\ \A q \in Emitters \ {p} : emitter'[q] = emitter[q]
      /\ IF Exists THEN Moves(r2, r, "unlink") ELSE r2 = Idle
      /\ UNCHANGED <<file, rows, delivered, emitted, forfeited>>
  BY TypedValues DEF Alone, Discard, Holding, Moves, Goto, EndEmit
<1>3. Fine(r2, Exists, rows, delivered, Excused, emitted)
  BY <1>1, <1>2, DiscardFine DEF Alone
<1>4. r2 = Idle \/ r2.pc \in {"read"} \cup Holders
  BY <1>2 DEF Holders, Moves
<1>5. Exists' = Exists /\ Excused' = Excused
  BY <1>2 DEF Exists, Excused
<1> QED BY <1>2, <1>3, <1>4, <1>5, SoloKept DEF Alone

LEMMA UnlinkSolo ==
  ASSUME NEW p \in Emitters, Alone(p), Unlink(p)
  PROVE  Solo'
<1> PICK r, r2 : r = emitter[p] /\ r2 = emitter'[p]
  OBVIOUS
<1>1. Values(r, rows, delivered, Excused, emitted) /\ r.pc = "unlink"
  BY TypedValues DEF Alone, Unlink, At
<1>2. Exists /\ Fine(Idle, FALSE, << >>, delivered, Excused, emitted)
  BY <1>1, UnlinkFine DEF Alone
<1>3. \A q \in Emitters \ {p} : ~At(q, "write")
  BY DEF Alone, Others, At, Idle
<1>4. /\ \A q \in Emitters \ {p} : emitter'[q] = emitter[q]
      /\ r2 = Idle
      /\ Exists' = FALSE /\ rows' = << >> /\ file' # "torn"
      /\ UNCHANGED <<delivered, emitted>> /\ Excused' = Excused
  BY <1>2, <1>3 DEF Unlink, Exists, Excused
<1> QED BY <1>2, <1>4, SoloKept DEF Alone

LEMMA OpenBufferSolo ==
  ASSUME NEW p \in Emitters, Alone(p), OpenBuffer(p)
  PROVE  Solo'
<1> PICK r, r2 : r = emitter[p] /\ r2 = emitter'[p]
  OBVIOUS
<1>1. Values(r, rows, delivered, Excused, emitted) /\ r.pc = "open"
  BY TypedValues DEF Alone, OpenBuffer, At
<1>2. /\ \A q \in Emitters \ {p} : emitter'[q] = emitter[q]
      /\ Moves(r2, r, "write")
      /\ Exists' = TRUE /\ rows' = << >> /\ file' # "torn"
      /\ UNCHANGED <<delivered, emitted>> /\ Excused' = Excused
  BY TypedValues DEF Alone, OpenBuffer, Holding, Moves, Goto, Exists, Excused
<1>3. Fine(r2, TRUE, << >>, delivered, Excused, emitted)
  BY <1>1, <1>2, OpenFine DEF Alone
<1>4. r2.pc \in {"read"} \cup Holders
  BY <1>2 DEF Holders, Moves
<1> QED BY <1>2, <1>3, <1>4, SoloKept DEF Alone

\* Nobody wrote since the file was truncated.
LEMMA WriteSolo ==
  ASSUME NEW p \in Emitters, Alone(p), WriteBuffer(p) \/ WriteCutShort(p)
  PROVE  Solo'
<1> PICK r, kept : r = emitter[p] /\ kept = Retained(emitter[p].hand)
  OBVIOUS
<1>1. Values(r, rows, delivered, Excused, emitted) /\ r.pc = "write"
  BY TypedValues DEF Alone, WriteBuffer, WriteCutShort, At
<1>2. rows = << >>
  BY <1>1 DEF Alone, Fine, Turn, InHand, Holders
<1>3. \A s : Overlay(s) = {s}
  <2>1. 2..Len(rows) = {}
    BY <1>2
  <2> QED BY <2>1 DEF Overlay
<1>4. /\ \A q \in Emitters \ {p} : emitter'[q] = emitter[q]
      /\ emitter'[p] = Idle
      /\ UNCHANGED <<delivered, emitted>>
  BY TypedValues DEF Alone, WriteBuffer, WriteCutShort, EndEmit
<1>5. Exists /\ Exists'
  <2>1. Exists
    BY <1>1 DEF Alone, Fine, Turn
  <2> QED BY <2>1 DEF WriteBuffer, WriteCutShort, Exists
<1>6. CASE file' = "torn"
  <2>1. \A q \in Emitters : emitter'[q] = Idle
    BY <1>4 DEF Alone, Others
  <2>2. Mute'
    BY <1>6, <2>1 DEF Mute, Idle
  <2> QED BY <2>2 DEF Solo
<1>7. CASE file' # "torn"
  <2>1. Splitting \subseteq Excused
    BY DEF Excused
  <2>2. \/ rows' = Legible(kept) /\ Excused' = Excused
        \/ /\ \/ rows' = << >>
              \/ \E k \in 0..(Len(kept) - 1) : rows' = SubSeq(kept, 1, k)
           /\ Excused' = Excused \cup (Elements(r.hand) \ Elements(rows'))
    <3>1. CASE WriteBuffer(p)
      BY <1>3, <3>1 DEF WriteBuffer, Excused
    <3>2. CASE WriteCutShort(p)
      <4>1. \/ rows' = << >>
            \/ \E k \in 0..(Len(kept) - 1) : rows' = SubSeq(kept, 1, k)
        BY <1>2, <1>3, <3>2 DEF WriteCutShort
      <4>2. forfeited' = forfeited \cup (Elements(r.hand) \ Elements(rows'))
        BY <3>2 DEF WriteCutShort
      <4> QED BY <4>1, <4>2 DEF Excused
    <3> QED BY <3>1, <3>2
  <2> PICK rw2, forf2 : rw2 = rows' /\ forf2 = Excused'
    OBVIOUS
  <2>3. Fine(Idle, Exists, rw2, delivered, forf2, emitted)
    <3> HIDE DEF Retained, Elements, Legible
    <3>1. \/ rw2 = Legible(kept) /\ forf2 = Excused
          \/ /\ \/ rw2 = << >>
                \/ \E k \in 0..(Len(kept) - 1) : rw2 = SubSeq(kept, 1, k)
             /\ forf2 = Excused \cup (Elements(r.hand) \ Elements(rw2))
      BY <2>2
    <3> QED BY <1>1, <2>1, <3>1, WriteFine DEF Alone
  <2> QED BY <1>4, <1>5, <1>7, <2>3, SoloKept DEF Alone
<1> QED BY <1>6, <1>7

LEMMA KilledSolo ==
  ASSUME NEW p \in Emitters, Alone(p), Killed(p)
  PROVE  Solo'
<1> PICK r, forf2 : r = emitter[p] /\ forf2 = Excused'
  OBVIOUS
<1>1. /\ Values(r, rows, delivered, Excused, emitted)
      /\ r.pc \in {"read"} \cup Holders /\ r.pc # "write"
  BY TypedValues DEF Alone, Killed, At
<1>2. /\ \A q \in Emitters \ {p} : emitter'[q] = emitter[q]
      /\ emitter'[p] = Idle
      /\ forf2 = Excused \cup {r.item}
      /\ UNCHANGED <<file, rows, delivered, emitted>> /\ Exists' = Exists
  BY TypedValues DEF Alone, Killed, EndEmit, Excused, Exists
<1>3. Fine(Idle, Exists, rows, delivered, forf2, emitted)
  BY <1>1, <1>2, KilledFine DEF Alone
<1> QED BY <1>2, <1>3, SoloKept DEF Alone

\* Once the file is torn an emit raises when it reads it, and nothing is posted.
LEMMA MuteKept ==
  ASSUME Typed, Mute, NEW p \in Emitters, Begin(p) \/ EmitStep(p) \/ Killed(p)
  PROVE  Solo' /\ delivered' = delivered
<1>1. emitter[p].pc \in {"idle", "read", "raised"} /\ emitter \in [Emitters -> Holding]
  BY TypedValues DEF Mute
<1>2. CASE Begin(p)
  <2>1. /\ emitter'[p].pc = "read" /\ \A q \in Emitters \ {p} : emitter'[q] = emitter[q]
        /\ UNCHANGED <<file, delivered>>
    BY <1>1, <1>2 DEF Begin, Mute, Exists
  <2> QED BY <2>1 DEF Mute, Solo
<1>3. CASE ReadBuffer(p)
  <2>1. \A q \in Emitters \ {p} : ~At(q, "write")
    BY DEF Mute, At
  <2>2. Goto(p, "raised") /\ UNCHANGED <<file, delivered>>
    BY <1>3, <2>1 DEF ReadBuffer, Mute
  <2>3. emitter'[p].pc = "raised" /\ \A q \in Emitters \ {p} : emitter'[q] = emitter[q]
    BY <1>1, <2>2 DEF Goto, Holding
  <2> QED BY <2>2, <2>3 DEF Mute, Solo
<1>4. CASE Killed(p)
  <2>1. /\ emitter'[p] = Idle /\ \A q \in Emitters \ {p} : emitter'[q] = emitter[q]
        /\ UNCHANGED <<file, delivered>>
    BY <1>1, <1>4 DEF Killed, EndEmit
  <2> QED BY <2>1 DEF Mute, Solo, Idle
<1>5. CASE EmitStep(p) /\ ~ReadBuffer(p)
  BY <1>1, <1>5 DEF EmitStep, PostBatch, Discard, Unlink, OpenBuffer, WriteBuffer,
     WriteOrphan, WriteCutShort, At
<1> QED BY <1>2, <1>3, <1>4, <1>5

-----------------------------------------------------------------------------
LEMMA SoloStep ==
  ASSUME Typed, Solo, NEW p \in Emitters, Begin(p) \/ EmitStep(p) \/ Killed(p)
  PROVE  /\ Solo'
         /\ overlapped \/ \A e \in delivered' \ delivered, f \in delivered : f < e
<1>1. CASE overlapped
  <2>1. overlapped'
    BY <1>1 DEF Begin, EmitStep, ReadBuffer, PostBatch, Discard, Unlink, OpenBuffer,
                WriteBuffer, WriteOrphan, WriteCutShort, Killed
  <2> QED BY <1>1, <2>1 DEF Solo
<1>0. CASE Mute
  BY <1>0, MuteKept
<1>2. CASE ~overlapped /\ overlapped'
  <2>1. Solo'
    BY <1>2 DEF Solo
  <2>2. Begin(p)
    BY <1>2 DEF EmitStep, ReadBuffer, PostBatch, Discard, Unlink, OpenBuffer,
                WriteBuffer, WriteOrphan, WriteCutShort, Killed
  <2> QED BY <2>1, <2>2 DEF Begin
<1>3. CASE ~overlapped /\ ~overlapped' /\ ~Mute
  <2>1. Emitting(p) \/ \A q \in Emitters \ {p} : ~Emitting(q)
    BY <1>3 DEF Begin, EmitStep, ReadBuffer, PostBatch, Discard, Unlink, OpenBuffer,
                WriteBuffer, WriteOrphan, WriteCutShort, Killed, At, Emitting
  <2>2. Alone(p)
    BY <1>3, <2>1, SoloActor DEF Alone
  <2>3. ~WriteOrphan(p)
    BY <2>2 DEF WriteOrphan, Alone, At, Emitting, Holders
  <2>4. CASE PostBatch(p)
    BY <2>2, <2>4, PostBatchSolo
  <2>5. CASE \/ Begin(p) \/ ReadBuffer(p) \/ Discard(p) \/ Unlink(p) \/ OpenBuffer(p)
             \/ WriteBuffer(p) \/ WriteCutShort(p) \/ Killed(p)
    <3>1. Solo'
      BY <2>2, <2>5, BeginSolo, ReadBufferSolo, DiscardSolo, UnlinkSolo, OpenBufferSolo,
         WriteSolo, KilledSolo
    <3>2. delivered' = delivered
      BY <2>5 DEF Begin, ReadBuffer, Discard, Unlink, OpenBuffer, WriteBuffer,
                  WriteCutShort, Killed
    <3> QED BY <3>1, <3>2
  <2> QED BY <2>3, <2>4, <2>5 DEF EmitStep
<1> QED BY <1>0, <1>1, <1>2, <1>3

LEMMA SoloInductive == Spec => []Solo
<1>1. ASSUME Typed, Solo, [Next]_vars
      PROVE  Solo'
  <2>1. CASE Next
    BY <1>1, <2>1, SoloStep DEF Next
  <2>2. CASE UNCHANGED vars
    BY <1>1, <2>2 DEF vars, Solo, Mute, Exists, Excused, Others, Emitting
  <2> QED BY <1>1, <2>1, <2>2
<1> QED BY <1>1, SoloInit, TypedInductive, PTL DEF Spec

\* Of processes that take turns at one buffer nothing is lost but what a kill or a
\* full disk took, what is older than the last max_buffer_events emits, and a row that
\* splitlines() breaks: whatever was delivered in part, refused, written back or
\* removed in between, and for as long as the file can be read.
THEOREM LostForAReason == Spec => []LostOnlyForAReason
<1>1. ASSUME Solo
      PROVE  LostOnlyForAReason
  <2> SUFFICES ASSUME ~overlapped, file # "torn", NEW e \in 1..emitted
               PROVE  \/ e \in delivered \cup forfeited \cup Elements(rows)
                      \/ \E p \in Emitters : e = emitter[p].item \/ e \in Elements(emitter[p].hand)
                      \/ emitted - e >= MaxBuffer
                      \/ e \in Splitting
    BY DEF LostOnlyForAReason
  <2>0. ~Mute
    BY DEF Mute
  <2>1. PICK p \in Emitters : TRUE
    BY <1>1, <2>0 DEF Solo
  <2>2. PICK q \in Emitters : Others(q)
    <3>1. CASE \E q \in Emitters : Emitting(q)
      BY <1>1, <2>0, <3>1 DEF Solo, Others
    <3>2. CASE \A q \in Emitters : ~Emitting(q)
      BY <1>1, <2>0, <2>1, <3>2 DEF Solo, Others
    <3> QED BY <3>1, <3>2
  <2>3. Kept(emitter[q], rows, delivered, Excused, emitted)
    BY <1>1, <2>0, <2>2 DEF Solo, Fine
  <2> QED BY <2>3 DEF Kept, Excused
<1> QED BY <1>1, SoloInductive, PTL

\* As long as no two emits overlap, a POST delivers no event that is older than one
\* the Monitor already has.
THEOREM OrderKept == Spec => DeliveredInOrder
<1>1. ASSUME Typed, Solo, [Next]_vars
      PROVE  [overlapped \/ \A e \in delivered' \ delivered, f \in delivered : f < e]_vars
  <2>1. CASE Next
    BY <1>1, <2>1, SoloStep DEF Next
  <2> QED BY <1>1, <2>1
<1> QED BY <1>1, SoloInductive, TypedInductive, PTL DEF Spec, DeliveredInOrder
=============================================================================
