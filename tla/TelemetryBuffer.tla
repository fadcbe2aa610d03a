--------------------------- MODULE TelemetryBuffer ---------------------------
(***************************************************************************)
(* MonitorTelemetry.emit (telemetry/monitor.py) and the buffer file its    *)
(* processes share: both systemd units set the same                        *)
(* GAZZETTA_TELEMETRY_BUFFER_PATH.  Inside a process emit is serialised by *)
(* a lock, so a process is one emitter; between processes there is none,   *)
(* and every file operation is a step of its own.                          *)
(*                                                                         *)
(* An event is the number of its emit.  Rows are written as UTF-8 and read *)
(* back line by line: a line cut short is skipped, hence not a row, but a  *)
(* file cut inside a character is torn, and reading it raises.             *)
(***************************************************************************)
EXTENDS Naturals, Sequences, FiniteSets

CONSTANTS
  Emitters,    \* the processes that emit
  MaxBuffer,   \* max_buffer_events
  BatchSize,   \* events per POST
  MaxEvents,   \* bound: emits the model makes
  Splitting    \* events whose row splitlines() breaks: U+0085, U+2028, U+2029 in it

ASSUME TelemetryAssumption ==
  /\ IsFiniteSet(Emitters)
  /\ MaxBuffer \in Nat \ {0}
  /\ BatchSize \in Nat \ {0}
  /\ MaxEvents \in Nat
  /\ Splitting \subseteq 1..MaxEvents

VARIABLES
  file,       \* the buffer file: not there, empty, text, or not valid UTF-8
  rows,       \* its lines that are rows
  delivered,  \* the events the Monitor accepted
  emitted,    \* emits begun so far
  emitter,    \* emitter -> where its emit is and what it holds
  forfeited,  \* events given up with a killed process or a full disk
  overlapped  \* history: two processes were in emit at the same time

vars == <<file, rows, delivered, emitted, emitter, forfeited, overlapped>>

Steps == {"idle", "read", "post", "discard", "unlink", "open", "write", "orphan",
          "raised"}

\* item is the event being emitted, hand what is posted and may be written back,
\* sent how much of it the Monitor has accepted.
Idle == [pc |-> "idle", item |-> 0, hand |-> << >>, sent |-> 0]

\* Mutant: one too many.
LastAndOne(s, n) == IF Len(s) <= n THEN s ELSE SubSeq(s, Len(s) - n, Len(s))
Last(s, n) == IF Len(s) <= n THEN s ELSE SubSeq(s, Len(s) - n + 1, Len(s))
Elements(s) == {s[i] : i \in DOMAIN s}

Events == 1..MaxEvents

Files == {"absent", "empty", "text", "torn"}
Exists == file # "absent"

TypeOK ==
  /\ file \in Files
  /\ rows \in Seq(Events)
  /\ delivered \subseteq Events
  /\ emitted \in 0..MaxEvents
  /\ emitter \in [Emitters -> [pc : Steps, item : 0..MaxEvents,
                               hand : Seq(Events), sent : 0..(MaxBuffer + 1)]]
  /\ \A p \in Emitters : Len(emitter[p].hand) <= MaxBuffer + 1
  /\ forfeited \subseteq Events
  /\ overlapped \in BOOLEAN

Init ==
  /\ file = "absent"
  /\ rows = << >>
  /\ delivered = {}
  /\ emitted = 0
  /\ emitter = [p \in Emitters |-> Idle]
  /\ forfeited = {}
  /\ overlapped = FALSE

-----------------------------------------------------------------------------
At(p, step) == emitter[p].pc = step
Emitting(p) == emitter[p].pc \notin {"idle", "raised"}
Goto(p, step) == emitter' = [emitter EXCEPT ![p].pc = step]
EndEmit(p) == emitter' = [emitter EXCEPT ![p] = Idle]

\* Mutant: the new event is posted before those that wait.
Newest(buffered, item) == <<item>> \o buffered
Queued(buffered, item) == Append(buffered, item)

\* Mutants: the buffer is written back whole, or replaced by the new event.
Unlimited(s) == s
OnlyTheLatest(s) == Last(s, 1)
Retained(s) == Last(s, MaxBuffer)

\* emit: under the lock, look for the file.  An emit that raised took its tick
\* with it; the next is another tick's.
Begin(p) ==
  /\ ~Emitting(p)
  /\ emitted < MaxEvents
  /\ emitted' = emitted + 1
  /\ emitter' = [emitter EXCEPT
                   ![p] = [pc |-> IF Exists THEN "read" ELSE "post",
                           item |-> emitted + 1,
                           hand |-> IF Exists THEN << >>
                                    ELSE Queued(<< >>, emitted + 1),
                           sent |-> 0]]
  /\ overlapped' = (overlapped \/ \E q \in Emitters \ {p} : Emitting(q))
  /\ UNCHANGED <<file, rows, delivered, forfeited>>

\* A row that splitlines() breaks is no row any more when it is read back: only the
\* newest of those held can be one.
Legible(s) == IF s # << >> /\ s[Len(s)] \in Splitting THEN SubSeq(s, 1, Len(s) - 1) ELSE s

\* What is in the file once s is written at its start: what another process wrote
\* since the truncation may remain after it, of its rows all but the first at most.
Overlay(s) == {s} \cup {s \o SubSeq(rows, k, Len(rows)) : k \in 2..Len(rows)}

\* What a reader may find: the rows, or as much as a process that is writing has
\* written so far.
Visible(p) ==
  {rows} \cup UNION {{SubSeq(Retained(emitter[q].hand), 1, n) :
                      n \in 0..(Len(Retained(emitter[q].hand)) - 1)} :
                    q \in {w \in Emitters \ {p} : At(w, "write")}}

\* _read_buffer found the file and reads it.  Nothing catches what that raises: the
\* file is gone meanwhile, or it ends inside a character, or so far does what another
\* process is writing.
ReadBuffer(p) ==
  /\ At(p, "read")
  /\ \/ /\ file \in {"empty", "text"}
        /\ \E found \in Visible(p) :
             emitter' = [emitter EXCEPT
                           ![p].pc = "post",
                           ![p].hand = Queued(Last(found, MaxBuffer), emitter[p].item)]
     \/ /\ file \in {"absent", "torn"} \/ \E q \in Emitters \ {p} : At(q, "write")
        /\ Goto(p, "raised")
  /\ UNCHANGED <<file, rows, delivered, emitted, forfeited, overlapped>>

\* _post, one batch: accepted, refused, or accepted with the answer lost.
PostBatch(p) ==
  LET hand == emitter[p].hand
      sent == emitter[p].sent
      upto == IF sent + BatchSize < Len(hand) THEN sent + BatchSize ELSE Len(hand)
      accepted == delivered \cup Elements(SubSeq(hand, sent + 1, upto))
  IN /\ At(p, "post")
     /\ \/ /\ delivered' = accepted
           /\ emitter' = [emitter EXCEPT
                            ![p].sent = upto,
                            ![p].pc = IF upto = Len(hand) THEN "discard" ELSE "post"]
        \/ delivered' \in {delivered, accepted} /\ Goto(p, "open")
     /\ UNCHANGED <<file, rows, emitted, forfeited, overlapped>>

\* Mutant: the file is left alone for as long as another process may want it.
DiscardAlone(p) ==
  /\ At(p, "discard")
  /\ \A q \in Emitters \ {p} : ~Emitting(q)
  /\ IF Exists THEN Goto(p, "unlink") ELSE EndEmit(p)
  /\ UNCHANGED <<file, rows, delivered, emitted, forfeited, overlapped>>

Discard(p) ==
  /\ At(p, "discard")
  /\ IF Exists THEN Goto(p, "unlink") ELSE EndEmit(p)
  /\ UNCHANGED <<file, rows, delivered, emitted, forfeited, overlapped>>

\* unlink: when the file is gone meanwhile, its OSError is handled like a failed
\* post and what was delivered is written back.  A process that has the file open
\* goes on writing to what is no longer there.
Unlink(p) ==
  /\ At(p, "unlink")
  /\ IF Exists
     THEN emitter' = [q \in Emitters |->
                        IF q = p THEN Idle
                        ELSE IF At(q, "write") THEN [emitter[q] EXCEPT !.pc = "orphan"]
                        ELSE emitter[q]]
     ELSE Goto(p, "open")
  /\ file' = "absent"
  /\ rows' = << >>
  /\ UNCHANGED <<delivered, emitted, forfeited, overlapped>>

\* _write_buffer: write_text truncates when it opens and writes when it closes.
OpenBuffer(p) ==
  /\ At(p, "open")
  /\ file' = "empty"
  /\ rows' = << >>
  /\ Goto(p, "write")
  /\ UNCHANGED <<delivered, emitted, forfeited, overlapped>>

\* Of what another process wrote since, what remains may begin inside a character.
WriteBuffer(p) ==
  /\ At(p, "write")
  /\ rows' \in Overlay(Legible(Retained(emitter[p].hand)))
  /\ file' \in IF file = "empty" THEN {"text"} ELSE {"text", "torn"}
  /\ EndEmit(p)
  /\ UNCHANGED <<delivered, emitted, forfeited, overlapped>>

WriteOrphan(p) ==
  /\ At(p, "orphan")
  /\ EndEmit(p)
  /\ UNCHANGED <<file, rows, delivered, emitted, forfeited, overlapped>>

\* The disk is full, which suppress(OSError) hides, or the process is killed: nothing
\* more is written, and what is written may end inside a character.
WriteCutShort(p) ==
  LET hand == emitter[p].hand
      cut == {SubSeq(Retained(hand), 1, n) : n \in 0..(Len(Retained(hand)) - 1)}
  IN /\ At(p, "write")
     /\ \/ UNCHANGED <<file, rows>>
        \/ /\ \E s \in cut : rows' \in Overlay(s)
           /\ file' \in {"text", "torn"}
     /\ forfeited' = forfeited \cup (Elements(hand) \ Elements(rows'))
     /\ EndEmit(p)
     /\ UNCHANGED <<delivered, emitted, overlapped>>

\* The process is killed elsewhere in emit, or the file cannot be opened for writing:
\* the event of this emit goes with it.
Killed(p) ==
  /\ Emitting(p) /\ ~At(p, "write")
  /\ forfeited' = forfeited \cup {emitter[p].item}
  /\ EndEmit(p)
  /\ UNCHANGED <<file, rows, delivered, emitted, overlapped>>

EmitStep(p) ==
  \/ ReadBuffer(p) \/ PostBatch(p) \/ Discard(p) \/ Unlink(p)
  \/ OpenBuffer(p) \/ WriteBuffer(p) \/ WriteOrphan(p)
  \/ WriteCutShort(p)

Next == \E p \in Emitters : Begin(p) \/ EmitStep(p) \/ Killed(p)

Spec == Init /\ [][Next]_vars

\* A POST returns or times out and a file operation returns.
FairSpec == Spec /\ \A p \in Emitters : WF_vars(EmitStep(p))

-----------------------------------------------------------------------------
\* However long the Monitor stays away and whatever interrupts the rewriting,
\* the file of one process holds at most max_buffer_events rows; processes that
\* write it at the same time add up to as much each, never more.
BufferBounded == Len(rows) <= Cardinality(Emitters) * MaxBuffer

\* At least once: an event is delivered, waiting, or was given up for a kill, a
\* full disk or MaxBuffer events after it.  Processes that take turns at the one
\* file keep that; when their emits overlap more may be lost.  Two things monitor.py
\* does lose besides: a row that splitlines() breaks, if it had to wait, and after a
\* cut inside a character everything, because no emit gets past the reading.
LostOnlyForAReason ==
  overlapped \/ file = "torn" \/ \A e \in 1..emitted :
    \/ e \in delivered \cup forfeited \cup Elements(rows)
    \/ \E p \in Emitters : e = emitter[p].item \/ e \in Elements(emitter[p].hand)
    \/ emitted - e >= MaxBuffer
    \/ e \in Splitting

\* While emits do not overlap the Monitor learns of the events in the order they
\* were emitted, whatever is buffered, retried in part or delivered twice.
DeliveredInOrder ==
  [][overlapped \/ \A e \in delivered' \ delivered, f \in delivered : f < e]_vars

\* An unreachable Monitor, or another process at the same file, never holds an
\* emit and with it the tick (SDS 23).
EmitEnds == \A p \in Emitters : Emitting(p) ~> ~Emitting(p)

\* Telemetry is fail-open: no emit raises into the tick (docs/runbook.md).
FailOpen == \A p \in Emitters : ~At(p, "raised")
=============================================================================
