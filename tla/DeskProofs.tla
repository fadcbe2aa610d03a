----------------------------- MODULE DeskProofs -----------------------------
(***************************************************************************)
(* Proofs about three parts of the desk.  Newsroom, for any staff,         *)
(* register, cooldown and number of issues: the register tells the history *)
(* of the issues but for what retention forgets for cause, whatever was    *)
(* abandoned and whichever run was under way meanwhile; people             *)
(* rest as they should, and everybody signs in turn.  Palette, for any     *)
(* passages found and any budget: grounding is not refused where enough    *)
(* was found.  Schedule, for any hour, cadence and changes of the clock:   *)
(* the slots are those of the calendar.                                    *)
(***************************************************************************)
EXTENDS Newsroom, Palette, Schedule, Counting, SequenceTheorems, TLAPS

Registered == [count : Nat, first : Nat, last : Nat, cooldown : Nat,
               recurring : BOOLEAN, retired : BOOLEAN]

Issues == [named : SUBSET People, candidates : SUBSET People, signed : SUBSET People,
           offered : SUBSET People]

Seen(e) == {i \in DOMAIN history : AppearedIn(e, i)}

\* The issues that a row which begins with the given one tells of.
Told(e, first) == {i \in Seen(e) : first <= i}

\* Of what came before that, and before the issue after since, all was forgotten for
\* cause.
Forgiven(e, S, since) == \A i \in S : ForgottenForCause(e, i, since)

\* What the row of a person says of the issues he appeared in.
Chronicle(e, row) ==
  /\ row.count = Cardinality(Told(e, row.first))
  /\ row.first \in Seen(e)
  /\ row.last \in Seen(e)
  /\ \A i \in Seen(e) : i <= row.last
  /\ row.cooldown = row.last + Cooldown + 1
  /\ Forgiven(e, Seen(e) \ Told(e, row.first), row.first - 1)
  /\ e \in Others => (row.recurring <=> e \in history[row.first].candidates)

Recorded(e) ==
  IF e \in DOMAIN register THEN Chronicle(e, register[e])
  ELSE Forgiven(e, Seen(e), Len(history))

Rests(person, issue) ==
  \A k \in DOMAIN history : AppearedIn(person, k) => k + Cooldown < issue

\* The row that a run writes: it tells of the next issue as well.
Prepared(e, run, row) ==
  /\ row.count = Cardinality(Told(e, row.first)) + 1
  /\ row.first \in Seen(e) \cup {NextIssue}
  /\ row.last = NextIssue
  /\ row.cooldown = NextIssue + Cooldown + 1
  /\ Forgiven(e, Seen(e) \ Told(e, row.first), row.first - 1)
  /\ e \in Others =>
       (row.recurring <=> IF row.first = NextIssue THEN e \in run.candidates
                          ELSE e \in history[row.first].candidates)

\* A draft holds what the register it was made from said: whoever is retired or deleted
\* before it is written, its rows still tell of the issues there are.
Drafted(d) ==
  /\ d.run \in Issues
  /\ \A e \in d.run.offered : Rests(e, NextIssue)
  /\ DOMAIN d.updates = d.run.named \cup d.run.signed
  /\ \A e \in d.run.named \cup d.run.signed :
       d.updates[e] \in Registered /\ Prepared(e, d.run, d.updates[e])

Typed ==
  /\ register \in [DOMAIN register -> Registered]
  /\ history \in Seq(Issues)

NInv ==
  /\ Typed
  /\ \A e \in People : Recorded(e)
  /\ draft = << >> \/ (Len(draft) = 1 /\ Drafted(draft[1]))
  /\ CooldownKept

-----------------------------------------------------------------------------
LEMMA BylinesSign == \A issue \in Nat \ {0} : Bylines(issue) \in SUBSET Staff
<1>1. Len(Core) \in Nat \ {0} /\ Core \in Seq(Staff)
  BY NewsroomAssumption
<1>2. ASSUME NEW issue \in Nat \ {0}, NEW k \in 0..(PerEdition - 1)
      PROVE  Core[1 + (((((issue - 1) * 2) % Len(Core)) + k) % Len(Core))] \in Staff
  <2> DEFINE start == ((issue - 1) * 2) % Len(Core)
             n == (start + k) % Len(Core)
  <2>1. (issue - 1) * 2 \in Nat
    OBVIOUS
  <2>2. start \in Nat
    BY <1>1, <2>1
  <2>3. k \in Nat
    BY NewsroomAssumption
  <2> HIDE DEF start
  <2>4. start + k \in Nat
    BY <2>2, <2>3
  <2>5. n \in 0..(Len(Core) - 1)
    BY <1>1, <2>4
  <2> HIDE DEF n
  <2>6. 1 + n \in 1..Len(Core)
    BY <1>1, <2>5
  <2>7. Core[1 + n] \in Staff
    BY <1>1, <2>6
  <2> QED
    BY <2>7 DEF n, start
<1> QED
  BY <1>2 DEF Bylines

\* Whoever may be offered has rested, and has appeared in nothing since.
LEMMA SelectedRest ==
  ASSUME NInv, NEW people \in SUBSET People, NEW count,
         NEW s \in Selections(people, NextIssue, count)
  PROVE  s \in SUBSET People /\ \A e \in s : Rests(e, NextIssue)
<1>1. s \subseteq {e \in people \cap DOMAIN register : EligibleFor(e, NextIssue)}
  BY DEF Selections, kSubset
<1>2. ASSUME NEW e \in s
      PROVE  Rests(e, NextIssue)
  <2>1. e \in People /\ e \in DOMAIN register /\ register[e].cooldown <= NextIssue
    BY <1>1 DEF EligibleFor
  <2>2. SUFFICES ASSUME NEW k \in DOMAIN history, AppearedIn(e, k)
                 PROVE  k + Cooldown < NextIssue
    BY DEF Rests
  <2>3. k \in Seen(e)
    BY <2>2 DEF Seen
  <2>4. k <= register[e].last /\ register[e].cooldown = register[e].last + Cooldown + 1
    BY <2>1, <2>3 DEF NInv, Recorded, Chronicle
  <2>5. /\ register[e].last \in Nat /\ register[e].cooldown \in Nat
        /\ k \in Nat /\ NextIssue \in Nat /\ Cooldown \in Nat
    BY <2>1, <2>2, NewsroomAssumption DEF NInv, Typed, Registered, NextIssue
  <2> QED
    BY <2>1, <2>4, <2>5
<1> QED
  BY <1>1, <1>2

LEMMA Initially == NewsInit => NInv
<1> SUFFICES ASSUME NewsInit PROVE NInv
  OBVIOUS
<1>1. Typed
  BY DEF NewsInit, Typed
<1>2. \A e : Seen(e) = {} /\ e \notin DOMAIN register
  BY DEF NewsInit, Seen
<1>3. CooldownKept
  BY DEF NewsInit, CooldownKept
<1> QED
  BY <1>1, <1>2, <1>3 DEF NewsInit, NInv, Recorded, Forgiven

\* What is said of the history, while it does not change.
LEMMA HistoryStays ==
  ASSUME NInv, UNCHANGED history
  PROVE  /\ (history \in Seq(Issues))' /\ CooldownKept'
         /\ NextIssue' = NextIssue
         /\ \A e : Seen(e)' = Seen(e)
         /\ \A e, row : Chronicle(e, row)' <=> Chronicle(e, row)
         /\ \A e, S, since : Forgiven(e, S, since)' <=> Forgiven(e, S, since)
         /\ \A d : Drafted(d)' <=> Drafted(d)
         /\ (draft = << >> \/ (Len(draft) = 1 /\ Drafted(draft[1])))' \/ draft' # draft
<1>1. (history \in Seq(Issues))' /\ CooldownKept' /\ NextIssue' = NextIssue
  BY DEF NInv, Typed, CooldownKept, AppearedIn, NextIssue
<1>2. \A e : Seen(e)' = Seen(e)
  BY DEF Seen, AppearedIn
<1>3. \A e, S, since : Forgiven(e, S, since)' <=> Forgiven(e, S, since)
  BY DEF Forgiven, ForgottenForCause, AppearedIn
<1>4. \A e, first : Told(e, first)' = Told(e, first)
  BY <1>2 DEF Told
<1>5. \A e, row : Chronicle(e, row)' <=> Chronicle(e, row)
  BY <1>2, <1>3, <1>4 DEF Chronicle, Told, Forgiven, ForgottenForCause, Seen, AppearedIn
<1>6. \A e, run, row : Prepared(e, run, row)' <=> Prepared(e, run, row)
  BY <1>1, <1>2, <1>3, <1>4 DEF Prepared, Told, Forgiven, ForgottenForCause, Seen, AppearedIn
<1>7. \A e, issue : Rests(e, issue)' <=> Rests(e, issue)
  BY DEF Rests, AppearedIn
<1>8. \A d : Drafted(d)' <=> Drafted(d)
  BY <1>1, <1>6, <1>7 DEF Drafted, Rests, Prepared, Told, Forgiven, ForgottenForCause, Seen,
     AppearedIn, NextIssue
<1>9. ASSUME draft' = draft
      PROVE  (draft = << >> \/ (Len(draft) = 1 /\ Drafted(draft[1])))'
  <2>1. CASE draft = << >>
    BY <1>9, <2>1
  <2>2. CASE Len(draft) = 1 /\ Drafted(draft[1])
    <3>1. PICK d : d = draft[1] /\ d = draft'[1]
      BY <1>9
    <3>2. Drafted(d)'
      BY <1>8, <2>2, <3>1
    <3> QED
      BY <1>9, <2>2, <3>1, <3>2 DEF Drafted
  <2> QED
    BY <2>1, <2>2 DEF NInv
<1> QED
  BY <1>1, <1>2, <1>3, <1>5, <1>8, <1>9

LEMMA GenerateKeeps ==
  ASSUME NInv, GenerateIssue
  PROVE  NInv'
<1> USE DEF NInv
<1>1. PICK journalists \in Selections(Journalists, NextIssue, PerEdition),
           others \in Selections(Others, NextIssue, OtherPerEdition),
           named \in SUBSET Nameable :
      \E candidates \in SUBSET (named \cap Promising) :
        LET run == [named |-> named, candidates |-> candidates,
                    signed |-> Bylines(NextIssue), offered |-> journalists \cup others]
        IN draft' = <<[run |-> run, updates |-> EntityUpdates(run, NextIssue)]>>
  BY DEF GenerateIssue
<1>c. PICK candidates \in SUBSET (named \cap Promising) :
        LET run == [named |-> named, candidates |-> candidates,
                    signed |-> Bylines(NextIssue), offered |-> journalists \cup others]
        IN draft' = <<[run |-> run, updates |-> EntityUpdates(run, NextIssue)]>>
  BY <1>1
<1>2. UNCHANGED <<register, history>>
  BY DEF GenerateIssue
<1>3. NextIssue \in Nat \ {0} /\ Cooldown \in Nat /\ NextIssue - 1 = Len(history)
  BY NewsroomAssumption DEF Typed, NextIssue
<1> PICK n : n = NextIssue
  OBVIOUS
<1> DEFINE run == [named |-> named, candidates |-> candidates,
                   signed |-> Bylines(n), offered |-> journalists \cup others]
           updates == EntityUpdates(run, n)
<1>4. /\ named \in SUBSET People /\ candidates \in SUBSET named
      /\ Bylines(n) \in SUBSET Staff /\ Bylines(n) \in SUBSET People
      /\ Staff \cap Others = {}
  BY <1>3, BylinesSign, NewsroomAssumption DEF People, Journalists
<1>5. /\ journalists \cup others \in SUBSET People
      /\ \A e \in journalists \cup others : Rests(e, n)
  <2>1. Journalists \in SUBSET People /\ Others \in SUBSET People
    BY DEF People
  <2> QED
    BY <2>1, SelectedRest
<1>6. run \in Issues /\ run.named = named /\ run.signed = Bylines(n)
      /\ run.candidates = candidates /\ run.offered = journalists \cup others
  BY <1>4, <1>5 DEF Issues
<1> HIDE DEF run
<1>7. ASSUME NEW e \in run.named \cup run.signed
      PROVE  updates[e] \in Registered /\ Prepared(e, run, updates[e])
  <2> DEFINE u == updates[e]
  <2>1. u = Row(e, run, n, Appearances(e) + 1)
    BY DEF EntityUpdates
  <2>2. e \in People
    BY <1>4, <1>6
  <2>3. Recorded(e)
    BY <2>2
  <2>4. e \in Others => e \notin run.signed
    BY <1>4, <1>6
  <2>5. CASE e \in DOMAIN register
    <3> DEFINE row == register[e]
    <3>1. row \in Registered /\ Chronicle(e, row)
      BY <2>3, <2>5 DEF Recorded, Typed
    <3>2. /\ u.count = row.count + 1 /\ u.first = row.first /\ u.last = n
          /\ u.cooldown = n + Cooldown + 1
          /\ e \in Others => u.recurring = row.recurring
      BY <2>1, <2>4, <2>5 DEF Row, Appearances
    <3>3. u \in Registered
      <4>1. row.recurring \in BOOLEAN /\ row.retired \in BOOLEAN
            /\ row.count \in Nat /\ row.first \in Nat
        BY <3>1 DEF Registered
      <4>2. n \in Nat /\ n + Cooldown + 1 \in Nat /\ row.count + 1 \in Nat
        BY <1>3, <4>1
      <4>3. u = [count |-> row.count + 1, first |-> row.first, last |-> n,
                 cooldown |-> n + Cooldown + 1,
                 recurring |-> IF e \in run.named THEN row.recurring
                               ELSE e \in run.candidates \cup run.signed,
                 retired |-> row.retired]
        BY <2>1, <2>5, <4>1 DEF Row, Appearances
      <4> HIDE DEF u, row
      <4>4. (IF e \in run.named THEN row.recurring ELSE e \in run.candidates \cup run.signed)
              \in BOOLEAN
        BY <4>1
      <4> QED
        BY <4>1, <4>2, <4>3, <4>4, Zenon DEF Registered
    <3>4. row.first # n
      <4>1. row.first \in DOMAIN history
        BY <3>1 DEF Chronicle, Seen
      <4> QED
        BY <4>1 DEF NextIssue, Typed
    <3> HIDE DEF u, row
    <3>5. Prepared(e, run, u)
      BY <3>1, <3>2, <3>4 DEF Prepared, Chronicle
    <3> QED
      BY <3>3, <3>5 DEF u
  <2>6. CASE e \notin DOMAIN register
    <3>0. u = [count |-> 1, first |-> n, last |-> n, cooldown |-> n + Cooldown + 1,
               recurring |-> e \in run.candidates \cup run.signed, retired |-> FALSE]
      <4>1. Appearances(e) + 1 = 1
        BY <2>6 DEF Appearances
      <4>2. (e \in DOMAIN register /\ register[e].retired) = FALSE
        BY <2>6
      <4>3. (IF e \in DOMAIN register THEN register[e].first ELSE n) = n
        BY <2>6
      <4>4. (IF e \in DOMAIN register /\ e \in run.named THEN register[e].recurring
             ELSE e \in run.candidates \cup run.signed)
              = (e \in run.candidates \cup run.signed)
        BY <2>6, Zenon
      <4>5. u = Row(e, run, n, 1)
        BY <2>1, <4>1
      <4> HIDE DEF u
      <4> QED
        BY <4>2, <4>3, <4>4, <4>5, Zenon DEF Row
    <3>1. /\ u.count = 1 /\ u.first = n /\ u.last = n
          /\ u.cooldown = n + Cooldown + 1
          /\ u.recurring <=> e \in run.candidates \cup run.signed
      <4> HIDE DEF u
      <4> QED
        BY <3>0
    <3>2. u \in Registered
      <4>1. n \in Nat /\ n + Cooldown + 1 \in Nat /\ 1 \in Nat
        BY <1>3
      <4> HIDE DEF u
      <4>3. (e \in run.candidates \cup run.signed) \in BOOLEAN /\ FALSE \in BOOLEAN
        OBVIOUS
      <4> QED
        BY <3>0, <4>1, <4>3, Zenon DEF Registered
    <3>3. Told(e, n) = {} /\ Cardinality({}) = 0
      <4>1. \A i \in Seen(e) : ~(n <= i)
        BY DEF Seen, NextIssue, Typed
      <4> QED
        BY <4>1, FS_EmptySet DEF Told
    <3>4. Forgiven(e, Seen(e), n - 1)
      BY <1>3, <2>3, <2>6 DEF Recorded
    <3> HIDE DEF u
    <3>5. Prepared(e, run, u)
      BY <2>4, <3>1, <3>3, <3>4 DEF Prepared
    <3> QED
      BY <3>2, <3>5 DEF u
  <2> QED
    BY <2>5, <2>6
<1>8. DOMAIN updates = run.named \cup run.signed
  BY DEF EntityUpdates
<1> HIDE DEF updates
<1> DEFINE d0 == [run |-> run, updates |-> updates]
<1>9. Drafted(d0)
  BY <1>5, <1>6, <1>7, <1>8 DEF Drafted
<1>10. draft' = <<d0>>
  BY <1>c DEF run, updates
<1> HIDE DEF d0
<1>11. PICK d : Drafted(d) /\ draft' = <<d>>
  BY <1>9, <1>10
<1>12. (Len(draft) = 1 /\ Drafted(draft[1]))'
  <2>1. draft'[1] = d /\ Len(draft') = 1
    BY <1>11
  <2>2. Drafted(d)'
    BY <1>2, <1>11, HistoryStays
  <2> QED
    BY <2>1, <2>2 DEF Drafted
<1>13. Typed' /\ CooldownKept'
  BY <1>2, HistoryStays DEF Typed
<1>14. (\A e \in People : Recorded(e))'
  BY <1>2 DEF Recorded, Chronicle, Told, Forgiven, ForgottenForCause, Seen, AppearedIn
<1> QED
  BY <1>12, <1>13, <1>14

LEMMA AbandonKeeps ==
  ASSUME NInv, AbandonIssue
  PROVE  NInv'
<1>1. UNCHANGED <<register, history>> /\ draft' = << >>
  BY DEF AbandonIssue
<1>2. Typed' /\ CooldownKept'
  BY <1>1, HistoryStays DEF Typed, NInv
<1>3. (\A e \in People : Recorded(e))'
  BY <1>1 DEF NInv, Recorded, Chronicle, Told, Forgiven, ForgottenForCause, Seen, AppearedIn
<1> QED
  BY <1>1, <1>2, <1>3 DEF NInv

\* Retirement leaves alone what is told.
LEMMA RetireKeeps ==
  ASSUME NInv, Retire
  PROVE  NInv'
<1>1. PICK p \in DOMAIN register : register' = [register EXCEPT ![p].retired = TRUE]
  BY DEF Retire
<1>2. UNCHANGED <<draft, history>>
  BY DEF Retire
<1>3. register \in [DOMAIN register -> Registered]
  BY DEF NInv, Typed
<1>4. /\ DOMAIN register' = DOMAIN register
      /\ \A e \in DOMAIN register :
           /\ register'[e] \in Registered
           /\ register'[e].count = register[e].count
           /\ register'[e].first = register[e].first
           /\ register'[e].last = register[e].last
           /\ register'[e].cooldown = register[e].cooldown
           /\ register'[e].recurring = register[e].recurring
  BY <1>1, <1>3 DEF Registered
<1>5. register' \in [DOMAIN register' -> Registered]
  BY <1>1, <1>3, <1>4
<1>6. Typed' /\ CooldownKept'
  BY <1>2, <1>5, HistoryStays DEF Typed
<1>7. ASSUME NEW e \in People
      PROVE  Recorded(e)'
  <2>1. Recorded(e)
    BY DEF NInv
  <2>2. CASE e \in DOMAIN register
    <3>1. PICK row : row = register'[e]
      OBVIOUS
    <3>2. Chronicle(e, row)
      BY <1>4, <2>1, <2>2, <3>1 DEF Recorded, Chronicle
    <3>3. Chronicle(e, row)'
      BY <1>2, <3>2, HistoryStays
    <3> QED
      BY <1>4, <2>2, <3>1, <3>3 DEF Recorded, Chronicle, Told
  <2>3. CASE e \notin DOMAIN register
    BY <1>2, <1>4, <2>1, <2>3 DEF Recorded, Forgiven, ForgottenForCause, Seen, AppearedIn
  <2> QED
    BY <2>2, <2>3
<1>8. (draft = << >> \/ (Len(draft) = 1 /\ Drafted(draft[1])))'
  BY <1>2, HistoryStays
<1> QED
  BY <1>6, <1>7, <1>8 DEF NInv

\* Who is deleted has been away for long since all that his row told of, and was no
\* candidate to recur when it began.
LEMMA ForgetKeeps ==
  ASSUME NInv, Forget
  PROVE  NInv'
<1>1. PICK p \in DOMAIN register \cap Others :
        /\ ~register[p].recurring
        /\ Len(history) - register[p].last >= KeepNonrecurring
        /\ register' = Restrict(register, DOMAIN register \ {p})
  BY DEF Forget, Inactive
<1>2. UNCHANGED <<draft, history>>
  BY DEF Forget
<1>3. register \in [DOMAIN register -> Registered] /\ history \in Seq(Issues)
  BY DEF NInv, Typed
<1>4. /\ DOMAIN register' = DOMAIN register \ {p}
      /\ \A e \in DOMAIN register' : register'[e] = register[e]
  BY <1>1 DEF Restrict
<1>5. register' \in [DOMAIN register' -> Registered]
  BY <1>1, <1>3 DEF Restrict
<1>6. Typed' /\ CooldownKept'
  BY <1>2, <1>5, HistoryStays DEF Typed
<1>7. ASSUME NEW e \in People
      PROVE  Recorded(e)'
  <2>1. Recorded(e)
    BY DEF NInv
  <2>2. CASE e \in DOMAIN register'
    <3>1. PICK row : row = register[e] /\ row = register'[e]
      BY <1>4, <2>2
    <3>2. Chronicle(e, row)
      BY <1>4, <2>1, <2>2, <3>1 DEF Recorded
    <3>3. Chronicle(e, row)'
      BY <1>2, <3>2, HistoryStays
    <3> QED
      BY <2>2, <3>1, <3>3 DEF Recorded, Chronicle, Told
  <2>3. CASE e = p
    <3> DEFINE row == register[p]
    <3>1. Chronicle(p, row) /\ row \in Registered
      BY <1>1, <1>3, <2>1, <2>3 DEF Recorded
    <3>2. ASSUME NEW i \in Seen(p)
          PROVE  ForgottenForCause(p, i, Len(history))
      <4>0. /\ i \in Nat \ {0} /\ Len(history) \in Nat /\ KeepNonrecurring \in Nat
            /\ row.last \in Nat /\ row.first \in Nat \ {0}
            /\ row.first <= Len(history)
        <5>1. i \in DOMAIN history /\ row.first \in DOMAIN history
          BY <3>1 DEF Chronicle, Seen
        <5>2. row.last \in Nat
          BY <3>1 DEF Registered
        <5> HIDE DEF row
        <5> QED
          BY <1>3, <5>1, <5>2, NewsroomAssumption
      <4>1. i <= row.last /\ p \in Others
        BY <1>1, <3>1 DEF Chronicle
      <4>2. i + KeepNonrecurring <= Len(history)
        <5>1. Len(history) - row.last >= KeepNonrecurring
          BY <1>1
        <5> HIDE DEF row
        <5> QED
          BY <4>0, <4>1, <5>1
      <4>3. \E k \in 1..i : AppearedIn(p, k) /\ p \notin history[k].candidates
        <5>1. CASE i \in Told(p, row.first)
          <6>1. row.first \in 1..i
            BY <4>0, <5>1 DEF Told
          <6>2. AppearedIn(p, row.first) /\ p \notin history[row.first].candidates
            BY <1>1, <3>1 DEF Chronicle, Seen
          <6> QED
            BY <6>1, <6>2
        <5>2. CASE i \notin Told(p, row.first)
          BY <3>1, <5>2 DEF Chronicle, Forgiven, ForgottenForCause
        <5> QED
          BY <5>1, <5>2
      <4> QED
        BY <4>1, <4>2, <4>3 DEF ForgottenForCause
    <3>3. Forgiven(p, Seen(p), Len(history))
      BY <3>2 DEF Forgiven
    <3> QED
      BY <1>2, <1>4, <2>3, <3>3 DEF Recorded, Forgiven, ForgottenForCause, Seen, AppearedIn
  <2>4. CASE e \notin DOMAIN register
    BY <1>2, <1>4, <2>1, <2>4 DEF Recorded, Forgiven, ForgottenForCause, Seen, AppearedIn
  <2> QED
    BY <1>4, <2>2, <2>3, <2>4
<1>8. (draft = << >> \/ (Len(draft) = 1 /\ Drafted(draft[1])))'
  BY <1>2, HistoryStays
<1> QED
  BY <1>6, <1>7, <1>8 DEF NInv

\* One more issue: who is in it has one more issue seen, and the row of the draft says so.
LEMMA MaterializeKeeps ==
  ASSUME NInv, MaterializeIssue
  PROVE  NInv'
<1>1. PICK run, updates : run = draft[1].run /\ updates = draft[1].updates
  OBVIOUS
<1>n. PICK n : n = NextIssue
  OBVIOUS
<1> DEFINE there == run.named \cup run.signed
<1>2. /\ draft # << >> /\ Drafted(draft[1])
      /\ register' = [e \in DOMAIN register \cup DOMAIN updates |->
                        IF e \in DOMAIN updates THEN updates[e] ELSE register[e]]
      /\ history' = Append(history, run)
      /\ draft' = << >>
  BY <1>1 DEF MaterializeIssue, NInv
<1>3. history \in Seq(Issues) /\ run \in Issues /\ n = Len(history) + 1
  BY <1>1, <1>2, <1>n DEF NInv, Typed, Drafted, NextIssue
<1>4. /\ history' \in Seq(Issues)
      /\ DOMAIN history = 1..(n - 1) /\ DOMAIN history' = 1..n
      /\ \A i \in 1..(n - 1) : history'[i] = history[i]
      /\ history'[n] = run
      /\ n \in Nat \ {0} /\ Len(history') = n /\ Len(history) = n - 1
  <2>1. Len(history) \in Nat /\ Len(history') = Len(history) + 1
    BY <1>2, <1>3, AppendProperties
  <2> QED
    BY <1>2, <1>3, <2>1, AppendProperties
<1>5. /\ DOMAIN updates = there
      /\ \A e \in there : updates[e] \in Registered /\ Prepared(e, run, updates[e])
  BY <1>1, <1>2 DEF Drafted
<1>6. Typed'
  <2>1. register \in [DOMAIN register -> Registered]
    BY DEF NInv, Typed
  <2>2. register' \in [DOMAIN register' -> Registered]
    BY <1>2, <1>5, <2>1
  <2> QED
    BY <1>4, <2>2 DEF Typed
<1>7. ASSUME NEW e
      PROVE  /\ \A i \in 1..(n - 1) : AppearedIn(e, i)' <=> AppearedIn(e, i)
             /\ AppearedIn(e, n)' <=> e \in there
  BY <1>4 DEF AppearedIn
<1>8. CooldownKept'
  <2> SUFFICES ASSUME NEW i \in DOMAIN history', NEW k \in DOMAIN history',
                      k < i, i <= k + Cooldown, NEW e \in history'[i].offered
               PROVE  ~(e \in history'[k].named \cup history'[k].signed)
    BY DEF CooldownKept, AppearedIn
  <2>1. i \in 1..n /\ k \in 1..(n - 1) /\ Cooldown \in Nat
    BY <1>4, NewsroomAssumption
  <2>2. history'[k] = history[k]
    BY <1>4, <2>1
  <2>3. CASE i = n
    <3>1. e \in run.offered
      BY <1>4, <2>3
    <3>2. Rests(e, n)
      BY <1>1, <1>2, <1>n, <3>1 DEF Drafted
    <3> QED
      BY <1>4, <2>1, <2>2, <2>3, <3>2 DEF Rests, AppearedIn
  <2>4. CASE i \in 1..(n - 1)
    BY <1>4, <2>1, <2>2, <2>4 DEF NInv, CooldownKept, AppearedIn
  <2> QED
    BY <1>4, <2>1, <2>3, <2>4
<1>9. ASSUME NEW e, NEW S \in SUBSET Seen(e), NEW since, Forgiven(e, S, since)
      PROVE  \A i \in S : ForgottenForCause(e, i, since)'
  <2> SUFFICES ASSUME NEW i \in S
               PROVE  ForgottenForCause(e, i, since)'
    OBVIOUS
  <2>1. /\ e \in Others /\ i + KeepNonrecurring <= since
        /\ \E k \in 1..i : AppearedIn(e, k) /\ e \notin history[k].candidates
    BY <1>9 DEF Forgiven, ForgottenForCause
  <2>2. PICK k \in 1..i : AppearedIn(e, k) /\ e \notin history[k].candidates
    BY <2>1
  <2>3. k \in 1..(n - 1)
    BY <1>4 DEF Seen
  <2>4. AppearedIn(e, k)' /\ e \notin history'[k].candidates
    BY <1>4, <1>7, <2>2, <2>3
  <2> QED
    BY <2>1, <2>4 DEF ForgottenForCause
<1>10. ASSUME NEW e \in People
       PROVE  Recorded(e)'
  <2>0. Recorded(e)
    BY DEF NInv
  <2>1. Seen(e) \subseteq 1..(n - 1) /\ n \notin Seen(e)
    BY <1>4 DEF Seen
  <2>2. CASE e \in there
    <3>1. Seen(e)' = Seen(e) \cup {n}
      BY <1>4, <1>7, <2>2 DEF Seen
    <3>2. PICK row : row = updates[e]
      OBVIOUS
    <3>3. /\ e \in DOMAIN register' /\ register'[e] = row
      BY <1>2, <1>5, <2>2, <3>2
    <3>4. Prepared(e, run, row) /\ row \in Registered
      BY <1>5, <2>2, <3>2
    <3>5. /\ row.first \in Seen(e) \cup {n} /\ row.last = n /\ row.first <= n
          /\ row.cooldown = n + Cooldown + 1 /\ row.first \in 1..n
      BY <1>4, <1>n, <2>1, <3>4 DEF Prepared
    <3>6. Told(e, row.first)' = Told(e, row.first) \cup {n}
      BY <3>1, <3>5 DEF Told
    <3>7. Cardinality(Told(e, row.first) \cup {n}) = Cardinality(Told(e, row.first)) + 1
      <4>1. Told(e, row.first) \subseteq 1..(n - 1) /\ n \notin Told(e, row.first)
        BY <2>1 DEF Told
      <4>2. IsFiniteSet(1..(n - 1))
        BY <1>4, FS_Interval
      <4> QED
        BY <4>1, <4>2, FS_Subset, FS_AddElement
    <3>8. row.count = Cardinality(Told(e, row.first)')
      BY <3>4, <3>6, <3>7 DEF Prepared
    <3>9. \A i \in Seen(e)' : i <= n
      BY <1>4, <2>1, <3>1
    <3>10. /\ Seen(e)' \ Told(e, row.first)' = Seen(e) \ Told(e, row.first)
           /\ \A i \in Seen(e) \ Told(e, row.first) : ForgottenForCause(e, i, row.first - 1)'
      <4>1. Seen(e)' \ Told(e, row.first)' = Seen(e) \ Told(e, row.first)
        BY <2>1, <3>1, <3>6
      <4>2. Forgiven(e, Seen(e) \ Told(e, row.first), row.first - 1)
        BY <3>4 DEF Prepared
      <4>3. PICK S, since : S = Seen(e) \ Told(e, row.first) /\ since = row.first - 1
        OBVIOUS
      <4> QED
        BY <1>9, <4>1, <4>2, <4>3
    <3>11. e \in Others => (row.recurring <=> e \in history'[row.first].candidates)
      <4>1. CASE row.first = n
        BY <1>4, <1>n, <3>4, <4>1 DEF Prepared
      <4>2. CASE row.first # n
        <5>1. row.first \in 1..(n - 1)
          BY <1>4, <3>5, <4>2
        <5> QED
          BY <1>4, <1>n, <3>4, <4>2, <5>1 DEF Prepared
      <4> QED
        BY <4>1, <4>2
    <3>12. Chronicle(e, row)'
      <4>1. row.first \in Seen(e)' /\ row.last \in Seen(e)'
        BY <3>1, <3>5
      <4>2. Forgiven(e, Seen(e) \ Told(e, row.first), row.first - 1)'
        BY <3>10 DEF Forgiven
      <4> QED
        BY <3>5, <3>8, <3>9, <3>11, <4>1, <4>2 DEF Chronicle
    <3> QED
      BY <3>3, <3>12 DEF Recorded, Chronicle, Told
  <2>3. CASE e \notin there
    <3>1. Seen(e)' = Seen(e)
      BY <1>4, <1>7, <2>3 DEF Seen
    <3>2. /\ e \in DOMAIN register' <=> e \in DOMAIN register
          /\ e \in DOMAIN register => register'[e] = register[e]
      BY <1>2, <1>5, <2>3
    <3>3. CASE e \in DOMAIN register
      <4>1. PICK row : row = register[e]
        OBVIOUS
      <4>2. Chronicle(e, row)
        BY <2>0, <3>3, <4>1 DEF Recorded
      <4>3. Told(e, row.first)' = Told(e, row.first)
        BY <3>1 DEF Told
      <4>4. \A i \in Seen(e) \ Told(e, row.first) : ForgottenForCause(e, i, row.first - 1)'
        <5>1. Forgiven(e, Seen(e) \ Told(e, row.first), row.first - 1)
          BY <4>2 DEF Chronicle
        <5>2. PICK S, since : S = Seen(e) \ Told(e, row.first) /\ since = row.first - 1
          OBVIOUS
        <5> QED
          BY <1>9, <5>1, <5>2
      <4>5. history'[row.first] = history[row.first]
        BY <1>4, <2>1, <4>2 DEF Chronicle
      <4>6. Forgiven(e, Seen(e) \ Told(e, row.first), row.first - 1)'
        BY <3>1, <4>3, <4>4 DEF Forgiven
      <4>7. Chronicle(e, row)'
        BY <3>1, <4>2, <4>3, <4>5, <4>6 DEF Chronicle
      <4> QED
        BY <3>2, <3>3, <4>1, <4>7 DEF Recorded, Chronicle, Told
    <3>4. CASE e \notin DOMAIN register
      <4>1. Forgiven(e, Seen(e), n - 1)
        BY <1>4, <2>0, <3>4 DEF Recorded
      <4>2. Forgiven(e, Seen(e), n)
        <5>1. \A i \in Seen(e) : i + KeepNonrecurring <= n - 1 => i + KeepNonrecurring <= n
          BY <1>4, <2>1, NewsroomAssumption
        <5> QED
          BY <4>1, <5>1 DEF Forgiven, ForgottenForCause
      <4>3. \A i \in Seen(e) : ForgottenForCause(e, i, n)'
        BY <1>9, <4>2
      <4>4. \A i \in Seen(e)' : ForgottenForCause(e, i, Len(history))'
        BY <1>4, <3>1, <4>3 DEF ForgottenForCause
      <4> QED
        BY <3>2, <3>4, <4>4 DEF Recorded, Forgiven
    <3> QED
      BY <3>3, <3>4
  <2> QED
    BY <2>2, <2>3
<1> QED
  BY <1>2, <1>6, <1>8, <1>10 DEF NInv

LEMMA NewsInvariant == NewsSpec => []NInv
<1>1. NInv /\ UNCHANGED newsVars => NInv'
  <2> SUFFICES ASSUME NInv, UNCHANGED newsVars PROVE NInv'
    OBVIOUS
  <2>1. UNCHANGED <<register, history>> /\ draft' = draft
    BY DEF newsVars
  <2>2. Typed' /\ CooldownKept'
    BY <2>1, HistoryStays DEF Typed, NInv
  <2>3. (\A e \in People : Recorded(e))'
    BY <2>1 DEF NInv, Recorded, Chronicle, Told, Forgiven, ForgottenForCause, Seen, AppearedIn
  <2> QED
    BY <2>1, <2>2, <2>3, HistoryStays DEF NInv
<1>2. NInv /\ [NewsNext]_newsVars => NInv'
  BY <1>1, GenerateKeeps, MaterializeKeeps, AbandonKeeps, RetireKeeps, ForgetKeeps
     DEF NewsNext
<1> QED
  BY <1>2, Initially, PTL DEF NewsSpec

-----------------------------------------------------------------------------
\* Nobody is offered to the planner before he has rested, for any cooldown, staff and
\* choice of the planner's.
THEOREM PeopleRest == NewsSpec => []CooldownKept
<1>1. NInv => CooldownKept
  BY DEF NInv
<1> QED
  BY <1>1, NewsInvariant, PTL

\* What the register says of a person is what the issues say, but for what retention
\* forgot of one who had not been seen for long, whatever was abandoned, for any number
\* of issues and any limits of the retention.
THEOREM RegisterTrue == NewsSpec => []RegisterIsHistory
<1>1. ASSUME NEW S, S \subseteq Nat, NEW a \in S, NEW b \in S,
             \A i \in S : a <= i /\ i <= b
      PROVE  S # {} /\ a = Min(S) /\ b = Max(S)
  <2>1. /\ \A x \in S : (\A y \in S : x <= y) => x = a
        /\ \A x \in S : (\A y \in S : x >= y) => x = b
    BY <1>1
  <2>2. Min(S) = a
    BY <1>1, <2>1 DEF Min
  <2>3. Max(S) = b
    BY <1>1, <2>1 DEF Max
  <2> QED
    BY <2>2, <2>3
<1>2. NInv => RegisterIsHistory
  <2> SUFFICES ASSUME NInv, NEW e \in People
               PROVE  LET seen == Seen(e)
                          here == e \in DOMAIN register
                          told == {i \in seen : here /\ register[e].first <= i}
                      IN /\ here => /\ told # {}
                                    /\ register[e].count = Cardinality(told)
                                    /\ register[e].first = Min(told)
                                    /\ register[e].last = Max(told)
                         /\ \A i \in seen \ told :
                              ForgottenForCause(e, i, IF here THEN register[e].first - 1
                                                      ELSE Len(history))
    BY DEF RegisterIsHistory, Seen
  <2>1. Seen(e) \subseteq Nat /\ Recorded(e)
    BY DEF NInv, Typed, Seen
  <2>2. CASE e \in DOMAIN register
    <3>1. PICK row : row = register[e]
      OBVIOUS
    <3>2. Chronicle(e, row)
      BY <2>1, <2>2, <3>1 DEF Recorded
    <3>3. PICK told : told = Told(e, row.first)
      OBVIOUS
    <3>4. told = {i \in Seen(e) : row.first <= i} /\ told \subseteq Nat
      BY <2>1, <3>3 DEF Told
    <3>5. row.first \in told /\ row.last \in told /\ \A i \in told : row.first <= i /\ i <= row.last
      BY <2>1, <3>2, <3>4 DEF Chronicle
    <3>6. told # {} /\ row.first = Min(told) /\ row.last = Max(told)
      BY <1>1, <3>4, <3>5
    <3>7. /\ row.count = Cardinality(told)
          /\ \A i \in Seen(e) \ told : ForgottenForCause(e, i, row.first - 1)
      BY <3>2, <3>3 DEF Chronicle, Forgiven
    <3> QED
      BY <2>2, <3>1, <3>4, <3>6, <3>7
  <2>3. CASE e \notin DOMAIN register
    BY <2>1, <2>3 DEF Recorded, Forgiven
  <2> QED
    BY <2>2, <2>3
<1> QED
  BY <1>2, NewsInvariant, PTL
-----------------------------------------------------------------------------
(* The rotation of the bylines, for any number of names and of bylines.    *)

\* The name an issue begins with, counted from 0.
StartOf(issue) == ((issue - 1) * 2) % Len(Core)

\* How many names on from s the name x comes.
After(x, s) == IF x >= s THEN x - s ELSE (x + Len(Core)) - s

LEMMA CoreFacts ==
  /\ Len(Core) \in Nat \ {0} /\ Len(Core) >= 6 /\ PerEdition \in 2..5
  /\ Core \in Seq(Staff) /\ DOMAIN Core = 1..Len(Core)
BY NewsroomAssumption

\* Some names further on, round at the end.
LEMMA FurtherOn ==
  ASSUME NEW a \in Nat, NEW s \in 0..(Len(Core) - 1), s = a % Len(Core),
         NEW m \in 0..(Len(Core) - 1)
  PROVE  (a + m) % Len(Core) = IF s + m < Len(Core) THEN s + m ELSE (s + m) - Len(Core)
<1> PICK n \in Nat \ {0} : n = Len(Core)
  BY CoreFacts
<1> PICK q : q = a \div n
  OBVIOUS
<1>1. q \in Nat /\ a = n * q + s
  BY Divided
<1>2. CASE s + m < n
  <2>1. a + m = n * q + (s + m) /\ s + m \in 0..(n - 1)
    BY <1>1, <1>2
  <2> QED BY <1>1, <1>2, <2>1, Quotient
<1>3. CASE ~(s + m < n)
  <2>1. n * (q + 1) = n * q + n /\ n * q \in Nat /\ q + 1 \in Nat
    BY <1>1
  <2>2. a + m = n * (q + 1) + ((s + m) - n) /\ (s + m) - n \in 0..(n - 1)
    BY <1>1, <1>3, <2>1
  <2>3. (a + m) % n = (s + m) - n
    BY <2>1, <2>2, Quotient
  <2> QED BY <1>3, <2>3
<1> QED BY <1>2, <1>3

LEMMA StartType ==
  ASSUME NEW issue \in Nat \ {0}
  PROVE  StartOf(issue) \in 0..(Len(Core) - 1)
<1>1. (issue - 1) * 2 \in Nat
  OBVIOUS
<1> QED BY <1>1, CoreFacts, Divided DEF StartOf

LEMMA OnceRound ==
  ASSUME NEW n \in Nat, NEW x \in 0..(n - 1), NEW s \in 0..(n - 1), NEW k \in 0..(n - 1),
         NEW y, y = IF s + k < n THEN s + k ELSE (s + k) - n
  PROVE  y = x <=> k = IF x >= s THEN x - s ELSE (x + n) - s
OBVIOUS

LEMMA AfterType ==
  ASSUME NEW x \in 0..(Len(Core) - 1), NEW s \in 0..(Len(Core) - 1)
  PROVE  After(x, s) \in 0..(Len(Core) - 1)
<1> PICK n \in Nat : n = Len(Core)
  BY CoreFacts
<1>1. After(x, s) = IF x >= s THEN x - s ELSE (x + n) - s
  BY DEF After
<1> QED BY <1>1

\* Who is at most PerEdition names after the start signs, and nobody else.
LEMMA WhoSigns ==
  ASSUME NEW issue \in Nat \ {0}, NEW x \in 0..(Len(Core) - 1)
  PROVE  Core[1 + x] \in Bylines(issue) <=> After(x, StartOf(issue)) <= PerEdition - 1
<1> PICK s \in 0..(Len(Core) - 1) : s = StartOf(issue)
  BY StartType
<1> PICK n \in Nat \ {0} : n = Len(Core)
  BY CoreFacts
<1>1. ASSUME NEW k \in 0..(n - 1)
      PROVE  (s + k) % n = IF s + k < n THEN s + k ELSE (s + k) - n
  <2>1. s \in Nat /\ s % n = s
    <3>1. s = n * 0 + s /\ s \in 0..(n - 1)
      OBVIOUS
    <3> QED BY <3>1, Quotient
  <2> QED BY <2>1, FurtherOn
<1>2. ASSUME NEW k \in 0..(n - 1)
      PROVE  (s + k) % n = x <=> k = After(x, s)
  <2> DEFINE y == (s + k) % n
  <2>1. y = IF s + k < n THEN s + k ELSE (s + k) - n
    BY <1>1
  <2> HIDE DEF y
  <2>2. After(x, s) = IF x >= s THEN x - s ELSE (x + n) - s
    BY DEF After
  <2>3. x \in 0..(n - 1) /\ s \in 0..(n - 1) /\ n \in Nat
    OBVIOUS
  <2>4. y = x <=> k = IF x >= s THEN x - s ELSE (x + n) - s
    BY <2>1, <2>3, OnceRound
  <2> QED BY <2>2, <2>4 DEF y
<1>3. ASSUME NEW k \in 0..(n - 1)
      PROVE  (s + k) % n \in 0..(n - 1)
  BY <1>1
<1>4. ASSUME NEW y \in 0..(n - 1), Core[1 + y] = Core[1 + x]
      PROVE  y = x
  <2>1. 1 + y \in DOMAIN Core /\ 1 + x \in DOMAIN Core
    BY CoreFacts
  <2>2. 1 + y = 1 + x
    BY <1>4, <2>1, NewsroomAssumption DEF IsInjective
  <2> QED BY <2>2
<1>5. Core[1 + x] \in Bylines(issue) <=> \E k \in 0..(PerEdition - 1) : (s + k) % n = x
  <2>1. Bylines(issue) = {Core[1 + ((s + k) % n)] : k \in 0..(PerEdition - 1)}
    BY DEF Bylines, StartOf
  <2>2. \A k \in 0..(PerEdition - 1) : k \in 0..(n - 1)
    BY CoreFacts
  <2> QED BY <1>3, <1>4, <2>1, <2>2
<1>6. After(x, s) \in 0..(n - 1)
  BY AfterType
<1>7. \A k \in 0..(PerEdition - 1) : k \in 0..(n - 1)
  BY CoreFacts
<1>8. After(x, s) <= PerEdition - 1 <=> After(x, s) \in 0..(PerEdition - 1)
  BY <1>6, CoreFacts
<1> QED BY <1>2, <1>5, <1>6, <1>7, <1>8

\* From issue to issue a name comes two nearer.
LEMMA Nearer ==
  ASSUME NEW issue \in Nat \ {0}, NEW x \in 0..(Len(Core) - 1), NEW j \in Nat,
         2 * j <= After(x, StartOf(issue))
  PROVE  After(x, StartOf(issue + j)) = After(x, StartOf(issue)) - 2 * j
<1> PICK s \in 0..(Len(Core) - 1) : s = StartOf(issue)
  BY StartType
<1> PICK n \in Nat \ {0} : n = Len(Core)
  BY CoreFacts
<1> PICK a \in Nat : a = (issue - 1) * 2
  <2>1. (issue - 1) * 2 \in Nat
    OBVIOUS
  <2> QED BY <2>1
<1>1. 2 * j \in 0..(n - 1)
  BY DEF After
<1>2. ((issue + j) - 1) * 2 = a + 2 * j /\ s = a % n
  BY DEF StartOf
<1>3. (a + 2 * j) % n = IF s + 2 * j < n THEN s + 2 * j ELSE (s + 2 * j) - n
  BY <1>1, <1>2, FurtherOn
<1>4. StartOf(issue + j) = IF s + 2 * j < n THEN s + 2 * j ELSE (s + 2 * j) - n
  BY <1>2, <1>3 DEF StartOf
<1> QED BY <1>4 DEF After

\* Whose turn is past waits for nearly a whole round.
LEMMA RoundAgain ==
  ASSUME NEW issue \in Nat \ {0}, NEW x \in 0..(Len(Core) - 1),
         After(x, StartOf(issue)) < 2
  PROVE  After(x, StartOf(issue + 1)) >= Len(Core) - 2
<1> PICK s \in 0..(Len(Core) - 1) : s = StartOf(issue)
  BY StartType
<1> PICK n \in Nat \ {0} : n = Len(Core) /\ n >= 6
  BY CoreFacts
<1> PICK a \in Nat : a = (issue - 1) * 2
  <2>1. (issue - 1) * 2 \in Nat
    OBVIOUS
  <2> QED BY <2>1
<1>1. ((issue + 1) - 1) * 2 = a + 2 /\ s = a % n /\ 2 \in 0..(n - 1)
  BY DEF StartOf
<1>2. (a + 2) % n = IF s + 2 < n THEN s + 2 ELSE (s + 2) - n
  BY <1>1, FurtherOn
<1>3. StartOf(issue + 1) = IF s + 2 < n THEN s + 2 ELSE (s + 2) - n
  BY <1>1, <1>2 DEF StartOf
<1> QED BY <1>3 DEF After

LEMMA NoThreeInARow ==
  ASSUME NEW i \in Nat, i >= 3, PerEdition <= 4, NEW x \in 0..(Len(Core) - 1)
  PROVE  \E k \in (i - 2)..i : Core[1 + x] \notin Bylines(k)
<1> PICK first \in Nat \ {0} : first = i - 2
  <2>1. i - 2 \in Nat \ {0}
    OBVIOUS
  <2> QED BY <2>1
<1> PICK d : d = After(x, StartOf(first))
  OBVIOUS
<1>1. d \in Nat
  BY CoreFacts, StartType, AfterType
<1>2. first + 1 \in Nat \ {0} /\ first + 2 \in Nat \ {0} /\ (first + 1) + 1 = first + 2
      /\ first \in (i - 2)..i /\ first + 1 \in (i - 2)..i /\ first + 2 \in (i - 2)..i
  OBVIOUS
<1>3. CASE d < 2
  <2>1. After(x, StartOf(first + 1)) >= Len(Core) - 2
    BY <1>3, RoundAgain
  <2>2. After(x, StartOf(first + 1)) \in Nat
    BY <1>2, CoreFacts, StartType, AfterType
  <2>3. ~(After(x, StartOf(first + 1)) <= PerEdition - 1)
    BY <2>1, <2>2, CoreFacts
  <2> QED BY <1>2, <2>3, WhoSigns
<1>4. CASE d >= 2 /\ d < 4
  <2>1. After(x, StartOf(first + 1)) = d - 2
    <3>1. 1 \in Nat /\ 2 * 1 = 2 /\ 2 * 1 <= d
      BY <1>1, <1>4
    <3>2. After(x, StartOf(first + 1)) = d - 2 * 1
      BY <3>1, Nearer
    <3> QED BY <3>1, <3>2
  <2>2. After(x, StartOf((first + 1) + 1)) >= Len(Core) - 2
    BY <1>1, <1>2, <1>4, <2>1, RoundAgain
  <2>3. After(x, StartOf(first + 2)) \in Nat
    BY <1>2, CoreFacts, StartType, AfterType
  <2>4. ~(After(x, StartOf(first + 2)) <= PerEdition - 1)
    BY <1>2, <2>2, <2>3, CoreFacts
  <2> QED BY <1>2, <2>4, WhoSigns
<1>5. CASE d >= 4
  <2>1. ~(d <= PerEdition - 1)
    BY <1>1, <1>5, CoreFacts
  <2> QED BY <1>2, <2>1, WhoSigns
<1> QED BY <1>1, <1>3, <1>4, <1>5

LEMMA InTurn ==
  ASSUME NEW i \in Nat, NEW x \in 0..(Len(Core) - 1), NEW round,
         round = (Len(Core) + 1) \div 2, i >= round
  PROVE  \E k \in (i - round + 1)..i : Core[1 + x] \in Bylines(k)
<1> PICK n \in Nat : n = Len(Core) /\ n >= 6
  BY CoreFacts
<1>1. round \in Nat /\ round >= 1 /\ 2 * round >= n
  OBVIOUS
<1> PICK first \in Nat \ {0} : first = i - round + 1
  <2>1. i - round + 1 \in Nat \ {0}
    BY <1>1
  <2> QED BY <2>1
<1> PICK d : d = After(x, StartOf(first))
  OBVIOUS
<1>2. d \in 0..(n - 1)
  BY StartType, AfterType
<1> PICK j : j = d \div 2
  OBVIOUS
<1>3. j \in Nat /\ 2 * j <= d /\ d - 2 * j <= 1
  BY <1>2
<1>4. first + j \in (i - round + 1)..i /\ first + j \in Nat \ {0}
  <2>1. j < round
    <3>1. 2 * j < 2 * round
      BY <1>1, <1>2, <1>3
    <3> QED BY <1>1, <1>3, <3>1
  <2>2. first + j <= i /\ first + j >= first /\ first + j \in Nat
    BY <1>1, <1>3, <2>1
  <2> QED BY <1>1, <2>2
<1>5. After(x, StartOf(first + j)) = d - 2 * j
  BY <1>3, Nearer
<1>6. After(x, StartOf(first + j)) <= PerEdition - 1
  <2>1. d - 2 * j \in Int /\ d - 2 * j <= 1
    BY <1>2, <1>3
  <2>2. PerEdition - 1 \in Int /\ 1 <= PerEdition - 1
    BY CoreFacts
  <2>3. d - 2 * j <= PerEdition - 1
    <3> PICK a, b : a = d - 2 * j /\ b = PerEdition - 1
      OBVIOUS
    <3> QED BY <2>1, <2>2
  <2> QED BY <1>5, <2>3
<1> QED BY <1>4, <1>6, WhoSigns

\* Every issue is signed by those whose turn it is: the number of an issue is that of its
\* draft, however many were abandoned before.
Signed ==
  /\ \A i \in DOMAIN history : history[i].signed = Bylines(i)
  /\ draft # << >> => draft[1].run.signed = Bylines(NextIssue)

LEMMA SignedStep ==
  ASSUME NInv, Signed, [NewsNext]_newsVars
  PROVE  Signed'
<1>1. history \in Seq(Issues)
  BY DEF NInv, Typed
<1>2. CASE GenerateIssue
  <2>1. history' = history /\ draft'[1].run.signed = Bylines(NextIssue)
    BY <1>2 DEF GenerateIssue
  <2> QED BY <2>1 DEF Signed, NextIssue
<1>3. CASE MaterializeIssue
  <2>1. draft' = << >>
    BY <1>3 DEF MaterializeIssue
  <2> PICK h : h = draft[1].run
    OBVIOUS
  <2>2. history' = Append(history, h) /\ h.signed = Bylines(Len(history) + 1) /\ h \in Issues
    <3>1. draft # << >> /\ Len(draft) = 1 /\ Drafted(draft[1])
      BY <1>3 DEF MaterializeIssue, NInv
    <3> QED BY <1>3, <3>1 DEF MaterializeIssue, Signed, NextIssue, Drafted
  <2>3. /\ DOMAIN history' = DOMAIN history \cup {Len(history) + 1}
        /\ \A i \in DOMAIN history : history'[i] = history[i]
        /\ history'[Len(history) + 1] = h
    BY <1>1, <2>2
  <2> QED BY <2>1, <2>2, <2>3 DEF Signed
<1>4. CASE AbandonIssue \/ Retire \/ Forget \/ UNCHANGED newsVars
  <2>1. history' = history /\ (draft' = << >> \/ draft' = draft)
    BY <1>4 DEF AbandonIssue, Retire, Forget, newsVars
  <2> QED BY <2>1 DEF Signed, NextIssue
<1> QED BY <1>2, <1>3, <1>4 DEF NewsNext

\* The newsroom rotates: with four bylines or fewer nobody signs three issues in a row,
\* and everybody signs within a round, for any staff and however many generations
\* were abandoned.
THEOREM BylinesTurn == NewsSpec => []BylinesRotate
<1>1. NewsInit => Signed
  BY DEF NewsInit, Signed
<1>2. ASSUME NInv, Signed
      PROVE  BylinesRotate
  <2> PICK round : round = (Len(Core) + 1) \div 2
    OBVIOUS
  <2> SUFFICES ASSUME NEW e \in Staff, NEW i \in DOMAIN history
               PROVE  /\ i >= 3 /\ PerEdition <= 4 =>
                           \E k \in (i - 2)..i : ~(e \in history[k].signed)
                      /\ i >= round =>
                           \E k \in (i - round + 1)..i : e \in history[k].signed
    BY DEF BylinesRotate
  <2>1. i \in Nat /\ DOMAIN history = 1..Len(history) /\ Len(history) \in Nat
    BY <1>2 DEF NInv, Typed
  <2>2. \A k \in 1..i : history[k].signed = Bylines(k)
    BY <1>2, <2>1 DEF Signed
  <2>3. PICK x \in 0..(Len(Core) - 1) : e = Core[1 + x]
    <3>1. PICK y \in DOMAIN Core : e = Core[y]
      BY DEF Staff
    <3>2. y - 1 \in 0..(Len(Core) - 1) /\ 1 + (y - 1) = y
      BY CoreFacts
    <3> QED BY <3>1, <3>2
  <2>4. ASSUME i >= 3, PerEdition <= 4
        PROVE  \E k \in (i - 2)..i : ~(e \in history[k].signed)
    <3>1. \E k \in (i - 2)..i : e \notin Bylines(k)
      BY <2>1, <2>3, <2>4, NoThreeInARow
    <3>2. \A k \in (i - 2)..i : k \in 1..i
      BY <2>1, <2>4
    <3> QED BY <2>2, <3>1, <3>2
  <2>5. ASSUME i >= round
        PROVE  \E k \in (i - round + 1)..i : e \in history[k].signed
    <3>1. \E k \in (i - round + 1)..i : e \in Bylines(k)
      BY <2>1, <2>3, <2>5, InTurn
    <3>2. \A k \in (i - round + 1)..i : k \in 1..i
      BY <2>1, <2>5, CoreFacts
    <3> QED BY <2>2, <3>1, <3>2
  <2> QED BY <2>4, <2>5
<1> QED BY <1>1, <1>2, SignedStep, NewsInvariant, PTL DEF NewsSpec

-----------------------------------------------------------------------------
(* Palette: sums over a sequence, as FoldLeft computes them.               *)

\* A set of positions has a last one.
LEMMA LastPosition ==
  ASSUME NEW n \in Nat, NEW T \in SUBSET (1..n), T # {}
  PROVE  Max(T) \in T /\ \A y \in T : Max(T) >= y
<1> DEFINE N == {m \in Nat : \A y \in T : y <= m}
<1>1. PICK m \in N : \A k \in N : m <= k
  <2>1. n \in N
    OBVIOUS
  <2>2. N \in SUBSET Nat /\ N # {}
    BY <2>1
  <2> HIDE DEF N
  <2> QED BY <2>2, LeastNumber
<1>2. m \in T
  <2> SUFFICES ASSUME m \notin T PROVE FALSE
    OBVIOUS
  <2>1. m \in Nat /\ \A y \in T : y <= m /\ y # m /\ y \in Nat /\ y >= 1
    OBVIOUS
  <2>2. m # 0
    <3>1. PICK y \in T : TRUE
      OBVIOUS
    <3> QED BY <2>1, <3>1
  <2>3. m - 1 \in N
    BY <2>1, <2>2
  <2>4. m <= m - 1
    <3> HIDE DEF N
    <3> QED BY <1>1, <2>3
  <2> QED BY <2>1, <2>4
<1>3. \A y \in T : m >= y
  OBVIOUS
<1> QED BY <1>2, <1>3 DEF Max

LEMMA FoldFromTheEnd ==
  ASSUME NEW S, IsFiniteSet(S), NEW r \in [S -> Nat],
         \A s \in SUBSET S : s # {} => Max(s) \in s,
         \A s \in SUBSET S : IsFiniteSet(Units(r, s)),
         \A s \in SUBSET S : \A x \in s :
           Cardinality(Units(r, s)) = r[x] + Cardinality(Units(r, s \ {x})),
         NEW f,
         f = CHOOSE g : g = [s \in SUBSET S |->
                               IF s = {} THEN 0 ELSE g[s \ {Max(s)}] + r[Max(s)]]
  PROVE  f[S] = Cardinality(Units(r, S))
<1> DEFINE Step(g) == [s \in SUBSET S |-> IF s = {} THEN 0 ELSE g[s \ {Max(s)}] + r[Max(s)]]
           u == [s \in SUBSET S |-> Cardinality(Units(r, s))]
           F == {s \in SUBSET S : f[s] # u[s]}
<1>2. u[{}] = 0
  BY FS_EmptySet DEF Units
<1>3. ASSUME NEW s \in SUBSET S, s # {}
      PROVE  Max(s) \in s /\ u[s] = u[s \ {Max(s)}] + r[Max(s)]
  <2>1. Max(s) \in s
    BY <1>3
  <2>2. s \ {Max(s)} \in SUBSET S
    OBVIOUS
  <2>3. u[s] = r[Max(s)] + u[s \ {Max(s)}]
    BY <2>1, <2>2
  <2>4. u[s \ {Max(s)}] \in Nat /\ r[Max(s)] \in Nat
    <3>1. IsFiniteSet(Units(r, s \ {Max(s)}))
      BY <2>2
    <3> QED BY <2>1, <2>2, <3>1, FS_CardinalityType
  <2> QED BY <2>1, <2>3, <2>4
<1>4. u = Step(u)
  BY <1>2, <1>3
<1>5. f = Step(f)
  <2>0. f = CHOOSE g : g = Step(g)
    OBVIOUS
  <2>1. \E g : g = Step(g)
    <3> HIDE DEF Step, u
    <3> QED BY <1>4
  <2> HIDE DEF Step
  <2> QED BY <2>0, <2>1, Zenon
<1>6. /\ f[{}] = 0
      /\ \A s \in SUBSET S : s # {} => f[s] = f[s \ {Max(s)}] + r[Max(s)]
  BY <1>5
<1> HIDE DEF u
<1>7. F \subseteq FiniteSubsetsOf(S)
  BY FS_Subset DEF FiniteSubsetsOf
<1>8. ASSUME F # {} PROVE FALSE
  <2>1. PICK T \in F : \A U \in F : U \subseteq T => U = T
    <3> HIDE DEF F
    <3> QED BY <1>7, <1>8, SmallestSubset
  <2>2. T # {} /\ T \in SUBSET S
    BY <1>2, <1>6
  <2>3. T \ {Max(T)} \notin F /\ T \ {Max(T)} \in SUBSET S
    BY <1>3, <2>1, <2>2
  <2> QED BY <1>3, <1>6, <2>2, <2>3
<1>9. f[S] = u[S]
  BY <1>8
<1> QED BY <1>9 DEF u

LEMMA Positions ==
  ASSUME NEW r \in Seq(Nat)
  PROVE  /\ IsFiniteSet(DOMAIN r) /\ Cardinality(DOMAIN r) = Len(r) /\ Len(r) \in Nat
         /\ DOMAIN r = 1..Len(r) /\ r \in [DOMAIN r -> Nat]
<1>1. DOMAIN r = 1..Len(r) /\ Len(r) \in Nat /\ r \in [DOMAIN r -> Nat]
  OBVIOUS
<1>2. IsFiniteSet(1..Len(r)) /\ Cardinality(1..Len(r)) = Len(r)
  <2> PICK n \in Nat : n = Len(r)
    BY <1>1
  <2>1. 1 \in Int /\ n \in Int
    OBVIOUS
  <2>2. IsFiniteSet(1..n) /\ Cardinality(1..n) = IF 1 > n THEN 0 ELSE n - 1 + 1
    BY <2>1, FS_Interval
  <2> QED BY <2>2
<1> QED BY <1>1, <1>2

LEMMA SeqUnits ==
  ASSUME NEW r \in Seq(Nat)
  PROVE  /\ \A s \in SUBSET DOMAIN r : IsFiniteSet(Units(r, s))
         /\ \A s \in SUBSET DOMAIN r : \A y \in s :
              Cardinality(Units(r, s)) = r[y] + Cardinality(Units(r, s \ {y}))
<1>1. IsFiniteSet(DOMAIN r) /\ r \in [DOMAIN r -> Nat]
  BY Positions
<1>2. \A s \in SUBSET DOMAIN r : \A y \in s :
        Cardinality(Units(r, s)) = r[y] + Cardinality(Units(r, s \ {y}))
  BY <1>1, UnitsSplit
<1>3. \A s \in SUBSET DOMAIN r : IsFiniteSet(Units(r, s))
  BY <1>1, UnitsFinite
<1> QED BY <1>2, <1>3

LEMMA SumOfIsUnits ==
  ASSUME NEW r \in Seq(Nat)
  PROVE  SumOf(r) = Cardinality(Units(r, DOMAIN r))
<1> PICK S : S = DOMAIN r
  OBVIOUS
<1>1. IsFiniteSet(S) /\ r \in [S -> Nat] /\ S = 1..Len(r) /\ Len(r) \in Nat
  BY Positions
<1>2. \A s \in SUBSET S : s # {} => Max(s) \in s
  BY <1>1, LastPosition
<1>3. /\ \A s \in SUBSET S : IsFiniteSet(Units(r, s))
      /\ \A s \in SUBSET S : \A x \in s :
           Cardinality(Units(r, s)) = r[x] + Cardinality(Units(r, s \ {x}))
  BY SeqUnits
<1> PICK f : f = CHOOSE g : g = [s \in SUBSET S |->
                                   IF s = {} THEN 0 ELSE g[s \ {Max(s)}] + r[Max(s)]]
  OBVIOUS
<1>4. SumOf(r) = f[S]
  BY DEF SumOf, FoldLeft, MapThenFoldSet
<1>5. f[S] = Cardinality(Units(r, S))
  BY <1>1, <1>2, <1>3, FoldFromTheEnd
<1> QED BY <1>4, <1>5

LEMMA SumOfType ==
  ASSUME NEW r \in Seq(Nat)
  PROVE  SumOf(r) \in Nat /\ IsFiniteSet(Units(r, DOMAIN r))
<1>1. IsFiniteSet(Units(r, DOMAIN r))
  BY SeqUnits
<1> QED BY <1>1, SumOfIsUnits, FS_CardinalityType

LEMMA SumOfEmpty == SumOf(<< >>) = 0
<1>1. << >> \in Seq(Nat) /\ Units(<< >>, DOMAIN << >>) = {}
  BY DEF Units
<1> QED BY <1>1, SumOfIsUnits, FS_EmptySet

LEMMA SumOfAppend ==
  ASSUME NEW r \in Seq(Nat), NEW x \in Nat
  PROVE  SumOf(Append(r, x)) = SumOf(r) + x
<1> PICK q : q = Append(r, x)
  OBVIOUS
<1> PICK n \in Nat : n = Len(r) + 1
  OBVIOUS
<1>1. /\ q \in Seq(Nat) /\ DOMAIN q = DOMAIN r \cup {n} /\ n \notin DOMAIN r /\ q[n] = x
      /\ \A i \in DOMAIN r : q[i] = r[i]
  OBVIOUS
<1>2. Units(q, DOMAIN q \ {n}) = Units(r, DOMAIN r)
  <2>1. DOMAIN q \ {n} = DOMAIN r
    BY <1>1
  <2> QED BY <1>1, <2>1 DEF Units
<1>3. IsFiniteSet(Units(r, DOMAIN r)) /\ q \in [DOMAIN q -> Nat]
  BY <1>1, Positions, SumOfType
<1>4. Cardinality(Units(q, DOMAIN q)) = q[n] + Cardinality(Units(q, DOMAIN q \ {n}))
  <2>1. \A s \in SUBSET DOMAIN q : \A y \in s :
          Cardinality(Units(q, s)) = q[y] + Cardinality(Units(q, s \ {y}))
    BY <1>1, <1>3, SeqUnits
  <2> QED BY <1>1, <2>1
<1>5. SumOf(q) = x + SumOf(r) /\ SumOf(r) \in Nat
  BY <1>1, <1>2, <1>4, SumOfIsUnits, SumOfType
<1> QED BY <1>5

\* As many units as summands at least, or at most, by the least or the greatest.
LEMMA SumOfAtMost ==
  ASSUME NEW r \in Seq(Nat), NEW b \in Nat, \A i \in DOMAIN r : r[i] <= b
  PROVE  SumOf(r) <= Len(r) * b
<1>1. /\ IsFiniteSet(DOMAIN r) /\ Cardinality(DOMAIN r) = Len(r) /\ r \in [DOMAIN r -> Nat]
      /\ IsFiniteSet(Units(r, DOMAIN r))
  BY Positions, SumOfType
<1> PICK m \in Int : m = b - 1
  OBVIOUS
<1>2. IsFiniteSet(0..m) /\ Cardinality(0..m) = b
  <2>1. IsFiniteSet(0..m) /\ Cardinality(0..m) = IF 0 > m THEN 0 ELSE m - 0 + 1
    <3>1. 0 \in Int
      OBVIOUS
    <3> QED BY <3>1, FS_Interval
  <2> QED BY <2>1
<1>3. Units(r, DOMAIN r) \subseteq (DOMAIN r) \X (0..m)
  <2> SUFFICES ASSUME NEW u \in Units(r, DOMAIN r) PROVE u \in (DOMAIN r) \X (0..m)
    OBVIOUS
  <2>1. PICK t \in DOMAIN r, k \in Nat : u = <<t, k>> /\ k < r[t]
    BY DEF Units
  <2>2. r[t] \in Nat /\ r[t] <= b
    BY <1>1
  <2>3. k \in 0..m
    BY <2>1, <2>2
  <2> QED BY <2>1, <2>3
<1>4. /\ IsFiniteSet((DOMAIN r) \X (0..m))
      /\ Cardinality((DOMAIN r) \X (0..m)) = Len(r) * b
  <2> PICK D, C : D = DOMAIN r /\ C = 0..m
    OBVIOUS
  <2>1. IsFiniteSet(D \X C) /\ Cardinality(D \X C) = Cardinality(D) * Cardinality(C)
    BY <1>1, <1>2, FS_Product
  <2> QED BY <1>1, <1>2, <2>1
<1>5. Cardinality(Units(r, DOMAIN r)) <= Cardinality((DOMAIN r) \X (0..m))
  BY <1>3, <1>4, FS_Subset
<1> QED BY <1>4, <1>5, SumOfIsUnits

LEMMA SumOfAtLeast ==
  ASSUME NEW r \in Seq(Nat), NEW b \in Nat, \A i \in DOMAIN r : r[i] >= b
  PROVE  SumOf(r) >= Len(r) * b
<1>1. /\ IsFiniteSet(DOMAIN r) /\ Cardinality(DOMAIN r) = Len(r) /\ r \in [DOMAIN r -> Nat]
      /\ IsFiniteSet(Units(r, DOMAIN r)) /\ Len(r) \in Nat
  BY Positions, SumOfType
<1> PICK m \in Int : m = b - 1
  OBVIOUS
<1>2. IsFiniteSet(0..m) /\ Cardinality(0..m) = b
  <2>1. IsFiniteSet(0..m) /\ Cardinality(0..m) = IF 0 > m THEN 0 ELSE m - 0 + 1
    <3>1. 0 \in Int
      OBVIOUS
    <3> QED BY <3>1, FS_Interval
  <2> QED BY <2>1
<1>3. (DOMAIN r) \X (0..m) \subseteq Units(r, DOMAIN r)
  <2> SUFFICES ASSUME NEW t \in DOMAIN r, NEW k \in 0..m PROVE <<t, k>> \in Units(r, DOMAIN r)
    OBVIOUS
  <2>1. r[t] \in Nat /\ r[t] >= b
    BY <1>1
  <2>2. k \in Nat /\ k < r[t]
    BY <2>1
  <2> QED BY <2>2 DEF Units
<1>4. Cardinality((DOMAIN r) \X (0..m)) = Len(r) * b
  <2> PICK D, C : D = DOMAIN r /\ C = 0..m
    OBVIOUS
  <2>1. Cardinality(D \X C) = Cardinality(D) * Cardinality(C)
    BY <1>1, <1>2, FS_Product
  <2> QED BY <1>1, <1>2, <2>1
<1>5. Cardinality((DOMAIN r) \X (0..m)) <= Cardinality(Units(r, DOMAIN r))
  BY <1>1, <1>3, FS_Subset
<1>6. SumOf(r) \in Nat /\ Len(r) * b \in Nat
  BY <1>1, SumOfType
<1> QED BY <1>4, <1>5, <1>6, SumOfIsUnits

-----------------------------------------------------------------------------
(* Palette: the order in which passages are taken.                         *)

\* w holds the passages of s at the places K, each once; at says where each is from.
Lists(at, w, s, K) ==
  /\ w \in Seq(Passages)
  /\ at \in [DOMAIN w -> K]
  /\ \A j \in DOMAIN w : w[j] = s[at[j]]
  /\ \A j, k \in DOMAIN w : at[j] = at[k] => j = k
  /\ \A i \in K : \E j \in DOMAIN w : at[j] = i

ListsOf(w, s, K) == \E at : Lists(at, w, s, K)

LEMMA ListsNothing ==
  ASSUME NEW s
  PROVE  ListsOf(<< >>, s, {})
<1>1. Lists([j \in DOMAIN << >> |-> j], << >>, s, {})
  BY DEF Lists
<1> QED BY <1>1 DEF ListsOf

LEMMA ListsOne ==
  ASSUME NEW s \in Seq(Passages), NEW i \in DOMAIN s
  PROVE  ListsOf(<<s[i]>>, s, {i})
<1> PICK w : w = <<s[i]>>
  OBVIOUS
<1>1. w \in Seq(Passages) /\ DOMAIN w = {1} /\ w[1] = s[i]
  OBVIOUS
<1>2. Lists([j \in DOMAIN w |-> i], w, s, {i})
  BY <1>1 DEF Lists
<1> QED BY <1>2 DEF ListsOf

\* One list after the other.
LEMMA ListsJoined ==
  ASSUME NEW s, NEW u, NEW v, NEW K, NEW L, NEW a, NEW b,
         Lists(a, u, s, K), Lists(b, v, s, L), K \cap L = {}
  PROVE  \E at : /\ Lists(at, u \o v, s, K \cup L)
                 /\ \A j \in DOMAIN (u \o v) : j <= Len(u) <=> at[j] \in K
                 /\ Len(u) \in Nat /\ Len(u \o v) >= Len(u)
<1> PICK w : w = u \o v
  OBVIOUS
<1>0. u \in Seq(Passages) /\ v \in Seq(Passages)
  BY DEF Lists
<1> PICK m, n \in Nat : m = Len(u) /\ n = Len(v)
  BY <1>0
<1>1. /\ w \in Seq(Passages) /\ DOMAIN w = 1..(m + n) /\ Len(w) = m + n
      /\ DOMAIN u = 1..m /\ DOMAIN v = 1..n
      /\ \A j \in 1..m : w[j] = u[j]
      /\ \A j \in (m + 1)..(m + n) : w[j] = v[j - m]
  BY <1>0
<1> DEFINE c == [j \in DOMAIN w |-> IF j <= m THEN a[j] ELSE b[j - m]]
<1>2. ASSUME NEW j \in DOMAIN w
      PROVE  \/ j \in DOMAIN u /\ j <= m /\ c[j] = a[j] /\ c[j] \in K /\ w[j] = s[c[j]]
             \/ /\ j - m \in DOMAIN v /\ ~(j <= m) /\ c[j] = b[j - m] /\ c[j] \in L
                /\ w[j] = s[c[j]]
  <2>1. CASE j <= m
    <3>1. j \in DOMAIN u /\ c[j] = a[j] /\ w[j] = u[j]
      BY <1>1, <2>1
    <3> QED BY <2>1, <3>1 DEF Lists
  <2>2. CASE ~(j <= m)
    <3>1. j - m \in DOMAIN v /\ c[j] = b[j - m] /\ w[j] = v[j - m]
      BY <1>1, <2>2
    <3> QED BY <2>2, <3>1 DEF Lists
  <2> QED BY <2>1, <2>2
<1>3. ASSUME NEW j \in DOMAIN w, NEW k \in DOMAIN w, c[j] = c[k]
      PROVE  j = k
  <2> HIDE DEF c
  <2>1. CASE c[j] \in K
    <3>1. j \in DOMAIN u /\ k \in DOMAIN u /\ a[j] = a[k]
      BY <1>2, <1>3, <2>1
    <3> QED BY <3>1 DEF Lists
  <2>2. CASE c[j] \notin K
    <3>1. j - m \in DOMAIN v /\ k - m \in DOMAIN v /\ b[j - m] = b[k - m]
      BY <1>2, <1>3, <2>2
    <3>2. j - m = k - m /\ j \in Nat /\ k \in Nat
      BY <1>1, <3>1 DEF Lists
    <3> QED BY <3>2
  <2> QED BY <2>1, <2>2
<1>4. ASSUME NEW i \in K \cup L
      PROVE  \E j \in DOMAIN w : c[j] = i
  <2>1. CASE i \in K
    <3>1. PICK j \in DOMAIN u : a[j] = i
      BY <2>1 DEF Lists
    <3>2. j \in DOMAIN w /\ j <= m
      BY <1>1
    <3> QED BY <3>1, <3>2
  <2>2. CASE i \in L
    <3>1. PICK j \in DOMAIN v : b[j] = i
      BY <2>2 DEF Lists
    <3>2. j + m \in DOMAIN w /\ ~(j + m <= m) /\ (j + m) - m = j
      BY <1>1
    <3> QED BY <3>1, <3>2
  <2> QED BY <2>1, <2>2
<1>5. c \in [DOMAIN w -> K \cup L]
  <2>1. \A j \in DOMAIN w : c[j] \in K \cup L
    BY <1>2
  <2> QED BY <2>1
<1> HIDE DEF c
<1>6. \A j \in DOMAIN w : w[j] = s[c[j]]
  BY <1>2
<1>7. \A j \in DOMAIN w : j <= m <=> c[j] \in K
  BY <1>2
<1>8. Lists(c, w, s, K \cup L)
  BY <1>1, <1>3, <1>4, <1>5, <1>6 DEF Lists
<1>9. m \in Nat /\ Len(w) >= m
  BY <1>1
<1> QED BY <1>7, <1>8, <1>9

LEMMA ListsMore ==
  ASSUME NEW s, NEW u, NEW v, NEW K, NEW L,
         ListsOf(u, s, K), ListsOf(v, s, L), K \cap L = {}
  PROVE  ListsOf(u \o v, s, K \cup L)
<1>1. PICK a : Lists(a, u, s, K)
  BY DEF ListsOf
<1>2. PICK b : Lists(b, v, s, L)
  BY DEF ListsOf
<1> QED BY <1>1, <1>2, ListsJoined DEF ListsOf

\* The passages at some places, in the order they were found.
Picked(s, K) == [i \in DOMAIN s |-> IF i \in K THEN <<s[i]>> ELSE << >>]

LEMMA PickedFlat ==
  ASSUME NEW s \in Seq(Passages), NEW K \in SUBSET DOMAIN s
  PROVE  ListsOf(FlattenSeq(Picked(s, K)), s, K)
<1> PICK q : q = Picked(s, K)
  OBVIOUS
<1> PICK n \in Nat : n = Len(s)
  OBVIOUS
<1>1. /\ DOMAIN s = 1..n /\ DOMAIN q = 1..n
      /\ \A i \in 1..n : q[i] = IF i \in K THEN <<s[i]>> ELSE << >>
  BY DEF Picked
<1>2. Len(q) = n
  <2>1. q = [i \in 1..n |-> q[i]]
    BY <1>1 DEF Picked
  <2>2. \A i \in 1..n : q[i] \in Seq(Passages)
    <3>1. \A i \in 1..n : s[i] \in Passages
      OBVIOUS
    <3>2. \A i \in 1..n : <<s[i]>> \in Seq(Passages) /\ << >> \in Seq(Passages)
      BY <3>1
    <3> QED BY <1>1, <3>2
  <2>3. q \in [1..n -> Seq(Passages)]
    BY <2>1, <2>2
  <2>4. q \in Seq(Seq(Passages))
    BY <2>3
  <2> QED BY <1>1, <2>4
<1>3. ASSUME NEW i \in 1..n
      PROVE  ListsOf(q[i], s, IF i \in K THEN {i} ELSE {})
  BY <1>1, ListsOne, ListsNothing
<1>4. CASE n = 0
  <2>1. FlattenSeq(q) = q
    BY <1>2, <1>4 DEF FlattenSeq
  <2>2. q = << >> /\ K = {}
    BY <1>1, <1>4 DEF Picked
  <2> QED BY <2>1, <2>2, ListsNothing
<1>5. CASE n # 0
  <2> DEFINE Next1(g, i) == IF i = 1 THEN q[i] ELSE g[i - 1] \o q[i]
             Flat(g, k) == g = [i \in 1..k |-> Next1(g, i)]
             flat == CHOOSE g : Flat(g, n)
             N == {k \in 1..n : ~ \E g : Flat(g, k)}
             Before(k) == K \cap (1..k)
             M == {k \in 1..n : ~ ListsOf(flat[k], s, Before(k))}
  <2>1. FlattenSeq(q) = flat[n]
    BY <1>2, <1>5 DEF FlattenSeq
  <2>2. N = {}
    <3> SUFFICES ASSUME N # {} PROVE FALSE
      OBVIOUS
    <3>1. PICK k \in N : \A m \in N : k <= m
      <4> HIDE DEF Flat
      <4>1. N \in SUBSET Nat
        OBVIOUS
      <4> HIDE DEF N
      <4> QED BY <4>1, LeastNumber
    <3>2. CASE k = 1
      <4> DEFINE h == [i \in 1..k |-> q[i]]
      <4>1. \A i \in 1..k : Next1(h, i) = q[i]
        BY <3>2
      <4> HIDE DEF Next1
      <4>2. Flat(h, k)
        BY <4>1
      <4> QED BY <4>2
    <3>3. CASE k # 1
      <4>0. k \in 1..n
        OBVIOUS
      <4>1. k - 1 \in 1..n /\ k - 1 \notin N /\ k \in Nat
        <5> HIDE DEF N
        <5> QED BY <3>1, <3>3, <4>0
      <4>2. PICK g : Flat(g, k - 1)
        BY <4>1
      <4> DEFINE h == [i \in 1..k |-> IF i = k THEN Next1(g, k) ELSE g[i]]
      <4>3. \A i \in 1..k : h[i] = Next1(h, i)
        <5> TAKE i \in 1..k
        <5>1. CASE i = 1
          <6>1. h[i] = g[i] /\ i \in 1..(k - 1)
            BY <3>3, <4>1, <5>1
          <6> HIDE DEF h
          <6> QED BY <4>2, <5>1, <6>1
        <5>2. CASE i # 1
          <6>1. i - 1 \in 1..(k - 1) /\ h[i - 1] = g[i - 1]
            BY <4>1, <5>2
          <6>2. h[i] = Next1(g, i)
            <7>1. i # k => i \in 1..(k - 1)
              BY <4>1
            <7>2. \A j \in 1..(k - 1) : g[j] = Next1(g, j)
              <8> HIDE DEF Next1
              <8> QED BY <4>2
            <7> HIDE DEF Next1
            <7> QED BY <7>1, <7>2
          <6>3. Next1(h, i) = Next1(g, i)
            <7> HIDE DEF h
            <7> QED BY <5>2, <6>1
          <6> HIDE DEF h, Next1
          <6> QED BY <6>2, <6>3
        <5> QED BY <5>1, <5>2
      <4>4. Flat(h, k)
        <5>1. h = [i \in 1..k |-> h[i]]
          OBVIOUS
        <5> HIDE DEF h, Next1
        <5> QED BY <4>3, <5>1
      <4> QED BY <4>4
    <3> QED BY <3>2, <3>3
  <2>3. Flat(flat, n)
    <3>1. \E g : Flat(g, n)
      <4>1. n \in 1..n
        BY <1>5
      <4> HIDE DEF Flat
      <4> QED BY <2>2, <4>1
    <3> HIDE DEF Flat
    <3> QED BY <3>1
  <2>4. \A i \in 1..n : flat[i] = Next1(flat, i)
    <3> HIDE DEF flat, Next1
    <3> QED BY <2>3
  <2> HIDE DEF flat
  <2>5. M = {}
    <3> SUFFICES ASSUME M # {} PROVE FALSE
      OBVIOUS
    <3>1. PICK k \in M : \A m \in M : k <= m
      <4>1. M \in SUBSET Nat
        OBVIOUS
      <4> HIDE DEF M
      <4> QED BY <4>1, LeastNumber
    <3>0. k \in 1..n
      OBVIOUS
    <3> DEFINE Own == IF k \in K THEN {k} ELSE {}
    <3>2. CASE k = 1
      <4>1. Before(k) = Own
        BY <3>2
      <4>2. flat[k] = q[k]
        BY <2>4, <3>0, <3>2
      <4> QED BY <1>3, <3>0, <4>1, <4>2
    <3>3. CASE k # 1
      <4>1. k - 1 \in 1..n /\ k - 1 \notin M
        <5> HIDE DEF M
        <5> QED BY <3>0, <3>1, <3>3
      <4>2. flat[k] = flat[k - 1] \o q[k]
        BY <2>4, <3>0, <3>3
      <4>3. Before(k) = Before(k - 1) \cup Own /\ Before(k - 1) \cap Own = {}
        BY <3>0
      <4>4. ListsOf(flat[k - 1], s, Before(k - 1))
        BY <4>1
      <4>5. ListsOf(q[k], s, Own)
        BY <1>3, <3>0
      <4>6. ListsOf(flat[k], s, Before(k))
        <5> HIDE DEF Before, Own
        <5> QED BY <4>2, <4>3, <4>4, <4>5, ListsMore
      <4> QED BY <4>6
    <3> QED BY <3>2, <3>3
  <2>6. n \in 1..n /\ Before(n) = K
    BY <1>1, <1>5
  <2>7. ListsOf(flat[n], s, Before(n))
    BY <2>5, <2>6
  <2> QED BY <2>1, <2>6, <2>7
<1> QED BY <1>4, <1>5

Firsts(s) == {i \in DOMAIN s : IsFirst(s, i)}

\* The first passages of the documents come before the others, and none is lost.
LEMMA FirstsFirst ==
  ASSUME NEW s \in Seq(Passages)
  PROVE  \E at, m : /\ Lists(at, Ordered(s), s, DOMAIN s)
                    /\ m \in Nat /\ m <= Len(Ordered(s))
                    /\ \A j \in DOMAIN Ordered(s) : j <= m <=> at[j] \in Firsts(s)
<1> DEFINE K == Firsts(s)
           L == DOMAIN s \ K
<1>1. K \in SUBSET DOMAIN s /\ L \in SUBSET DOMAIN s /\ K \cap L = {} /\ K \cup L = DOMAIN s
  BY DEF Firsts
<1>2. /\ Picked(s, K) = [i \in DOMAIN s |-> IF IsFirst(s, i) = TRUE THEN <<s[i]>> ELSE << >>]
      /\ Picked(s, L) = [i \in DOMAIN s |-> IF IsFirst(s, i) = FALSE THEN <<s[i]>> ELSE << >>]
  BY DEF Picked, Firsts, IsFirst
<1>3. Ordered(s) = FlattenSeq(Picked(s, K)) \o FlattenSeq(Picked(s, L))
  BY <1>2 DEF Ordered
<1> HIDE DEF K, L
<1>4. \E u, v, a, b : /\ Ordered(s) = u \o v
                      /\ Lists(a, u, s, K) /\ Lists(b, v, s, L)
  BY <1>1, <1>3, PickedFlat DEF ListsOf
<1>5. PICK u, v, a, b : /\ Ordered(s) = u \o v
                       /\ Lists(a, u, s, K) /\ Lists(b, v, s, L)
  BY <1>4
<1>6. PICK at : /\ Lists(at, u \o v, s, K \cup L)
                /\ \A j \in DOMAIN (u \o v) : j <= Len(u) <=> at[j] \in K
                /\ Len(u) \in Nat /\ Len(u \o v) >= Len(u)
  BY <1>1, <1>5, ListsJoined
<1>7. Ordered(s) = u \o v
  BY <1>5
<1>8. u \o v \in Seq(Passages)
  BY <1>6 DEF Lists
<1>9. Len(u) <= Len(u \o v)
  BY <1>6, <1>8
<1> QED BY <1>1, <1>6, <1>7, <1>9 DEF K

-----------------------------------------------------------------------------
(* Palette: what has been taken, and whether it is enough.                 *)

Evidence == [doc : Documents, tokens : Nat, score : Scores]

\* The safe ones of the first j passages of w were taken, each once: e[k] is an excerpt
\* of w[at[k]], and none is longer than its share.
Took(at, e, w, j) ==
  /\ e \in Seq(Evidence)
  /\ at \in [DOMAIN e -> 1..j]
  /\ \A k \in DOMAIN e : /\ w[at[k]].safe
                         /\ e[k].doc = w[at[k]].doc
                         /\ e[k].score = w[at[k]].score
                         /\ e[k].tokens <= PerChunkCap
  /\ \A k, l \in DOMAIN e : at[k] = at[l] => k = l
  /\ \A i \in 1..j : w[i].safe => \E k \in DOMAIN e : at[k] = i

\* todo is what is left of the passages in the order they are taken.
SoFar(at, j) ==
  /\ j \in 0..Len(Ordered(found))
  /\ todo = SubSeq(Ordered(found), j + 1, Len(Ordered(found)))
  /\ Took(at, evidence, Ordered(found), j)

PalInv ==
  /\ found \in Seq(Passages)
  /\ left \in Nat
  /\ Tokens(evidence) + left = TokenBudget
  /\ \E at, j : SoFar(at, j)
  /\ grounding = "no_evidence" => ~Sufficient(found)

\* The share of a passage is not nothing, and MinChunks shares fit.
LEMMA Share ==
  /\ PerChunkCap \in Nat \ {0} /\ MinChunks * PerChunkCap <= TokenBudget
  /\ MinChunks \in Nat \ {0} /\ TokenBudget \in Nat
<1>1. MinChunks \in Nat \ {0} /\ TokenBudget \in Nat /\ TokenBudget >= MinChunks
  BY PaletteAssumption
<1> DEFINE q == TokenBudget \div MinChunks
           r == TokenBudget % MinChunks
<1>2. q \in Int /\ r \in 0..(MinChunks - 1) /\ TokenBudget = (MinChunks * q) + r
  BY <1>1
<1>3. PerChunkCap = q
  BY DEF PerChunkCap
<1> HIDE DEF q, r
<1>4. q > 0
  <2> SUFFICES ASSUME q <= 0 PROVE FALSE
    BY <1>2
  <2>1. MinChunks * q <= 0
    BY <1>1, <1>2
  <2>2. MinChunks * q \in Int
    BY <1>1, <1>2
  <2> QED BY <1>1, <1>2, <2>1, <2>2
<1>5. MinChunks * q <= TokenBudget
  <2>1. MinChunks * q \in Int
    BY <1>1, <1>2
  <2> QED BY <1>1, <1>2, <2>1
<1> QED BY <1>1, <1>2, <1>3, <1>4, <1>5

\* The tokens and the scores of what was taken.
LEMMA TokensOf ==
  ASSUME NEW e \in Seq(Evidence)
  PROVE  /\ [i \in DOMAIN e |-> e[i].tokens] \in Seq(Nat)
         /\ [i \in DOMAIN e |-> e[i].score] \in Seq(Nat)
         /\ Len([i \in DOMAIN e |-> e[i].tokens]) = Len(e)
         /\ Len([i \in DOMAIN e |-> e[i].score]) = Len(e)
         /\ Len(e) \in Nat /\ DOMAIN e = 1..Len(e)
         /\ Tokens(e) \in Nat
<1> PICK n \in Nat : n = Len(e)
  OBVIOUS
<1>1. DOMAIN e = 1..n /\ \A i \in 1..n : e[i] \in Evidence
  OBVIOUS
<1>2. \A i \in 1..n : e[i].tokens \in Nat /\ e[i].score \in Nat
  <2>1. Scores \subseteq Nat
    BY PaletteAssumption
  <2> QED BY <1>1, <2>1 DEF Evidence
<1> PICK t, c : t = [i \in DOMAIN e |-> e[i].tokens] /\ c = [i \in DOMAIN e |-> e[i].score]
  OBVIOUS
<1>3. t \in [1..n -> Nat] /\ c \in [1..n -> Nat]
  BY <1>1, <1>2
<1>4. t \in Seq(Nat) /\ c \in Seq(Nat) /\ Len(t) = n /\ Len(c) = n
  BY <1>3
<1>5. Tokens(e) = SumOf(t)
  BY DEF Tokens
<1>6. Tokens(e) \in Nat
  BY <1>4, <1>5, SumOfType
<1> QED BY <1>1, <1>4, <1>6

LEMMA TokensNothing == Tokens(<< >>) = 0
<1>1. [i \in DOMAIN << >> |-> << >>[i].tokens] = << >>
  OBVIOUS
<1> QED BY <1>1, SumOfEmpty DEF Tokens

LEMMA TokensOneMore ==
  ASSUME NEW e \in Seq(Evidence), NEW x \in Evidence
  PROVE  Tokens(Append(e, x)) = Tokens(e) + x.tokens
<1> PICK n \in Nat : n = Len(e)
  OBVIOUS
<1> PICK f : f = Append(e, x)
  OBVIOUS
<1> PICK t, u : t = [i \in DOMAIN e |-> e[i].tokens] /\ u = [i \in DOMAIN f |-> f[i].tokens]
  OBVIOUS
<1>1. /\ f \in Seq(Evidence) /\ DOMAIN e = 1..n /\ DOMAIN f = 1..(n + 1)
      /\ Len(f) = n + 1
      /\ f[n + 1] = x /\ \A i \in 1..n : f[i] = e[i]
  OBVIOUS
<1>2. t \in Seq(Nat) /\ Len(t) = n /\ u \in Seq(Nat) /\ Len(u) = n + 1
  BY <1>1, TokensOf
<1>3. x.tokens \in Nat
  BY DEF Evidence
<1>4. u = Append(t, x.tokens)
  <2> PICK a : a = Append(t, x.tokens)
    OBVIOUS
  <2>1. /\ a \in Seq(Nat) /\ Len(a) = n + 1 /\ a[n + 1] = x.tokens
        /\ \A i \in 1..n : a[i] = t[i]
    BY <1>2, <1>3
  <2>2. \A i \in 1..n : t[i] = u[i]
    BY <1>1
  <2>3. u[n + 1] = x.tokens
    BY <1>1
  <2>4. \A i \in 1..Len(u) : u[i] = a[i]
    BY <1>2, <2>1, <2>2, <2>3
  <2> QED BY <1>2, <2>1, <2>4
<1>5. Tokens(f) = SumOf(u) /\ Tokens(e) = SumOf(t)
  BY DEF Tokens
<1>6. SumOf(u) = SumOf(t) + x.tokens
  BY <1>2, <1>3, <1>4, SumOfAppend
<1> QED BY <1>5, <1>6

\* Taking the next passage keeps the account.
LEMMA TookSafe ==
  ASSUME NEW w \in Seq(Passages), NEW j \in Nat, j + 1 \in DOMAIN w, w[j + 1].safe,
         NEW e, NEW at, Took(at, e, w, j), NEW x \in Evidence,
         x.doc = w[j + 1].doc, x.score = w[j + 1].score, x.tokens <= PerChunkCap
  PROVE  \E to : Took(to, Append(e, x), w, j + 1)
<1> PICK f : f = Append(e, x)
  OBVIOUS
<1> PICK n \in Nat : n = Len(e)
  BY DEF Took
<1>1. /\ f \in Seq(Evidence) /\ DOMAIN e = 1..n /\ DOMAIN f = 1..(n + 1)
      /\ f[n + 1] = x /\ \A i \in 1..n : f[i] = e[i]
  <2>1. e \in Seq(Evidence)
    BY DEF Took
  <2> QED BY <2>1
<1> DEFINE to == [k \in DOMAIN f |-> IF k = n + 1 THEN j + 1 ELSE at[k]]
<1>2. to[n + 1] = j + 1 /\ \A k \in 1..n : to[k] = at[k] /\ at[k] \in 1..j
  <2>1. \A k \in 1..n : at[k] \in 1..j
    BY <1>1 DEF Took
  <2>2. n + 1 \in DOMAIN f /\ \A k \in 1..n : k \in DOMAIN f /\ k # n + 1
    BY <1>1
  <2> QED BY <2>1, <2>2
<1>3. to \in [DOMAIN f -> 1..(j + 1)]
  <2>1. \A k \in DOMAIN f : to[k] \in 1..(j + 1)
    <3>1. (1..j) \subseteq 1..(j + 1) /\ j + 1 \in 1..(j + 1)
      OBVIOUS
    <3>2. \A k \in DOMAIN f : k = n + 1 \/ k \in 1..n
      BY <1>1
    <3> HIDE DEF to
    <3> QED BY <1>2, <3>1, <3>2
  <2> QED BY <2>1
<1> HIDE DEF to
<1>4. \A k \in DOMAIN f : k = n + 1 \/ k \in 1..n
  BY <1>1
<1>5. \A k \in DOMAIN f : /\ w[to[k]].safe
                          /\ f[k].doc = w[to[k]].doc
                          /\ f[k].score = w[to[k]].score
                          /\ f[k].tokens <= PerChunkCap
  <2> TAKE k \in DOMAIN f
  <2>1. CASE k = n + 1
    BY <1>1, <1>2, <2>1
  <2>2. CASE k \in 1..n
    BY <1>1, <1>2, <2>2 DEF Took
  <2> QED BY <1>4, <2>1, <2>2
<1>6. ASSUME NEW k \in DOMAIN f, NEW l \in DOMAIN f, to[k] = to[l]
      PROVE  k = l
  <2>1. CASE k \in 1..n /\ l \in 1..n
    BY <1>1, <1>2, <1>6, <2>1 DEF Took
  <2>2. \A i \in 1..n : to[i] # j + 1
    BY <1>2
  <2> QED BY <1>2, <1>4, <1>6, <2>1, <2>2
<1>7. ASSUME NEW i \in 1..(j + 1), w[i].safe
      PROVE  \E k \in DOMAIN f : to[k] = i
  <2>1. CASE i = j + 1
    BY <1>1, <1>2, <2>1
  <2>2. CASE i # j + 1
    <3>1. i \in 1..j
      BY <2>2
    <3>2. PICK k \in DOMAIN e : at[k] = i
      BY <1>7, <3>1 DEF Took
    <3> QED BY <1>1, <1>2, <3>2
  <2> QED BY <2>1, <2>2
<1>8. Took(to, f, w, j + 1)
  BY <1>1, <1>3, <1>5, <1>6, <1>7 DEF Took
<1> QED BY <1>8

LEMMA TookUnsafe ==
  ASSUME NEW w, NEW j \in Nat, ~ w[j + 1].safe,
         NEW e, NEW at, Took(at, e, w, j)
  PROVE  Took(at, e, w, j + 1)
<1>1. 1..(j + 1) = (1..j) \cup {j + 1}
  OBVIOUS
<1>2. at \in [DOMAIN e -> 1..(j + 1)]
  BY <1>1 DEF Took
<1> QED BY <1>1, <1>2 DEF Took

LEMMA UpTo ==
  ASSUME NEW n \in Nat
  PROVE  IsFiniteSet(1..n) /\ Cardinality(1..n) = n
BY FS_Interval

\* There is enough once nothing is left to take, of passages or of tokens.
LEMMA EnoughTaken ==
  ASSUME found \in Seq(Passages), Tokens(evidence) + left = TokenBudget,
         NEW at, NEW j, SoFar(at, j), todo = << >> \/ left = 0, Sufficient(found)
  PROVE  Len(evidence) >= MinChunks
<1> PICK w : w = Ordered(found)
  OBVIOUS
<1>1. PICK from : Lists(from, w, found, DOMAIN found)
  BY FirstsFirst
<1> PICK n \in Nat : n = Len(w)
  BY <1>1 DEF Lists
<1>2. evidence \in Seq(Evidence) /\ DOMAIN evidence = 1..Len(evidence) /\ Len(evidence) \in Nat
  BY TokensOf DEF SoFar, Took
<1>3. CASE left = 0
  <2>1. Tokens(evidence) = TokenBudget
    <3>1. Tokens(evidence) \in Nat
      BY <1>2, TokensOf
    <3> QED BY <1>3, <3>1
  <2> PICK t : t = [i \in DOMAIN evidence |-> evidence[i].tokens]
    OBVIOUS
  <2>2. t \in Seq(Nat) /\ Len(t) = Len(evidence) /\ SumOf(t) = TokenBudget
    BY <1>2, <2>1, TokensOf DEF Tokens
  <2>3. \A i \in DOMAIN t : t[i] <= PerChunkCap
    BY DEF SoFar, Took
  <2>4. TokenBudget <= Len(evidence) * PerChunkCap
    BY <2>2, <2>3, Share, SumOfAtMost
  <2> PICK a, b \in Nat : a = Len(evidence) /\ b = PerChunkCap
    BY <1>2, Share
  <2>5. /\ b # 0 /\ MinChunks \in Nat /\ TokenBudget \in Nat
        /\ MinChunks * b <= TokenBudget /\ TokenBudget <= a * b
    BY <2>4, Share
  <2>6. a >= MinChunks
    <3> SUFFICES ASSUME a < MinChunks PROVE FALSE
      BY <2>5
    <3> PICK d \in Nat : MinChunks = a + d /\ d > 0
      <4>1. MinChunks - a \in Nat /\ MinChunks = a + (MinChunks - a) /\ MinChunks - a > 0
        BY <2>5
      <4> QED BY <4>1
    <3>1. MinChunks * b = (a * b) + (d * b)
      OBVIOUS
    <3>2. d * b > 0
      BY <2>5
    <3>3. a * b \in Nat /\ d * b \in Nat
      OBVIOUS
    <3> QED BY <2>5, <3>1, <3>2, <3>3
  <2> QED BY <2>6
<1>4. CASE todo = << >>
  <2>1. j = n /\ w \in Seq(Passages) /\ DOMAIN w = 1..n
    <3>1. j \in 0..n /\ SubSeq(w, j + 1, n) = << >> /\ w \in Seq(Passages)
      BY <1>1, <1>4 DEF SoFar, Lists
    <3>2. j + 1 <= n => Len(SubSeq(w, j + 1, n)) = (n - (j + 1)) + 1
      BY <3>1
    <3>3. Len(SubSeq(w, j + 1, n)) = 0
      BY <3>1
    <3>4. DOMAIN w = 1..n
      BY <3>1
    <3>5. j = n
      BY <3>1, <3>2, <3>3
    <3> QED BY <3>1, <3>4, <3>5
  <2> DEFINE safe == {i \in DOMAIN found : found[i].safe}
             g == [k \in DOMAIN evidence |-> from[at[k]]]
  <2>2. \A k \in DOMAIN evidence : g[k] \in safe
    <3> TAKE k \in DOMAIN evidence
    <3>1. at[k] \in DOMAIN w /\ w[at[k]].safe
      BY <2>1 DEF SoFar, Took
    <3> QED BY <1>1, <3>1 DEF Lists
  <2>3. \A i \in safe : \E k \in DOMAIN evidence : g[k] = i
    <3> TAKE i \in safe
    <3>1. PICK p \in DOMAIN w : from[p] = i
      BY <1>1 DEF Lists
    <3>2. w[p].safe
      BY <1>1, <3>1 DEF Lists
    <3>3. PICK k \in DOMAIN evidence : at[k] = p
      BY <2>1, <3>2 DEF SoFar, Took
    <3> QED BY <3>1, <3>3
  <2>4. g \in Surjection(DOMAIN evidence, safe)
    BY <2>2, <2>3 DEF Surjection
  <2>5. IsFiniteSet(DOMAIN evidence) /\ Cardinality(DOMAIN evidence) = Len(evidence)
    <3> PICK l \in Nat : l = Len(evidence)
      BY <1>2
    <3>1. IsFiniteSet(1..l) /\ Cardinality(1..l) = l
      BY UpTo
    <3> QED BY <1>2, <3>1
  <2>6. Cardinality(safe) <= Len(evidence) /\ IsFiniteSet(safe)
    <3> HIDE DEF g, safe
    <3> QED BY <2>4, <2>5, FS_Surjection
  <2>7. Cardinality(safe) >= MinChunks
    BY DEF Sufficient
  <2>8. Cardinality(safe) \in Nat /\ MinChunks \in Nat
    <3> HIDE DEF safe
    <3> QED BY <2>6, Share, FS_CardinalityType
  <2> HIDE DEF safe
  <2> QED BY <1>2, <2>6, <2>7, <2>8
<1> QED BY <1>3, <1>4

LEMMA ScoresTaken ==
  ASSUME found \in Seq(Passages),
         NEW at, NEW j, SoFar(at, j), Sufficient(found)
  PROVE  SumOf([i \in DOMAIN evidence |-> evidence[i].score]) >= MinScore * Len(evidence)
<1> PICK w : w = Ordered(found)
  OBVIOUS
<1>1. PICK from : Lists(from, w, found, DOMAIN found)
  BY FirstsFirst
<1>2. evidence \in Seq(Evidence) /\ Len(evidence) \in Nat
  BY TokensOf DEF SoFar, Took
<1>3. Len(w) \in Nat /\ DOMAIN w = 1..Len(w)
  <2>1. w \in Seq(Passages)
    BY <1>1 DEF Lists
  <2> QED BY <2>1
<1>4. \A k \in DOMAIN evidence : evidence[k].score >= MinScore
  <2> TAKE k \in DOMAIN evidence
  <2>1. /\ at[k] \in DOMAIN w /\ w[at[k]].safe /\ evidence[k].score = w[at[k]].score
    BY <1>3 DEF SoFar, Took
  <2>2. /\ from[at[k]] \in DOMAIN found /\ w[at[k]] = found[from[at[k]]]
    BY <1>1, <2>1 DEF Lists
  <2> QED BY <2>1, <2>2 DEF Sufficient
<1> PICK c : c = [i \in DOMAIN evidence |-> evidence[i].score]
  OBVIOUS
<1>5. c \in Seq(Nat) /\ Len(c) = Len(evidence)
  BY <1>2, TokensOf
<1>6. \A i \in DOMAIN c : c[i] >= MinScore
  BY <1>4
<1>7. MinScore \in Nat
  BY PaletteAssumption
<1>8. SumOf(c) >= Len(evidence) * MinScore
  BY <1>5, <1>6, <1>7, SumOfAtLeast
<1> QED BY <1>2, <1>7, <1>8

\* Before every document had its turn no document was taken twice; after it, every
\* document whose best passage is safe is among those taken.
LEMMA DocumentsTaken ==
  ASSUME found \in Seq(Passages), Len(evidence) >= MinChunks,
         NEW at, NEW j, SoFar(at, j), Sufficient(found)
  PROVE  Cardinality({evidence[i].doc : i \in DOMAIN evidence}) >= MinDocuments
<1> PICK w : w = Ordered(found)
  OBVIOUS
<1>1. PICK from, m : /\ Lists(from, w, found, DOMAIN found)
                     /\ m \in Nat /\ m <= Len(w)
                     /\ \A p \in DOMAIN w : p <= m <=> from[p] \in Firsts(found)
  BY FirstsFirst
<1>2. evidence \in Seq(Evidence) /\ DOMAIN evidence = 1..Len(evidence) /\ Len(evidence) \in Nat
  BY TokensOf DEF SoFar, Took
<1>3. Len(w) \in Nat /\ DOMAIN w = 1..Len(w) /\ j \in Nat /\ j <= Len(w)
  <2>1. w \in Seq(Passages)
    BY <1>1 DEF Lists
  <2> QED BY <2>1 DEF SoFar
<1>4. MinChunks \in Nat /\ MinDocuments \in Nat /\ MinDocuments <= MinChunks
  BY PaletteAssumption
<1> DEFINE D == {evidence[i].doc : i \in DOMAIN evidence}
           g == [k \in DOMAIN evidence |-> evidence[k].doc]
           best == {i \in {i \in DOMAIN found : found[i].safe} : IsFirst(found, i)}
           B == {found[i].doc : i \in best}
<1>5. IsFiniteSet(DOMAIN evidence) /\ Cardinality(DOMAIN evidence) = Len(evidence)
  <2> PICK l \in Nat : l = Len(evidence)
    BY <1>2
  <2>1. IsFiniteSet(1..l) /\ Cardinality(1..l) = l
    BY UpTo
  <2> QED BY <1>2, <2>1
<1>6. g \in Surjection(DOMAIN evidence, D)
  BY DEF Surjection
<1>7. IsFiniteSet(D) /\ Cardinality(D) \in Nat
  <2> HIDE DEF D, g
  <2> QED BY <1>5, <1>6, FS_Surjection, FS_CardinalityType
<1>8. \A k \in DOMAIN evidence :
        /\ at[k] \in DOMAIN w /\ at[k] <= j
        /\ from[at[k]] \in DOMAIN found
        /\ evidence[k].doc = found[from[at[k]]].doc
  <2> TAKE k \in DOMAIN evidence
  <2>1. at[k] \in 1..j /\ evidence[k].doc = w[at[k]].doc
    BY DEF SoFar, Took
  <2>2. at[k] \in DOMAIN w /\ at[k] <= j
    BY <1>3, <2>1
  <2> QED BY <1>1, <2>1, <2>2 DEF Lists
<1>9. CASE m <= j
  <2>1. B \subseteq D
    <3> SUFFICES ASSUME NEW i \in best PROVE found[i].doc \in D
      OBVIOUS
    <3>1. i \in DOMAIN found /\ found[i].safe /\ i \in Firsts(found)
      BY DEF Firsts
    <3> HIDE DEF best
    <3>2. PICK p \in DOMAIN w : from[p] = i
      BY <1>1, <3>1 DEF Lists
    <3>3. p \in 1..j
      BY <1>1, <1>3, <1>9, <3>1, <3>2
    <3>4. w[p] = found[i]
      BY <1>1, <3>2 DEF Lists
    <3>5. PICK k \in DOMAIN evidence : at[k] = p
      BY <3>1, <3>3, <3>4 DEF SoFar, Took
    <3>6. evidence[k].doc = found[i].doc
      BY <1>8, <3>2, <3>5
    <3> QED BY <3>6
  <2>2. Cardinality(B) >= MinDocuments
    BY DEF Sufficient
  <2> HIDE DEF D, B
  <2>3. IsFiniteSet(B) /\ Cardinality(B) <= Cardinality(D)
    BY <1>7, <2>1, FS_Subset
  <2>4. Cardinality(B) \in Nat
    BY <2>3, FS_CardinalityType
  <2>5. Cardinality(D) >= MinDocuments
    BY <1>4, <1>7, <2>2, <2>3, <2>4
  <2> QED BY <2>5 DEF D
<1>10. CASE j < m
  <2>1. ASSUME NEW k \in DOMAIN evidence, NEW l \in DOMAIN evidence,
               evidence[k].doc = evidence[l].doc
        PROVE  k = l
    <3>1. from[at[k]] \in Firsts(found) /\ from[at[l]] \in Firsts(found)
      BY <1>1, <1>3, <1>8, <1>10
    <3>2. from[at[k]] = from[at[l]]
      <4> PICK a, b : a = from[at[k]] /\ b = from[at[l]]
        OBVIOUS
      <4>1. /\ a \in DOMAIN found /\ b \in DOMAIN found
            /\ found[a].doc = found[b].doc
            /\ IsFirst(found, a) /\ IsFirst(found, b)
        BY <1>8, <2>1, <3>1 DEF Firsts
      <4>2. DOMAIN found = 1..Len(found) /\ Len(found) \in Nat
        OBVIOUS
      <4>3. ~(a < b) /\ ~(b < a)
        BY <4>1, <4>2 DEF IsFirst
      <4>4. a = b
        BY <4>1, <4>2, <4>3
      <4> QED BY <4>4
    <3>3. at[k] = at[l]
      BY <1>1, <1>8, <3>2 DEF Lists
    <3> QED BY <3>3 DEF SoFar, Took
  <2>2. g \in Injection(DOMAIN evidence, D)
    BY <2>1 DEF Injection, IsInjective
  <2>3. Cardinality(DOMAIN evidence) <= Cardinality(D)
    <3> HIDE DEF D, g
    <3> QED BY <1>7, <2>2, FS_Injection
  <2> HIDE DEF D
  <2>4. Cardinality(D) >= MinDocuments
    BY <1>2, <1>4, <1>5, <1>7, <2>3
  <2> QED BY <2>4 DEF D
<1> QED BY <1>1, <1>3, <1>9, <1>10

\* What was found, in turn.
LEMMA InOrder ==
  ASSUME NEW s \in Seq(Passages)
  PROVE  Ordered(s) \in Seq(Passages) /\ Len(Ordered(s)) \in Nat
<1>1. Ordered(s) \in Seq(Passages)
  BY FirstsFirst DEF Lists
<1> QED BY <1>1

LEMMA PalStarts == PalInit => PalInv
<1> SUFFICES ASSUME PalInit PROVE PalInv
  OBVIOUS
<1>1. found \in Seq(Passages)
  <2>1. PICK n \in 0..MaxFound : found \in [1..n -> Passages]
    BY DEF PalInit
  <2>2. n \in Nat
    BY <2>1, PaletteAssumption
  <2> QED BY <2>1, <2>2
<1>2. left \in Nat /\ Tokens(evidence) + left = TokenBudget
  BY PaletteAssumption, TokensNothing DEF PalInit
<1>3. SoFar(<< >>, 0)
  <2> PICK w : w = Ordered(found)
    OBVIOUS
  <2> PICK n \in Nat : n = Len(w)
    BY <1>1, InOrder
  <2>1. w \in Seq(Passages)
    BY <1>1, InOrder
  <2>2. w = SubSeq(w, 0 + 1, n)
    BY <2>1
  <2>3. Took(<< >>, << >>, w, 0)
    BY DEF Took
  <2> QED BY <2>2, <2>3 DEF SoFar, PalInit
<1>4. grounding # "no_evidence"
  BY DEF PalInit
<1> QED BY <1>1, <1>2, <1>3, <1>4 DEF PalInv

LEMMA PalTakes ==
  ASSUME PalInv, TakePassage
  PROVE  PalInv'
<1>1. found \in Seq(Passages) /\ found' = found /\ grounding' = grounding
  BY DEF PalInv, TakePassage
<1>2. PICK at, j : SoFar(at, j)
  BY DEF PalInv
<1> PICK w : w = Ordered(found)
  OBVIOUS
<1> PICK n \in Nat : n = Len(w)
  BY <1>1, InOrder
<1>3. w \in Seq(Passages) /\ Ordered(found') = w
  BY <1>1, InOrder
<1>4. /\ j \in Nat /\ j < n /\ j + 1 \in 0..n /\ j + 1 \in DOMAIN w
      /\ Head(todo) = w[j + 1] /\ Tail(todo) = SubSeq(w, (j + 1) + 1, n)
  <2>1. j \in 0..n /\ todo = SubSeq(w, j + 1, n) /\ todo # << >>
    BY <1>2 DEF SoFar, TakePassage
  <2>2. /\ todo \in Seq(Passages)
        /\ Len(todo) = IF j + 1 <= n THEN (n - (j + 1)) + 1 ELSE 0
    BY <1>3, <2>1
  <2>3. j < n
    BY <2>1, <2>2
  <2>4. Head(todo) = w[j + 1]
    BY <1>3, <2>1, <2>3
  <2>5. Tail(todo) = SubSeq(w, (j + 1) + 1, n)
    <3> PICK t, u : t = Tail(todo) /\ u = SubSeq(w, (j + 1) + 1, n)
      OBVIOUS
    <3>1. t \in Seq(Passages) /\ u \in Seq(Passages)
      BY <1>3, <2>1, <2>2, <2>3
    <3>2. Len(t) = n - (j + 1) /\ Len(u) = n - (j + 1)
      BY <1>3, <2>1, <2>2, <2>3
    <3>3. \A i \in 1..(n - (j + 1)) : t[i] = todo[i + 1] /\ todo[i + 1] = w[(j + 1) + i]
      BY <1>3, <2>1, <2>2, <2>3
    <3>4. \A i \in 1..(n - (j + 1)) : u[i] = w[(j + 1) + i]
      BY <1>3, <2>1, <2>3
    <3>5. \A i \in 1..Len(t) : t[i] = u[i]
      BY <3>2, <3>3, <3>4
    <3>6. Len(t) = Len(u)
      BY <3>2
    <3>7. t = u
      BY <3>1, <3>5, <3>6, SeqEqual
    <3> QED BY <3>7
  <2> QED BY <1>3, <2>1, <2>3, <2>4, <2>5
<1>5. todo' = SubSeq(w, (j + 1) + 1, n) /\ Took(at, evidence, w, j)
  BY <1>2, <1>4 DEF TakePassage, SoFar
<1>6. /\ left \in Nat /\ left > 0 /\ Tokens(evidence) + left = TokenBudget
      /\ evidence \in Seq(Evidence) /\ Tokens(evidence) \in Nat
  <2>1. evidence \in Seq(Evidence)
    BY <1>5 DEF Took
  <2> QED BY <2>1, TokensOf DEF PalInv, TakePassage
<1>7. CASE w[j + 1].safe
  <2>1. PICK tokens \in Excerpts(w[j + 1].length) :
          /\ evidence' = Append(evidence, [doc |-> w[j + 1].doc, tokens |-> tokens,
                                           score |-> w[j + 1].score])
          /\ left' = left - tokens
    BY <1>4, <1>7 DEF TakePassage
  <2>2. w[j + 1] \in Passages
    BY <1>3, <1>4
  <2>3. tokens \in Nat /\ tokens <= PerChunkCap /\ tokens <= left
    <3>1. w[j + 1].length \in Nat
      BY <2>2, PaletteAssumption DEF Passages
    <3> PICK l \in Nat : l = w[j + 1].length
      BY <3>1
    <3> PICK cap \in Nat : cap = PerChunkCap
      BY Share
    <3>2. tokens \in Excerpts(l) /\ left \in Nat
      BY <1>6
    <3> QED BY <3>2 DEF Excerpts
  <2> PICK x : x = [doc |-> w[j + 1].doc, tokens |-> tokens, score |-> w[j + 1].score]
    OBVIOUS
  <2>4. /\ x \in Evidence /\ x.doc = w[j + 1].doc /\ x.score = w[j + 1].score
        /\ x.tokens = tokens /\ x.tokens <= PerChunkCap
    BY <2>2, <2>3 DEF Evidence, Passages
  <2>5. PICK to : Took(to, Append(evidence, x), w, j + 1)
    BY <1>3, <1>4, <1>5, <1>7, <2>4, TookSafe
  <2>6. evidence' = Append(evidence, x)
    BY <2>1
  <2>7. Tokens(evidence') = Tokens(evidence) + tokens
    BY <1>6, <2>4, <2>6, TokensOneMore
  <2>8. left' \in Nat /\ Tokens(evidence') + left' = TokenBudget
    <3> PICK a, b : a = Tokens(evidence) /\ b = Tokens(evidence')
      OBVIOUS
    <3> QED BY <1>6, <2>1, <2>3, <2>7
  <2>9. SoFar(to, j + 1)'
    BY <1>3, <1>4, <1>5, <2>5, <2>6 DEF SoFar
  <2> QED BY <1>1, <2>8, <2>9 DEF PalInv
<1>8. CASE ~ w[j + 1].safe
  <2>1. UNCHANGED <<evidence, left>>
    BY <1>4, <1>8 DEF TakePassage
  <2>2. Took(at, evidence, w, j + 1)
    BY <1>4, <1>5, <1>8, TookUnsafe
  <2>3. SoFar(at, j + 1)'
    BY <1>3, <1>4, <1>5, <2>1, <2>2 DEF SoFar
  <2>4. left' \in Nat /\ Tokens(evidence') + left' = TokenBudget
    BY <1>6, <2>1
  <2> QED BY <1>1, <2>3, <2>4 DEF PalInv
<1> QED BY <1>7, <1>8

LEMMA PalJudges ==
  ASSUME PalInv, JudgeGrounding
  PROVE  PalInv'
<1>1. UNCHANGED <<found, todo, left, evidence>>
  BY DEF JudgeGrounding
<1>2. grounding' = "no_evidence" => ~ Sufficient(found)
  <2> SUFFICES ASSUME Sufficient(found) PROVE Enough(evidence)
    BY DEF JudgeGrounding
  <2>1. PICK at, j : SoFar(at, j)
    BY DEF PalInv
  <2>2. found \in Seq(Passages) /\ Tokens(evidence) + left = TokenBudget
    BY DEF PalInv
  <2>3. todo = << >> \/ left = 0
    BY DEF JudgeGrounding
  <2>4. Len(evidence) >= MinChunks
    BY <2>1, <2>2, <2>3, EnoughTaken
  <2>5. Cardinality({evidence[i].doc : i \in DOMAIN evidence}) >= MinDocuments
    BY <2>1, <2>2, <2>4, DocumentsTaken
  <2>6. SumOf([i \in DOMAIN evidence |-> evidence[i].score]) >= MinScore * Len(evidence)
    BY <2>1, <2>2, ScoresTaken
  <2> QED BY <2>4, <2>5, <2>6 DEF Enough
<1> QED BY <1>1, <1>2 DEF PalInv, SoFar

\* Whatever was found, however long the passages are and in whatever order they rank: an
\* edition is refused for want of grounding only where not enough was found, and what is
\* taken stays within the budget (retrieval/palette.py, build_lore_palette).
THEOREM GroundingIsFair == PalSpec => []GroundingFair
<1>1. PalInit => PalInv
  BY PalStarts
<1>2. PalInv /\ [PalNext]_palVars => PalInv'
  <2> SUFFICES ASSUME PalInv, [PalNext]_palVars PROVE PalInv'
    OBVIOUS
  <2>1. CASE UNCHANGED palVars
    BY <2>1 DEF palVars, PalInv, SoFar
  <2> QED BY <2>1, PalTakes, PalJudges DEF PalNext
<1>3. PalInv => GroundingFair
  <2> SUFFICES ASSUME PalInv PROVE GroundingFair
    OBVIOUS
  <2>1. /\ grounding = "no_evidence" => ~Sufficient(found)
        /\ left \in Nat /\ Tokens(evidence) + left = TokenBudget
    BY DEF PalInv
  <2>2. Tokens(evidence) \in Nat
    <3>1. evidence \in Seq(Evidence)
      BY DEF PalInv, SoFar, Took
    <3> QED BY <3>1, TokensOf
  <2>3. Tokens(evidence) <= TokenBudget
    BY <2>1, <2>2
  <2> QED BY <2>1, <2>3 DEF GroundingFair
<1> QED BY <1>1, <1>2, <1>3, PTL DEF PalSpec

-----------------------------------------------------------------------------
(* Schedule: wall times, instants and days.                                *)

LEMMA Clocks ==
  /\ DayLength \in Nat \ {0} /\ Shift \in 0..(DayLength - 1) /\ Shift \in Nat
  /\ Forward \in Nat /\ Back \in Nat /\ Forward + Shift < Back
  /\ Cadence \in Nat \ {0} /\ Horizon \in Nat \ {0}
BY ScheduleAssumption

\* The wall clock shows at the instant of a wall time that time, or Shift more where it
\* is skipped.
LEMMA WallOfInstant ==
  ASSUME NEW w \in Nat
  PROVE  /\ Instant(w, 0) \in Nat
         /\ Instant(w, 0) <= w /\ w <= Instant(w, 0) + Shift
         /\ Fold(Instant(w, 0)) = 0
         /\ ~Skipped(w) => Wall(Instant(w, 0)) = w
         /\ Skipped(w) => Wall(Instant(w, 0)) = w + Shift
         /\ Wall(Instant(w, 0)) \in Nat
<1>1. CASE Skipped(w)
  <2>1. Instant(w, 0) = w /\ Forward <= w /\ w < Back
    BY <1>1, Clocks DEF Instant, Skipped, Repeated
  <2>2. Wall(w) = w + Shift /\ Fold(w) = 0
    BY <2>1, Clocks DEF Wall, Summer, Fold
  <2> QED BY <1>1, <2>1, <2>2, Clocks
<1>2. CASE ~Skipped(w) /\ Forward + Shift <= w /\ w < Back + Shift
  <2>1. Instant(w, 0) = w - Shift
    BY <1>2, Clocks DEF Instant, Repeated
  <2> PICK t : t = w - Shift
    OBVIOUS
  <2>2. t \in Nat /\ Forward <= t /\ t < Back /\ t + Shift = w
    BY <1>2, Clocks
  <2>3. Wall(t) = w /\ Fold(t) = 0
    BY <2>2, Clocks DEF Wall, Summer, Fold
  <2> QED BY <1>2, <2>1, <2>2, <2>3, Clocks
<1>3. CASE ~Skipped(w) /\ ~(Forward + Shift <= w /\ w < Back + Shift)
  <2>1. w < Forward \/ Back + Shift <= w
    BY <1>3, Clocks DEF Skipped
  <2>2. Instant(w, 0) = w
    BY <1>3, <2>1, Clocks DEF Instant, Skipped, Repeated
  <2>3. Wall(w) = w /\ Fold(w) = 0
    BY <2>1, Clocks DEF Wall, Summer, Fold
  <2> QED BY <1>3, <2>2, <2>3, Clocks
<1> QED BY <1>1, <1>2, <1>3

\* A wall time that is neither skipped nor repeated has not passed when the wall clock
\* shows no later one.
LEMMA NotPassed ==
  ASSUME NEW w \in Nat, ~Skipped(w), ~Repeated(w), NEW t \in Nat
  PROVE  Instant(w, 0) >= t <=> w >= Wall(t)
<1>1. CASE w < Forward
  <2>1. Instant(w, 0) = w
    BY <1>1, Clocks DEF Instant, Skipped, Repeated
  <2> QED BY <1>1, <2>1, Clocks DEF Wall, Summer
<1>2. CASE Forward + Shift <= w /\ w < Back
  <2>1. Instant(w, 0) = w - Shift
    BY <1>2, Clocks DEF Instant, Skipped, Repeated
  <2> QED BY <1>2, <2>1, Clocks DEF Wall, Summer
<1>3. CASE Back + Shift <= w
  <2>1. Instant(w, 0) = w
    BY <1>3, Clocks DEF Instant, Skipped, Repeated
  <2> QED BY <1>3, <2>1, Clocks DEF Wall, Summer
<1> QED BY <1>1, <1>2, <1>3, Clocks DEF Skipped, Repeated

\* The day of a wall time is that of the instant it is resolved to.
LEMMA SameDay ==
  ASSUME NEW w \in Nat
  PROVE  Wall(Instant(w, 0)) \div DayLength = w \div DayLength
<1>1. CASE ~Skipped(w)
  BY <1>1, WallOfInstant
<1>2. CASE Skipped(w)
  <2> DEFINE f == Forward % DayLength
             q == Forward \div DayLength
  <2>1. /\ f \in 0..(DayLength - 1) /\ q \in Nat /\ Forward = DayLength * q + f
        /\ f + 2 * Shift <= DayLength
    BY Clocks, Divided, ScheduleAssumption
  <2> HIDE DEF f, q
  <2>2. PICK x \in Nat : w = Forward + x /\ x < Shift
    <3>1. w - Forward \in Nat /\ w = Forward + (w - Forward) /\ w - Forward < Shift
      BY <1>2, Clocks DEF Skipped
    <3> QED BY <3>1
  <2> PICK a, b : a = f + x /\ b = f + x + Shift
    OBVIOUS
  <2>3. a \in 0..(DayLength - 1) /\ b \in 0..(DayLength - 1)
    BY <2>1, <2>2, Clocks
  <2>4. w = DayLength * q + a /\ w + Shift = DayLength * q + b
    BY <2>1, <2>2, Clocks
  <2>5. w \div DayLength = q
    BY <2>1, <2>3, <2>4, Clocks, Quotient
  <2>6. (w + Shift) \div DayLength = q
    BY <2>1, <2>3, <2>4, Clocks, Quotient
  <2> QED BY <1>2, <2>5, <2>6, WallOfInstant
<1> QED BY <1>1, <1>2

\* d days later.
LEMMA DaysLater ==
  ASSUME NEW w \in Nat, NEW d \in Nat
  PROVE  (w + d * DayLength) \div DayLength = (w \div DayLength) + d
<1>1. PICK n \in Nat \ {0} : n = DayLength
  BY Clocks
<1>2. PICK q \in Nat, r \in 0..(n - 1) : q = w \div n /\ w = n * q + r
  BY Divided
<1>3. PICK p \in Nat : p = q + d
  OBVIOUS
<1>4. PICK y : y = w + d * n
  OBVIOUS
<1>5. n * p = n * q + n * d
  BY <1>3
<1>6. y = n * p + r
  <2>1. n * q \in Nat /\ n * d \in Nat /\ n * d = d * n
    OBVIOUS
  <2> QED BY <1>2, <1>4, <1>5, <2>1
<1>7. y \div n = p
  BY <1>6, Quotient
<1> QED BY <1>1, <1>2, <1>3, <1>4, <1>7

Hour(d) == d * DayLength + hour

HourOK == hour \in 0..(DayLength - 1)

LEMMA HourOf ==
  ASSUME HourOK, NEW d \in Nat
  PROVE  /\ Hour(d) \in Nat /\ Published(d) = Instant(Hour(d), 0)
         /\ Published(d) \in Nat /\ Hour(d) <= Published(d) + Shift /\ Published(d) <= Hour(d)
         /\ d * DayLength \in Nat
         /\ Hour(d) >= d * DayLength /\ Hour(d) < d * DayLength + DayLength
         /\ Hour(d) \div DayLength = d
<1>1. d * DayLength \in Nat /\ hour \in Nat
  BY Clocks DEF HourOK
<1>2. Hour(d) \in Nat
  BY <1>1 DEF Hour
<1>3. Published(d) = Instant(Hour(d), 0)
  BY DEF Published, Hour
<1>4. Hour(d) >= d * DayLength /\ Hour(d) < d * DayLength + DayLength
  BY <1>1, Clocks DEF Hour, HourOK
<1>5. Hour(d) \div DayLength = d
  <2>1. Hour(d) = DayLength * d + hour
    BY <1>1, Clocks DEF Hour
  <2> QED BY <2>1, Clocks, Quotient DEF HourOK
<1> QED BY <1>1, <1>2, <1>3, <1>4, <1>5, WallOfInstant

LEMMA HoursApart ==
  ASSUME HourOK, NEW d \in Nat, NEW e \in Nat, d < e
  PROVE  Hour(d) + DayLength <= Hour(e) /\ Published(d) < Published(e)
<1>1. PICK x \in Nat : e = d + 1 + x
  <2>1. e - d - 1 \in Nat /\ e = d + 1 + (e - d - 1)
    OBVIOUS
  <2> QED BY <2>1
<1>2. /\ e * DayLength = d * DayLength + DayLength + x * DayLength
      /\ x * DayLength \in Nat /\ d * DayLength \in Nat /\ hour \in Nat
  BY <1>1, Clocks DEF HourOK
<1>3. Hour(d) + DayLength <= Hour(e)
  BY <1>2, Clocks DEF Hour
<1> QED BY <1>3, HourOf, Clocks

\* The publication hour of a day that has come lies in the days of the model.
LEMMA DaysOfModel ==
  ASSUME HourOK, NEW d \in Nat, NEW t \in Nat, t <= Horizon * DayLength,
         Hour(d) <= Wall(t) \/ Published(d) <= t
  PROVE  d <= Horizon
<1>1. SUFFICES ASSUME Horizon < d PROVE FALSE
  BY Clocks
<1>2. Hour(Horizon) + DayLength <= Hour(d) /\ Hour(Horizon) >= Horizon * DayLength
      /\ Hour(Horizon) \in Nat /\ Horizon * DayLength \in Nat
  BY <1>1, HoursApart, HourOf, Clocks
<1>3. Wall(t) <= t + Shift
  BY Clocks DEF Wall
<1>4. Hour(d) <= Published(d) + Shift /\ Published(d) \in Nat /\ Hour(d) \in Nat
  BY HourOf
<1>5. Hour(d) <= t + Shift
  <2>1. Wall(t) \in Nat
    BY Clocks DEF Wall
  <2> QED BY <1>3, <1>4, <2>1, Clocks
<1> QED BY <1>2, <1>4, <1>5, Clocks

-----------------------------------------------------------------------------
(* Schedule: the first slot.                                               *)

LEMMA FirstSlot ==
  ASSUME HourOK, NEW t \in Nat, t <= Horizon * DayLength
  PROVE  \E d \in 0..(2 * Horizon) :
           /\ FirstSlotAtOrAfter(t) = Published(d)
           /\ Hour(d) >= Wall(t)
           /\ \A e \in Nat : e < d => Hour(e) < Wall(t)
<1>1. PICK w \in Nat : w = Wall(t)
  BY Clocks DEF Wall
<1>2. PICK q \in Nat, r \in 0..(DayLength - 1) : q = w \div DayLength /\ w = DayLength * q + r
  BY Clocks, Divided
<1>3. q * DayLength \in Nat /\ w >= q * DayLength /\ w < q * DayLength + DayLength
  BY <1>2, Clocks
<1>4. FirstSlotAtOrAfter(t) =
        Instant(IF Hour(q) < w THEN Hour(q) + DayLength ELSE Hour(q), 0)
  BY <1>1, <1>2 DEF FirstSlotAtOrAfter, Hour
<1>5. q <= Horizon
  <2>1. SUFFICES ASSUME Horizon < q PROVE FALSE
    BY Clocks
  <2>2. PICK x \in Nat : q = Horizon + 1 + x
    <3>1. q - Horizon - 1 \in Nat /\ q = Horizon + 1 + (q - Horizon - 1)
      BY <2>1, Clocks
    <3> QED BY <3>1
  <2>3. /\ q * DayLength = Horizon * DayLength + DayLength + x * DayLength
        /\ x * DayLength \in Nat /\ Horizon * DayLength \in Nat
    BY <2>2, Clocks
  <2>4. w <= t + Shift
    BY <1>1, Clocks DEF Wall
  <2> QED BY <1>3, <2>3, <2>4, Clocks
<1>6. q \in 0..(2 * Horizon) /\ q + 1 \in 0..(2 * Horizon) /\ q + 1 \in Nat
  BY <1>5, Clocks
<1>7. CASE Hour(q) < w
  <2>1. Hour(q + 1) = Hour(q) + DayLength
    <3>1. (q + 1) * DayLength = q * DayLength + DayLength
      BY Clocks
    <3> QED BY <1>3, <3>1, Clocks DEF Hour, HourOK
  <2>2. FirstSlotAtOrAfter(t) = Published(q + 1)
    BY <1>4, <1>6, <1>7, <2>1, HourOf
  <2>3. Hour(q + 1) >= w
    BY <1>3, <2>1, HourOf, Clocks
  <2>4. \A e \in Nat : e < q + 1 => Hour(e) < w
    <3> TAKE e \in Nat
    <3>1. e < q + 1 => e = q \/ e < q
      OBVIOUS
    <3>2. e < q => Hour(e) < Hour(q)
      BY HoursApart, HourOf, Clocks
    <3> QED BY <1>7, <3>1, <3>2, HourOf
  <2> QED BY <1>1, <1>6, <2>2, <2>3, <2>4
<1>8. CASE ~(Hour(q) < w)
  <2>1. FirstSlotAtOrAfter(t) = Published(q)
    BY <1>4, <1>8, HourOf
  <2>2. Hour(q) >= w
    BY <1>8, HourOf
  <2>3. \A e \in Nat : e < q => Hour(e) < w
    <3> TAKE e \in Nat
    <3> HAVE e < q
    <3>1. Hour(e) + DayLength <= Hour(q) /\ Hour(q) < q * DayLength + DayLength
      BY HoursApart, HourOf
    <3> QED BY <1>3, <3>1, HourOf, Clocks
  <2> QED BY <1>1, <1>6, <2>1, <2>2, <2>3
<1> QED BY <1>7, <1>8

\* On regular days it is the first publication hour that has not passed.
LEMMA FirstIsFirst ==
  ASSUME HourOK, NEW t \in Nat, t <= Horizon * DayLength, Regular,
         NEW d \in 0..(2 * Horizon), FirstSlotAtOrAfter(t) = Published(d),
         Hour(d) >= Wall(t), \A e \in Nat : e < d => Hour(e) < Wall(t)
  PROVE  Published(d) = Min({Published(e) : e \in {e \in 0..(2 * Horizon) : Published(e) >= t}})
<1> DEFINE P == {Published(e) : e \in {e \in 0..(2 * Horizon) : Published(e) >= t}}
<1>1. \A e \in 0..(2 * Horizon) : /\ e \in Nat
                                  /\ Published(e) >= t <=> Hour(e) >= Wall(t)
  <2> TAKE e \in 0..(2 * Horizon)
  <2>1. e \in Nat /\ ~Skipped(Hour(e)) /\ ~Repeated(Hour(e))
    BY Clocks DEF Regular, Hour
  <2> QED BY <2>1, HourOf, NotPassed
<1>2. Published(d) \in P
  BY <1>1
<1>3. \A y \in P : Published(d) <= y
  <2> SUFFICES ASSUME NEW e \in 0..(2 * Horizon), Published(e) >= t
               PROVE  Published(d) <= Published(e)
    OBVIOUS
  <2>1. ~(e < d)
    <3>1. Hour(e) >= Wall(t) /\ e \in Nat
      BY <1>1
    <3>2. Wall(t) \in Nat /\ Hour(e) \in Nat
      BY <3>1, HourOf, Clocks DEF Wall
    <3> QED BY <3>1, <3>2
  <2>2. d \in Nat /\ e \in Nat /\ (d = e \/ d < e)
    BY <1>1, <2>1
  <2>3. d < e => Published(d) < Published(e)
    BY <2>2, HoursApart
  <2>4. Published(d) \in Nat /\ Published(e) \in Nat
    BY <2>2, HourOf
  <2> QED BY <2>2, <2>3, <2>4
<1>4. P \subseteq Nat
  BY <1>1, HourOf
<1> HIDE DEF P
<1>5. ASSUME NEW x \in P, \A y \in P : x <= y
      PROVE  x = Published(d)
  <2>1. x <= Published(d)
    BY <1>2, <1>5
  <2>2. Published(d) <= x
    BY <1>3
  <2>3. x \in Nat /\ Published(d) \in Nat
    BY <1>2, <1>4
  <2> QED BY <2>1, <2>2, <2>3
<1>6. Min(P) = Published(d)
  BY <1>2, <1>3, <1>5 DEF Min
<1> QED BY <1>6 DEF P

-----------------------------------------------------------------------------
(* Schedule: the slots that are due.                                       *)

\* s begins with next and goes on from slot to slot, at most n times, as long as the
\* next one is due.
Chain(s, next, n) ==
  /\ s \in Seq(Nat) /\ s # << >> /\ Len(s) <= n + 1 /\ s[1] = next
  /\ \A i \in DOMAIN s : s[i] <= now
  /\ \A i \in DOMAIN s : i + 1 \in DOMAIN s => s[i + 1] = NextSlot(s[i])
  /\ Len(s) < n + 1 => NextSlot(s[Len(s)]) > now

LEMMA NextSlotType ==
  ASSUME NEW s \in Nat
  PROVE  NextSlot(s) \in Nat
<1>1. PICK w : w = Wall(s) + Cadence * DayLength
  OBVIOUS
<1>2. w \in Nat /\ w >= Shift
  <2>1. Wall(s) \in Nat
    BY Clocks DEF Wall
  <2>2. Cadence * DayLength >= DayLength /\ Cadence * DayLength \in Nat
    BY Clocks
  <2> QED BY <1>1, <2>1, <2>2, Clocks
<1>3. Instant(w, Fold(s)) \in {w, w - Shift}
  <2>1. PICK f \in {0, 1} : f = Fold(s)
    BY DEF Fold
  <2>2. Skipped(w) => ~Repeated(w) /\ ~(Forward + Shift <= w /\ w < Back)
    BY <1>2, Clocks DEF Skipped, Repeated
  <2>3. Repeated(w) => ~Skipped(w) /\ ~(Forward + Shift <= w /\ w < Back)
    BY <1>2, Clocks DEF Skipped, Repeated
  <2> QED BY <2>1, <2>2, <2>3 DEF Instant
<1> QED BY <1>1, <1>2, <1>3, Clocks DEF NextSlot

\* One more step of due_slots.
LEMMA ChainGrows ==
  ASSUME NEW next \in Nat, NEW n \in Nat \ {0}, NEW s, Chain(s, next, n - 1), now \in Nat,
         NEW u, u = IF NextSlot(s[Len(s)]) <= now /\ Len(s) = n
                    THEN Append(s, NextSlot(s[Len(s)])) ELSE s
  PROVE  Chain(u, next, n)
<1>1. PICK k \in Nat \ {0} : k = Len(s) /\ DOMAIN s = 1..k
  <2>1. s \in Seq(Nat) /\ s # << >>
    BY DEF Chain
  <2> QED BY <2>1
<1>2. PICK c \in Nat : c = NextSlot(s[k])
  <2>1. s[k] \in Nat
    BY <1>1 DEF Chain
  <2> QED BY <2>1, NextSlotType
<1>3. k <= n
  BY <1>1 DEF Chain
<1>4. CASE c <= now /\ k = n
  <2>1. u = Append(s, c) /\ s \in Seq(Nat)
    BY <1>1, <1>2, <1>4 DEF Chain
  <2>2. /\ u \in Seq(Nat) /\ u # << >> /\ Len(u) = k + 1 /\ DOMAIN u = 1..(k + 1)
        /\ u[k + 1] = c /\ \A i \in 1..k : u[i] = s[i]
    BY <1>1, <2>1
  <2>3. u[1] = next /\ Len(u) <= n + 1 /\ ~(Len(u) < n + 1)
    BY <1>1, <1>4, <2>2 DEF Chain
  <2>4. \A i \in DOMAIN u : u[i] <= now
    <3> TAKE i \in DOMAIN u
    <3>1. i = k + 1 \/ i \in 1..k
      BY <2>2
    <3> QED BY <1>1, <1>4, <2>2, <3>1 DEF Chain
  <2>5. \A i \in DOMAIN u : i + 1 \in DOMAIN u => u[i + 1] = NextSlot(u[i])
    <3> TAKE i \in DOMAIN u
    <3> HAVE i + 1 \in DOMAIN u
    <3>1. i \in 1..k /\ (i = k \/ i + 1 \in 1..k)
      BY <2>2
    <3>2. CASE i = k
      BY <1>2, <2>2, <3>1, <3>2
    <3>3. CASE i + 1 \in 1..k
      <4>1. s[i + 1] = NextSlot(s[i])
        BY <1>1, <3>1, <3>3 DEF Chain
      <4> QED BY <2>2, <3>1, <3>3, <4>1
    <3> QED BY <3>1, <3>2, <3>3
  <2> QED BY <2>2, <2>3, <2>4, <2>5 DEF Chain
<1>5. CASE ~(c <= now /\ k = n)
  <2>1. u = s
    BY <1>1, <1>2, <1>5
  <2>2. Len(s) <= n + 1
    BY <1>1, <1>3
  <2>3. NextSlot(s[Len(s)]) > now
    <3>1. CASE k = n
      BY <1>1, <1>2, <1>5, <3>1
    <3>2. CASE k # n
      <4>1. Len(s) < (n - 1) + 1
        BY <1>1, <1>3, <3>2
      <4> QED BY <4>1 DEF Chain
    <3> QED BY <3>1, <3>2
  <2> QED BY <2>1, <2>2, <2>3 DEF Chain
<1> QED BY <1>4, <1>5

LEMMA Chained ==
  ASSUME NEW next \in Nat, now \in Nat, next <= now
  PROVE  Chain(DueSlots(next), next, Horizon)
<1> DEFINE X == Seq(Nat) \ {<< >>}
           Step(n, before) == IF NextSlot(before[Len(before)]) <= now /\ Len(before) = n
                              THEN Append(before, NextSlot(before[Len(before)])) ELSE before
           F == [n \in Nat |-> [before \in X |-> Step(n, before)]]
           Due(g) == g = [n \in Nat |-> IF n = 0 THEN <<next>> ELSE Step(n, g[n - 1])]
           due == CHOOSE g : Due(g)
           N == {n \in Nat : ~Chain(due[n], next, n)}
<1>1. \A n \in Nat : \A before \in X : Step(n, before) \in X
  <2> TAKE n \in Nat
  <2> TAKE before \in X
  <2>1. before \in Seq(Nat) /\ Len(before) \in DOMAIN before
    OBVIOUS
  <2>2. NextSlot(before[Len(before)]) \in Nat
    BY <2>1, NextSlotType
  <2>3. PICK c \in Nat : c = NextSlot(before[Len(before)])
    BY <2>2
  <2>4. Append(before, c) \in X
    OBVIOUS
  <2> QED BY <2>3, <2>4
<1>2. <<next>> \in X
  OBVIOUS
<1> HIDE DEF X
<1>3. \E g : Due(g)
  <2>1. F \in [Nat -> [X -> X]]
    <3> HIDE DEF Step
    <3> QED BY <1>1
  <2>2. \A n \in Nat : \A before \in X : F[n][before] = Step(n, before)
    <3> HIDE DEF Step
    <3> QED OBVIOUS
  <2> HIDE DEF F, Step
  <2>3. PICK g : /\ g \in [Nat -> X]
                 /\ g[0] = <<next>>
                 /\ \A n \in Nat \ {0} : g[n] = F[n][g[n - 1]]
    <3>1. F \in StepFunctions(X)
      BY <2>1 DEF StepFunctions
    <3>2. \E g : Goes(g, F, X, <<next>>)
      BY <1>2, <3>1, Recursion
    <3> QED BY <3>2 DEF Goes
  <2>4. \A n \in Nat : g[n] = IF n = 0 THEN <<next>> ELSE Step(n, g[n - 1])
    <3> TAKE n \in Nat
    <3>1. CASE n = 0
      BY <2>3, <3>1
    <3>2. CASE n # 0
      <4>1. n \in Nat \ {0} /\ n - 1 \in Nat
        BY <3>2
      <4>2. g[n - 1] \in X
        BY <2>3, <4>1
      <4> QED BY <2>2, <2>3, <3>2, <4>1, <4>2
    <3> QED BY <3>1, <3>2
  <2>5. g = [n \in Nat |-> g[n]]
    BY <2>3
  <2> QED BY <2>4, <2>5
<1>4. DueSlots(next) = due[Horizon]
  BY Clocks DEF DueSlots
<1>5. Due(due)
  <2> HIDE DEF Due
  <2> QED BY <1>3
<1> HIDE DEF due
<1>6. due[0] = <<next>> /\ \A n \in Nat \ {0} : due[n] = Step(n, due[n - 1])
  <2> HIDE DEF Step
  <2>1. \A n \in Nat : due[n] = IF n = 0 THEN <<next>> ELSE Step(n, due[n - 1])
    BY <1>5
  <2> QED BY <2>1
<1>7. N = {}
  <2>1. SUFFICES ASSUME N # {} PROVE FALSE
    OBVIOUS
  <2>2. PICK n \in N : \A m \in N : n <= m
    <3>1. N \in SUBSET Nat
      OBVIOUS
    <3> HIDE DEF N
    <3> QED BY <2>1, <3>1, LeastNumber
  <2>3. n \in Nat /\ ~Chain(due[n], next, n)
    OBVIOUS
  <2>4. CASE n = 0
    <3>1. PICK s : s = <<next>>
      OBVIOUS
    <3>2. s \in Seq(Nat) /\ s # << >> /\ Len(s) = 1 /\ DOMAIN s = {1} /\ s[1] = next
      BY <3>1
    <3>3. Chain(s, next, 0)
      BY <3>2 DEF Chain
    <3> QED BY <1>6, <2>3, <2>4, <3>1, <3>3
  <2>5. CASE n # 0
    <3>1. n \in Nat \ {0} /\ n - 1 \in Nat /\ ~(n <= n - 1)
      BY <2>3, <2>5
    <3>2. Chain(due[n - 1], next, n - 1)
      <4>1. n - 1 \notin N
        <5> HIDE DEF N
        <5> QED BY <2>2, <3>1
      <4> QED BY <3>1, <4>1
    <3>3. due[n] = Step(n, due[n - 1])
      BY <1>6, <3>1
    <3>4. Chain(due[n], next, n)
      BY <3>1, <3>2, <3>3, ChainGrows
    <3> QED BY <2>3, <3>4
  <2> QED BY <2>4, <2>5
<1>8. Chain(due[Horizon], next, Horizon)
  <2>1. Horizon \in Nat /\ Horizon \notin N
    BY <1>7, Clocks
  <2> QED BY <2>1
<1> QED BY <1>4, <1>8

\* A slot goes to one Cadence days later, on the clock's wall.
LEMMA NextOf ==
  ASSUME NEW w \in Nat
  PROVE  \E v \in Nat : /\ NextSlot(Instant(w, 0)) = Instant(v, 0)
                        /\ v = Wall(Instant(w, 0)) + Cadence * DayLength
                        /\ v \div DayLength = (w \div DayLength) + Cadence
<1>1. PICK x \in Nat : x = Wall(Instant(w, 0)) /\ Fold(Instant(w, 0)) = 0
  BY WallOfInstant
<1>2. PICK v : v = x + Cadence * DayLength
  OBVIOUS
<1>3. v \in Nat
  BY <1>2, Clocks
<1>4. v \div DayLength = (x \div DayLength) + Cadence
  BY <1>2, DaysLater, Clocks
<1>5. x \div DayLength = w \div DayLength
  BY <1>1, SameDay
<1>6. NextSlot(Instant(w, 0)) = Instant(v, 0)
  BY <1>1, <1>2 DEF NextSlot
<1> QED BY <1>1, <1>2, <1>3, <1>4, <1>5, <1>6

\* The publication hour of a day goes to that of Cadence days later, unless it is skipped.
LEMMA NextPublished ==
  ASSUME HourOK, NEW d \in Nat, ~Skipped(Hour(d))
  PROVE  NextSlot(Published(d)) = Published(d + Cadence)
<1>1. Hour(d) \in Nat /\ Published(d) = Instant(Hour(d), 0)
  BY HourOf
<1>2. Wall(Published(d)) = Hour(d) /\ Fold(Published(d)) = 0
  BY <1>1, WallOfInstant
<1>3. Hour(d) + Cadence * DayLength = Hour(d + Cadence)
  <2>1. (d + Cadence) * DayLength = d * DayLength + Cadence * DayLength
    BY Clocks
  <2>2. d * DayLength \in Nat /\ Cadence * DayLength \in Nat /\ hour \in Nat
    BY Clocks DEF HourOK
  <2> QED BY <2>1, <2>2 DEF Hour
<1>4. d + Cadence \in Nat
  BY Clocks
<1> QED BY <1>2, <1>3, <1>4, HourOf DEF NextSlot

\* The i-th slot due lies i - 1 cadences after the first one's day.
LEMMA DaysDue ==
  ASSUME HourOK, NEW d \in Nat, NEW s, Chain(s, Published(d), Horizon), NEW i \in DOMAIN s
  PROVE  Wall(s[i]) \div DayLength = d + (i - 1) * Cadence
<1> DEFINE Right(k) == \E w \in Nat : /\ s[k] = Instant(w, 0)
                                      /\ w \div DayLength = d + (k - 1) * Cadence
           N == {k \in DOMAIN s : ~Right(k)}
<1>1. PICK n \in Nat : DOMAIN s = 1..n
  BY DEF Chain
<1>2. N = {}
  <2>1. SUFFICES ASSUME N # {} PROVE FALSE
    OBVIOUS
  <2>2. PICK k \in N : \A m \in N : k <= m
    <3>1. N \in SUBSET Nat
      BY <1>1
    <3> HIDE DEF N
    <3> QED BY <2>1, <3>1, LeastNumber
  <2>3. k \in 1..n /\ k \in DOMAIN s /\ ~Right(k)
    BY <1>1
  <2>4. CASE k = 1
    <3>1. s[k] = Instant(Hour(d), 0) /\ Hour(d) \in Nat /\ Hour(d) \div DayLength = d
      BY <2>4, HourOf DEF Chain
    <3>2. d + (k - 1) * Cadence = d
      BY <2>4, Clocks
    <3> QED BY <2>3, <3>1, <3>2
  <2>5. CASE k # 1
    <3>1. k - 1 \in DOMAIN s /\ (k - 1) + 1 = k /\ ~(k <= k - 1)
      BY <1>1, <2>3, <2>5
    <3>2. Right(k - 1)
      <4>1. k - 1 \notin N
        <5> HIDE DEF N
        <5> QED BY <2>2, <3>1
      <4> QED BY <3>1, <4>1
    <3>3. PICK w \in Nat : /\ s[k - 1] = Instant(w, 0)
                           /\ w \div DayLength = d + ((k - 1) - 1) * Cadence
      BY <3>2
    <3>4. s[k] = NextSlot(s[k - 1])
      BY <2>3, <3>1 DEF Chain
    <3>5. PICK v \in Nat : /\ s[k] = Instant(v, 0)
                           /\ v \div DayLength = (w \div DayLength) + Cadence
      BY <3>3, <3>4, NextOf
    <3>6. (d + ((k - 1) - 1) * Cadence) + Cadence = d + (k - 1) * Cadence
      <4>1. PICK c \in Nat : c = Cadence
        BY Clocks
      <4>2. PICK y \in Int : y = k - 1
        BY <2>3
      <4>3. (y - 1) * c = y * c - c
        OBVIOUS
      <4>4. y * c \in Int
        OBVIOUS
      <4> QED BY <4>1, <4>2, <4>3, <4>4
    <3>7. Right(k)
      BY <3>3, <3>5, <3>6
    <3> QED BY <2>3, <3>7
  <2> QED BY <2>4, <2>5
<1>3. Right(i)
  BY <1>2
<1>4. PICK w \in Nat : s[i] = Instant(w, 0) /\ w \div DayLength = d + (i - 1) * Cadence
  BY <1>3
<1> QED BY <1>4, SameDay

\* On regular days it is the publication hour of that day.
LEMMA PublishedDue ==
  ASSUME HourOK, now \in Nat, now <= Horizon * DayLength, Regular,
         NEW d \in Nat, NEW s, Chain(s, Published(d), Horizon), NEW i \in DOMAIN s
  PROVE  /\ s[i] = Published(d + (i - 1) * Cadence)
         /\ d + (i - 1) * Cadence \in Nat
         /\ NextSlot(s[i]) = Published(d + i * Cadence)
<1> DEFINE Day(k) == d + (k - 1) * Cadence
           N == {k \in DOMAIN s : s[k] # Published(Day(k))}
<1>1. PICK n \in Nat : DOMAIN s = 1..n
  BY DEF Chain
<1>2. \A k \in 1..n : Day(k) \in Nat
  BY Clocks
<1>3. \A k \in 1..n : Day(k) + Cadence = d + k * Cadence
  <2> TAKE k \in 1..n
  <2>1. PICK c \in Nat : c = Cadence
    BY Clocks
  <2>2. (k - 1) * c = k * c - c /\ k * c \in Nat
    OBVIOUS
  <2> QED BY <2>1, <2>2
<1>4. ASSUME NEW k \in DOMAIN s, s[k] = Published(Day(k))
      PROVE  NextSlot(s[k]) = Published(Day(k) + Cadence)
  <2>1. Day(k) \in Nat
    BY <1>1, <1>2
  <2>2. PICK e \in Nat : e = Day(k)
    BY <2>1
  <2>3. Published(e) <= now
    BY <1>4, <2>2 DEF Chain
  <2>4. e <= Horizon
    BY <2>3, DaysOfModel
  <2>5. e \in 0..(2 * Horizon)
    BY <2>4, Clocks
  <2>6. ~Skipped(Hour(e))
    BY <2>5 DEF Regular, Hour
  <2>7. NextSlot(Published(e)) = Published(e + Cadence)
    BY <2>6, NextPublished
  <2> QED BY <1>4, <2>2, <2>7
<1>5. N = {}
  <2>1. SUFFICES ASSUME N # {} PROVE FALSE
    OBVIOUS
  <2>2. PICK k \in N : \A m \in N : k <= m
    <3>1. N \in SUBSET Nat
      BY <1>1
    <3> HIDE DEF N
    <3> QED BY <2>1, <3>1, LeastNumber
  <2>3. k \in 1..n /\ k \in DOMAIN s /\ s[k] # Published(Day(k))
    BY <1>1
  <2>4. CASE k = 1
    <3>1. Day(k) = d
      BY <2>4, Clocks
    <3> QED BY <2>3, <2>4, <3>1 DEF Chain
  <2>5. CASE k # 1
    <3>1. k - 1 \in 1..n /\ k - 1 \in DOMAIN s /\ (k - 1) + 1 = k /\ ~(k <= k - 1)
      BY <1>1, <2>3, <2>5
    <3>2. s[k - 1] = Published(Day(k - 1))
      <4>1. k - 1 \notin N
        <5> HIDE DEF N
        <5> QED BY <2>2, <3>1
      <4> QED BY <3>1, <4>1
    <3>3. s[k] = NextSlot(s[k - 1])
      BY <2>3, <3>1 DEF Chain
    <3>4. NextSlot(s[k - 1]) = Published(Day(k - 1) + Cadence)
      <4> HIDE DEF Day
      <4> QED BY <1>4, <3>1, <3>2
    <3>5. Day(k - 1) + Cadence = Day(k)
      BY <1>3, <3>1
    <3> QED BY <2>3, <3>3, <3>4, <3>5
  <2> QED BY <2>4, <2>5
<1>6. i \in 1..n /\ s[i] = Published(Day(i))
  BY <1>1, <1>5
<1>7. NextSlot(s[i]) = Published(Day(i) + Cadence)
  <2> HIDE DEF Day
  <2> QED BY <1>4, <1>6
<1> QED BY <1>2, <1>3, <1>6, <1>7

\* As many are due as there are days in steps of Cadence whose hour has come.
LEMMA CountDue ==
  ASSUME HourOK, now \in Nat, now <= Horizon * DayLength, Regular,
         NEW d \in Nat, NEW s, Chain(s, Published(d), Horizon)
  PROVE  Len(s) = Cardinality({i \in 0..Horizon : Published(d + i * Cadence) <= now})
<1> DEFINE P == {i \in 0..Horizon : Published(d + i * Cadence) <= now}
<1>1. PICK n \in Nat \ {0} : n = Len(s) /\ DOMAIN s = 1..n /\ n <= Horizon + 1
  <2>1. s \in Seq(Nat) /\ s # << >> /\ Len(s) <= Horizon + 1
    BY DEF Chain
  <2> QED BY <2>1
<1>2. ASSUME NEW i \in 0..(n - 1)
      PROVE  i \in P
  <2>1. i + 1 \in DOMAIN s /\ (i + 1) - 1 = i /\ i \in 0..Horizon
    BY <1>1, Clocks
  <2>2. s[i + 1] = Published(d + i * Cadence)
    BY <2>1, PublishedDue
  <2>3. s[i + 1] <= now
    BY <2>1 DEF Chain
  <2> QED BY <2>1, <2>2, <2>3
<1>3. ASSUME NEW i \in P
      PROVE  i \in 0..(n - 1)
  <2>1. SUFFICES ASSUME ~(i < n) PROVE FALSE
    BY <1>1
  <2>2. i \in 0..Horizon /\ i \in Nat /\ n <= i /\ n < Horizon + 1
    BY <1>1, <2>1, Clocks
  <2>3. NextSlot(s[n]) > now /\ n \in DOMAIN s
    BY <1>1, <2>2 DEF Chain
  <2>4. NextSlot(s[n]) = Published(d + n * Cadence)
    BY <2>3, PublishedDue
  <2>5. PICK c \in Nat : c = Cadence
    BY Clocks
  <2>6. PICK x \in Nat : i = n + x
    <3>1. i - n \in Nat /\ i = n + (i - n)
      BY <2>2
    <3> QED BY <3>1
  <2>7. i * c = n * c + x * c /\ n * c \in Nat /\ x * c \in Nat /\ i * c \in Nat
    BY <2>2, <2>6
  <2>8. PICK a \in Nat, b \in Nat : a = d + n * c /\ b = d + i * c /\ a <= b
    BY <2>7
  <2>9. Published(a) \in Nat /\ Published(b) \in Nat /\ Published(a) <= Published(b)
    <3>1. a = b \/ a < b
      BY <2>8
    <3>2. a < b => Published(a) < Published(b)
      BY HoursApart
    <3>3. Published(a) \in Nat /\ Published(b) \in Nat
      BY HourOf
    <3> QED BY <3>1, <3>2, <3>3
  <2>10. Published(b) <= now /\ Published(a) > now
    BY <2>3, <2>4, <2>5, <2>8
  <2> QED BY <2>9, <2>10
<1>4. P = 0..(n - 1)
  <2> HIDE DEF P
  <2> QED BY <1>2, <1>3
<1>5. Cardinality(0..(n - 1)) = n
  <2>1. PICK m \in Nat : m = n - 1
    OBVIOUS
  <2>2. Cardinality(0..m) = m + 1
    BY FS_Interval
  <2> QED BY <2>1, <2>2
<1> HIDE DEF P
<1>6. Len(s) = Cardinality(P)
  BY <1>1, <1>4, <1>5
<1> QED BY <1>6 DEF P

SlotsInv ==
  /\ HourOK
  /\ began \in Nat /\ now \in Nat
  /\ began <= now /\ now <= Horizon * DayLength

LEMMA SlotsOfInv == SlotsInv => SlotsOfCalendar
<1> SUFFICES ASSUME SlotsInv PROVE SlotsOfCalendar
  OBVIOUS
<1>1. HourOK /\ now \in Nat /\ now <= Horizon * DayLength /\ began \in Nat
  BY DEF SlotsInv
<1>2. began <= Horizon * DayLength
  <2>1. Horizon * DayLength \in Nat
    BY Clocks
  <2> QED BY <2>1 DEF SlotsInv
<1>3. PICK d \in 0..(2 * Horizon) :
        /\ FirstSlotAtOrAfter(began) = Published(d)
        /\ Hour(d) >= Wall(began)
        /\ \A e \in Nat : e < d => Hour(e) < Wall(began)
  BY <1>1, <1>2, FirstSlot
<1>4. d \in Nat
  BY Clocks
<1>5. /\ Published(d) \in Nat /\ Published(d) = Instant(Hour(d), 0)
      /\ Hour(d) \in Nat /\ Hour(d) \div DayLength = d
  BY <1>1, <1>4, HourOf
<1>6. Wall(Published(d)) \div DayLength = d
  BY <1>5, SameDay
<1>7. PICK due : due = DueSlots(Published(d))
  OBVIOUS
<1>8. Published(d) <= now => Chain(due, Published(d), Horizon)
  BY <1>1, <1>5, <1>7, Chained
<1>9. ~(Published(d) <= now) => due = << >>
  <2>1. ~(Published(d) <= now) => now < Published(d)
    BY <1>1, <1>5
  <2> QED BY <1>7, <2>1 DEF DueSlots
<1>10. ASSUME NEW i \in DOMAIN due
       PROVE  Wall(due[i]) \div DayLength = d + (i - 1) * Cadence
  <2>1. Published(d) <= now
    BY <1>9, <1>10
  <2> QED BY <1>1, <1>4, <1>8, <2>1, DaysDue
<1>11. ASSUME Regular
       PROVE  Published(d) = Min({Published(e) : e \in {e \in 0..(2 * Horizon) :
                                                          Published(e) >= began}})
  BY <1>1, <1>2, <1>3, <1>11, FirstIsFirst
<1>12. ASSUME Regular, NEW i \in DOMAIN due
       PROVE  due[i] = Published(d + (i - 1) * Cadence)
  <2>1. Published(d) <= now
    BY <1>9, <1>12
  <2> QED BY <1>1, <1>4, <1>8, <1>12, <2>1, PublishedDue
<1>13. ASSUME Regular
       PROVE  Len(due) = Cardinality({i \in 0..Horizon : Published(d + i * Cadence) <= now})
  <2>1. CASE Published(d) <= now
    BY <1>1, <1>4, <1>8, <1>13, <2>1, CountDue
  <2>2. CASE ~(Published(d) <= now)
    <3>1. \A i \in 0..Horizon : ~(Published(d + i * Cadence) <= now)
      <4> TAKE i \in 0..Horizon
      <4>1. PICK e \in Nat : e = d + i * Cadence /\ (d = e \/ d < e)
        <5>1. i * Cadence \in Nat
          BY Clocks
        <5> QED BY <1>4, <5>1
      <4>2. Published(e) >= Published(d) /\ Published(e) \in Nat
        <5>1. d < e => Published(d) < Published(e)
          BY <1>1, <1>4, HoursApart
        <5>2. Published(e) \in Nat
          BY <1>1, HourOf
        <5> QED BY <1>5, <4>1, <5>1, <5>2
      <4> QED BY <1>1, <1>5, <2>2, <4>1, <4>2
    <3>2. {i \in 0..Horizon : Published(d + i * Cadence) <= now} = {}
      BY <3>1
    <3>3. Len(due) = 0
      BY <1>9, <2>2
    <3> QED BY <3>2, <3>3, FS_EmptySet
  <2> QED BY <2>1, <2>2
<1> QED BY <1>3, <1>6, <1>7, <1>10, <1>11, <1>12, <1>13 DEF SlotsOfCalendar

\* For any length of the day, any two changes of the clock of which the first is not in
\* the last hours of a day, any publication hour and any cadence: the slots are those of
\* the calendar, across both changes (scheduling/slots.py).
THEOREM SlotsFollowCalendar == SlotsSpec => []SlotsOfCalendar
<1>1. SlotsInit => SlotsInv
  <2> SUFFICES ASSUME SlotsInit PROVE SlotsInv
    OBVIOUS
  <2>1. Horizon * DayLength \in Nat
    BY Clocks
  <2> QED BY <2>1 DEF SlotsInit, SlotsInv, HourOK
<1>2. SlotsInv /\ [TimePasses]_slotVars => SlotsInv'
  <2>1. Horizon * DayLength \in Nat
    BY Clocks
  <2> QED BY <2>1 DEF SlotsInv, TimePasses, slotVars, HourOK
<1> QED BY <1>1, <1>2, SlotsOfInv, PTL DEF SlotsSpec
=============================================================================
