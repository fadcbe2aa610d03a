------------------------------- MODULE MCDesk -------------------------------
(***************************************************************************)
(* Three small parts of the desk, one beside the other for TLC: a          *)
(* behaviour is one of the newsroom, of a palette or of a schedule, while  *)
(* the other two rest.                                                     *)
(***************************************************************************)
EXTENDS Newsroom, Palette, Schedule

CONSTANTS c1, c2, c3, c4, c5, c6, g1, o1, d1, d2

SixNames == <<c1, c2, c3, c4, c5, c6>>

VARIABLE part

NewsRests == register = << >> /\ draft = << >> /\ history = << >>
PalRests == /\ found = << >> /\ todo = << >> /\ left = TokenBudget
            /\ evidence = << >> /\ grounding = "resting"
SlotsRest == hour = 0 /\ began = 0 /\ now = 0

Init ==
  \/ part = "newsroom" /\ NewsInit /\ PalRests /\ SlotsRest
  \/ part = "palette" /\ PalInit /\ NewsRests /\ SlotsRest
  \/ part = "schedule" /\ SlotsInit /\ NewsRests /\ PalRests

Next ==
  /\ \/ part = "newsroom" /\ NewsNext /\ UNCHANGED <<palVars, slotVars>>
     \/ part = "palette" /\ PalNext /\ UNCHANGED <<newsVars, slotVars>>
     \/ part = "schedule" /\ TimePasses /\ UNCHANGED <<newsVars, palVars>>
  /\ UNCHANGED part

Spec == Init /\ [][Next]_<<newsVars, palVars, slotVars, part>>
=============================================================================
