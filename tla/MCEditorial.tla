---------------------------- MODULE MCEditorial ----------------------------
(* Instances of Editorial for TLC: three of the nine slots, one where satire *)
(* and fakes are excluded and two where they are not.                        *)
EXTENDS Editorial, TLC

CONSTANTS g1, f1, f2

ThreeSlots == <<"major-1", "minor-1", "brief">>

KindOf == "major-1" :> "major" @@ "minor-1" :> "minor" @@ "brief" :> "brief"

Policy == [k \in {"breaking", "lead", "major", "minor", "brief"} |->
             IF k \in {"minor", "brief"}
             THEN {"reported_event", "satirical_report", "intentional_fake"}
             ELSE {"reported_event"}]
=============================================================================
