------------------------------ MODULE Reading ------------------------------
(***************************************************************************)
(* From a device's reading to the features a model scores                  *)
(* (internal/processor/normalize.go, features.go).                         *)
(*                                                                         *)
(* A device fills in the fields of a reading one by one, any of them       *)
(* perhaps never, perhaps with an impossible value.  Lengths are integers  *)
(* in 1/24 of a foot (half a plate is 17), angles in degrees.  The fields  *)
(* are those the code does something to besides copying; release_pos_x is  *)
(* treated as pfx_x is.                                                    *)
(*                                                                         *)
(* Left out are the features that a field of the event is copied into: the *)
(* other measurements (spin rate, pfx_z, release height and extension, arm *)
(* angle), the pitch type and its group, and, in the outcome variant only, *)
(* the situation (count, outs, runners, inning, score, times through the   *)
(* order, pitch number).  The four differences from the fastball and the   *)
(* days since the last game are features too, which predict never fills.   *)
(***************************************************************************)
EXTENDS Integers

CONSTANTS
  ReportedAs,          \* [Field -> SUBSET Int]  what the device may report
  NoValue

Field == {"release_speed", "spin_axis", "pfx_x", "plate_x", "plate_z", "sz_top", "sz_bot"}

ASSUME ReadingAssumption ==
  /\ ReportedAs \in [Field -> SUBSET Int]
  /\ NoValue \notin Int

VARIABLES
  raw,                 \* [Field -> Int \cup {NoValue}]  events.RawMeasurement
  hands                \* session.p_throws and batter.stand

readingVars == <<raw, hands>>

Hand     == {"L", "R"}
Readings == [Field -> Int \cup {NoValue}]
Unsaid   == ""                     \* validateRaw takes a batter without a side
Hands    == [throws : Hand, stand : Hand \cup {Unsaid}]

ReadingTypeOK == raw \in Readings /\ hands \in Hands

ReadingInit ==
  /\ raw = [f \in Field |-> NoValue]
  /\ hands \in Hands

ReportField(f, v) ==
  /\ raw[f] = NoValue
  /\ raw' = [raw EXCEPT ![f] = v]
  /\ UNCHANGED hands

ReadingNext == \E f \in Field : \E v \in ReportedAs[f] : ReportField(f, v)

ReadingSpec == ReadingInit /\ [][ReadingNext]_readingVars

----------------------------------------------------------------------------
\* measurementBounds.
Bounds(f) ==
  CASE f = "release_speed" -> 40..110
    [] f = "spin_axis"     -> 0..360
    [] f = "pfx_x"         -> -72..72
    [] f = "plate_x"       -> -96..96
    [] f = "plate_z"       -> -72..192
    [] f = "sz_top"        -> 48..120
    [] f = "sz_bot"        -> 12..72

\* clampBounds: an impossible value is no value.
Clamped(r) == [f \in Field |-> IF r[f] \in Bounds(f) THEN r[f] ELSE NoValue]

PlateHalfWidth == 17

MirrorIf(isRight, v) == IF v = NoValue \/ ~isRight THEN v ELSE -v

\* A direction on the unit circle, whose sine is negated for a right-hander.
\* Mutant of SpinDirection: the axis is projected as it is.
SpinUnmirrored(axis, isRHP) == IF axis = NoValue THEN NoValue ELSE axis % 360
SpinDirection(axis, isRHP) ==
  IF axis = NoValue THEN NoValue
  ELSE IF isRHP THEN (360 - axis) % 360 ELSE axis % 360

HasZone(m) == NoValue \notin {m["plate_z"], m["sz_top"], m["sz_bot"]}
ZoneHeight(m) == m["sz_top"] - m["sz_bot"]

\* zone_height_norm as a fraction; a zone of half a foot or less is not one.
ZoneHeightNorm(m) ==
  IF HasZone(m) /\ ZoneHeight(m) > 12
  THEN [num |-> m["plate_z"] - m["sz_bot"], den |-> ZoneHeight(m)]
  ELSE NoValue

OverPlate(x) == -PlateHalfWidth <= x /\ x <= PlateHalfWidth

InZone(m) ==
  IF HasZone(m) /\ m["plate_x"] # NoValue
  THEN OverPlate(m["plate_x"]) /\ m["sz_bot"] <= m["plate_z"] /\ m["plate_z"] <= m["sz_top"]
  ELSE NoValue

Square(x) == x * x

\* dist_from_zone_center, squared, as a fraction.
CenterDistance(m) ==
  LET norm == ZoneHeightNorm(m) IN
  IF m["plate_x"] = NoValue \/ norm = NoValue THEN NoValue
  ELSE [num |-> Square(m["plate_x"] * norm.den)
                + Square(PlateHalfWidth * (2 * norm.num - norm.den)),
        den |-> Square(PlateHalfWidth * norm.den)]

\* BuildFeatures(stuff): the shape of the pitch, and both hands.
StuffFeatures(r, h) ==
  LET m == Clamped(r) IN
  [release_speed |-> m["release_speed"],
   pfx_x_arm     |-> MirrorIf(h.throws = "R", m["pfx_x"]),
   spin          |-> SpinDirection(m["spin_axis"], h.throws = "R"),
   stand         |-> h.stand,
   p_throws      |-> h.throws,
   same_handed   |-> h.stand = h.throws]

\* BuildFeatures(outcome) adds to them where it went.
LocationFeatures(r, h) ==
  LET m == Clamped(r) IN
  [plate_x_bat           |-> MirrorIf(h.stand = "R", m["plate_x"]),
   zone_height_norm      |-> ZoneHeightNorm(m),
   in_zone               |-> InZone(m),
   dist_from_zone_center |-> CenterDistance(m)]

\* quality: of the reading as it came.
Core == {"release_speed", "plate_x", "plate_z"}
Quality(r) ==
  CASE \A f \in Core : r[f] = NoValue -> "SUSPECT"
    [] \A f \in Core : r[f] # NoValue -> "OK"
    [] OTHER -> "PARTIAL"

----------------------------------------------------------------------------
Opposite(h) == CASE h = "R" -> "L" [] h = "L" -> "R" [] OTHER -> h
MirrorHands(h) == [throws |-> Opposite(h.throws), stand |-> Opposite(h.stand)]
MirrorReading(r) ==
  [f \in Field |->
    IF r[f] = NoValue THEN NoValue
    ELSE IF f \in {"pfx_x", "plate_x"} THEN -r[f]
    ELSE IF f = "spin_axis" THEN 360 - r[f]
    ELSE r[f]]

\* What becomes of the features of a pitch in those of its mirror image: of
\* its shape nothing but the two hands, which are features themselves; of its
\* place nothing when the batter's side is known, and the sign of plate_x_bat
\* when it is not.
MirrorStuff(f, h) == [f EXCEPT !.stand = h.stand, !.p_throws = h.throws]
MirrorPlace(f, h) ==
  IF h.stand # Unsaid THEN f ELSE [f EXCEPT !.plate_x_bat = MirrorIf(TRUE, @)]

\* A pitch and its mirror image, thrown with the other hand to a batter on the
\* other side, are told apart by the two hands alone: every measured or
\* geometric feature is the same, at the edges of the bounds and with fields
\* missing too, and so is the quality.  A batter without a side is mirrored
\* by nothing (normalize.go, Normalize: "a handedness-neutral frame";
\* features.go, BuildFeatures).
MirrorTwins ==
  LET twin  == MirrorReading(raw)
      other == MirrorHands(hands)
  IN  /\ StuffFeatures(twin, other) = MirrorStuff(StuffFeatures(raw, hands), other)
      /\ LocationFeatures(twin, other) = MirrorPlace(LocationFeatures(raw, hands), other)
      /\ Quality(twin) = Quality(raw)
============================================================================
