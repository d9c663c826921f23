------------------------------ MODULE LaneLayout ------------------------------
(***************************************************************************)
(* The widths of a board's lanes (laneLayout.ts), in whole pixels, and where *)
(* the row of lanes draws each of them (DraggableBoard.tsx).                 *)
(***************************************************************************)
EXTENDS Integers, Sequences, SequencesExt

LANE_GUTTER == 14
BOARD_PAD == 16
ADD_LANE_WIDTH == 72
ADD_LANE_GAP == 14

AtLeast(a, b) == IF a >= b THEN a ELSE b  \* Math.max
AtMost(a, b) == IF a <= b THEN a ELSE b   \* Math.min

IsPhone(screenW) == screenW < 700

\* A phone shows most of one lane and scrolls; a wider screen splits its width,
\* between a soft minimum and 360, or shrinks the lanes down to 120.
ComputeLaneWidth(screenW, laneCount) ==
    LET n == AtLeast(laneCount, 1)
        available == AtLeast(screenW - BOARD_PAD * 2, 200)
        gutters == LANE_GUTTER * (n - 1) + ADD_LANE_GAP + ADD_LANE_WIDTH
        fit == (available - gutters) \div n
        softMin == IF screenW >= 1100 THEN 180 ELSE 150
    IN CASE IsPhone(screenW) -> AtMost(320, AtLeast(240, (available * 82) \div 100))
         [] ~IsPhone(screenW) /\ fit >= softMin -> AtMost(fit, 360)
         [] OTHER -> AtLeast(120, fit)

\* The frame of the k-th of n lanes, in the scrolled content's own coordinates.
DrawnFrame(screenW, n, k) ==
    LET w == ComputeLaneWidth(screenW, n) IN
    [x |-> BOARD_PAD + (k - 1) * (w + LANE_GUTTER), w |-> w]
=============================================================================
