--------------------------------- MODULE Panels ---------------------------------
(***************************************************************************)
(* The floating panel every dialog of the app is built on                    *)
(* (DraggableDialog.tsx): the drag, the bounds that keep part of it in the   *)
(* window, and their recomputation when the window is resized.  Lengths that *)
(* the code halves are kept doubled, so that all of them are integers.       *)
(***************************************************************************)
EXTENDS Integers

CONSTANTS
    Windows,  \* window sizes, as records [w, h]
    MaxWidth, \* the panel's maxWidth
    Moves     \* translations a pointer makes in one drag

MIN_VISIBLE == 80

ASSUME PanelConstants ==
    /\ MaxWidth \in Nat /\ MaxWidth >= MIN_VISIBLE
    /\ Windows \subseteq [w : Nat, h : Nat]
    /\ \A win \in Windows : win.w >= 2 * MIN_VISIBLE + 32 /\ win.h >= 2 * MIN_VISIBLE + 48
    /\ Moves \subseteq Int

VARIABLES
    window,   \* useWindowDimensions
    opened,   \* the panel is on screen
    offset,   \* dx and dy, doubled
    start,    \* startX and startY, doubled
    dragging  \* between onStart and onEnd

panelVars == <<window, opened, offset, start, dragging>>

Smaller(a, b) == IF a <= b THEN a ELSE b
Larger(a, b) == IF a >= b THEN a ELSE b

PanelW(win) == Smaller(MaxWidth, win.w - 32)
PanelH(win) == Smaller((win.h * 82) \div 100, win.h - 48)

\* boundX and boundY, doubled: half the free room, and the panel but its 80 pixels.
BoundX(win) == Larger(0, (win.w - PanelW(win)) + 2 * (PanelW(win) - MIN_VISIBLE))
BoundY(win) == Larger(0, (win.h - PanelH(win)) + 2 * (PanelH(win) - MIN_VISIBLE))

Clamp(v, limit) == Smaller(limit, Larger(-limit, v))
Clamped(win, p) == [x |-> Clamp(p.x, BoundX(win)), y |-> Clamp(p.y, BoundY(win))]

Centered == [x |-> 0, y |-> 0]

PanelInit ==
    /\ window \in Windows
    /\ opened = FALSE /\ dragging = FALSE
    /\ offset = Centered /\ start = Centered

\* Each opening starts from the centre.
OpenDialog ==
    /\ ~opened /\ opened' = TRUE
    /\ offset' = Centered
    /\ UNCHANGED <<window, start, dragging>>

\* The close button, the backdrop, Escape on the web, back on a phone.
CloseDialog ==
    /\ opened /\ opened' = FALSE /\ dragging' = FALSE
    /\ UNCHANGED <<window, offset, start>>

DragStart ==
    /\ opened /\ ~dragging /\ dragging' = TRUE
    /\ start' = offset
    /\ UNCHANGED <<window, opened, offset>>

\* The offset is where the drag started plus how far the pointer went, clamped
\* to the bounds of the window as it is now.
DragTo(x, y) ==
    /\ dragging
    /\ offset' = Clamped(window, [x |-> start.x + 2 * x, y |-> start.y + 2 * y])
    /\ UNCHANGED <<window, opened, start, dragging>>

DragEnd ==
    /\ dragging /\ dragging' = FALSE
    /\ UNCHANGED <<window, opened, offset, start>>

ResizeKeeps(win) ==  \* mutant: the offset is not clamped to the new bounds
    /\ win # window /\ window' = win
    /\ UNCHANGED <<opened, offset, start, dragging>>

\* The window changes: the effect on the bounds clamps the offset again.
Resize(win) ==
    /\ win # window /\ window' = win
    /\ offset' = Clamped(win, offset)
    /\ UNCHANGED <<opened, start, dragging>>

PanelNext ==
    \/ OpenDialog \/ CloseDialog \/ DragStart \/ DragEnd
    \/ \E x \in Moves, y \in Moves : DragTo(x, y)
    \/ \E win \in Windows : Resize(win)

PanelSpec == PanelInit /\ [][PanelNext]_panelVars

-----------------------------------------------------------------------------
(* Properties *)

\* How much of a side of the panel is left in the window, doubled.  The panel rests
\* in the centre, so a side starts at half the free room plus the offset.
Within(size, side, moved) ==
    Smaller(size + side + moved, 2 * size) - Larger(size - side + moved, 0)

\* Wherever it is dragged and however the window is resized, at least 80 pixels of
\* the panel's width stay in the window, and of its height too while it is as high as
\* it may be (DraggableDialog.tsx:46, 85-86).  The bounds know that height only: a
\* shorter panel may leave by the top or the bottom, and the title bar, which is the
\* one place to drag it by, may leave by the top whatever the height.
PanelInView ==
    /\ Within(window.w, PanelW(window), offset.x) >= 2 * MIN_VISIBLE
    /\ Within(window.h, PanelH(window), offset.y) >= 2 * MIN_VISIBLE
=============================================================================
