-------------------------- MODULE OverlayViewport --------------------------
(***************************************************************************)
(* Geometry of the overlay: the part of the game's client area that shows  *)
(* the game, from a fixed aspect ratio (viewport_math.hpp), scaled when    *)
(* the window changes, or found by looking for black bars on the screen    *)
(* (sdl_renderer.cpp).                                                     *)
(*                                                                         *)
(* Clients are small enough to be sampled pixel by pixel.  The content on  *)
(* the screen is given by how many columns and rows are black from each    *)
(* edge; a client that is black all over is a content wider than it.       *)
(* A client lies anywhere on the desktop, a viewport within its client.    *)
(***************************************************************************)
EXTENDS Integers

Viewports == [x : Nat, y : Nat, w : Nat, h : Nat]
Clients == [x : Int, y : Int, w : Nat, h : Nat]
Borders == [left : Nat, right : Nat, top : Nat, bottom : Nat]

Viewport(x, y, w, h) == [x |-> x, y |-> y, w |-> w, h |-> h]
NoViewport == Viewport(0, 0, 0, 0)
Full(w, h) == Viewport(0, 0, w, h)

Smaller(a, b) == IF a < b THEN a ELSE b
Larger(a, b) == IF a > b THEN a ELSE b
Clamp(n, lo, hi) == Larger(lo, Smaller(n, hi))

(* std::lround of a/b, for a >= 0 and b > 0. *)
Rounded(a, b) == (2 * a + b) \div (2 * b)

-----------------------------------------------------------------------------
(* The largest centred part of a client with the aspect num/den. *)
ForAspect(w, h, num, den) ==
  LET width == Rounded(h * num, den)
      height == Rounded(w * den, num)
  IN CASE w <= 0 \/ h <= 0 -> Full(w, h)
       [] w * den > h * num -> Viewport((w - width) \div 2, 0, width, h)
       [] w * den < h * num -> Viewport(0, (h - height) \div 2, w, height)
       [] OTHER -> Full(w, h)

ForMode(mode, w, h) ==
  CASE mode = 2 -> ForAspect(w, h, 4, 3)
    [] mode = 3 -> ForAspect(w, h, 16, 10)
    [] OTHER -> Full(w, h)

(* A viewport kept in proportion while its client changes size. *)
Remap(v, oldW, oldH, newW, newH) ==
  LET x == Clamp(Rounded(v.x * newW, oldW), 0, newW)
      y == Clamp(Rounded(v.y * newH, oldH), 0, newH)
  IN IF \E n \in {oldW, oldH, newW, newH, v.w, v.h} : n <= 0 THEN Full(newW, newH)
     ELSE Viewport(x, y, Clamp(Rounded(v.w * newW, oldW), 0, newW - x),
                         Clamp(Rounded(v.h * newH, oldH), 0, newH - y))

-----------------------------------------------------------------------------
(* One axis of detectContentViewport: black lines counted from both edges  *)
(* of an extent (three tenths at most) are bars when both are wide enough, *)
(* alike, and followed by a line that is not black.                        *)
Border(black, extent) == Smaller(black, (extent * 3) \div 10)
HasBars(first, last, extent) ==
  LET a == Border(first, extent)
      b == Border(last, extent)
      least == Larger(2, extent \div 100)
      probe == Smaller(extent - 1, a + Larger(2, extent \div 200))
      difference == IF a > b THEN a - b ELSE b - a
  IN /\ a >= least /\ b >= least
     /\ difference <= least
     /\ probe >= first /\ probe < extent - last

(* What the worker reports for a client of this size showing this content; *)
(* of two pairs of bars the relatively wider one counts, and a viewport    *)
(* less than half the client is not believed.                              *)
Detect(rect, c) ==
  LET sides == Border(c.left, rect.w) + Border(c.right, rect.w)
      ends == Border(c.top, rect.h) + Border(c.bottom, rect.h)
      hasSides == HasBars(c.left, c.right, rect.w)
      hasEnds == HasBars(c.top, c.bottom, rect.h)
      found ==
        CASE hasSides /\ (hasEnds => sides * rect.h >= ends * rect.w) ->
               Viewport(sides \div 2, 0, rect.w - 2 * (sides \div 2), rect.h)
          [] hasEnds -> Viewport(0, ends \div 2, rect.w, rect.h - 2 * (ends \div 2))
          [] OTHER -> Full(rect.w, rect.h)
  IN IF found.w < rect.w \div 2 \/ found.h < rect.h \div 2
     THEN Full(rect.w, rect.h) ELSE found

(* The client lies on one monitor (clientFitsMonitor). *)
Fits(rect, monitors) ==
  \E m \in monitors : /\ rect.x >= m.x /\ rect.x + rect.w <= m.x + m.w
                      /\ rect.y >= m.y /\ rect.y + rect.h <= m.y + m.h
=============================================================================
