----------------------------- MODULE WindowRects -----------------------------
(***************************************************************************)
(* The windows of the AES, the rectangles each of them owns on the screen, *)
(* and what is drawn when a window changes:                                *)
(*                                                                         *)
(*   aes/gemwrect.c   newrect(), mkrect() and the pool of ORECTs           *)
(*   aes/gemwmlib.c   wm_create(), wm_open(), wm_close(), wm_delete(),     *)
(*                    wm_set() with WF_CXYWH and WF_TOP, draw_change(),    *)
(*                    w_move(), w_update(), w_redraw(), the drawing of     *)
(*                    frames and desktop                                   *)
(*   aes/gemfmlib.c   fm_dial() with FMD_FINISH                            *)
(*                                                                         *)
(* shown is what the pixels of the screen show; the window manager draws   *)
(* frames and desktop itself, copies a moved window, and asks the owners   *)
(* of windows to draw the rest (WM_REDRAW). The window manager works under *)
(* the screen semaphore, so that a call is one step; the pipe of messages, *)
(* where redraws of a window are united, is AESQueue. Windows have no      *)
(* gadgets: a frame of one pixel, and a shadow. w_prev is written before   *)
(* each use, so that it is no state.                                       *)
(***************************************************************************)
EXTENDS Rects, FiniteSets, SequencesExt

CONSTANTS
  NUM_WIN,      (* windows, the desktop included                           *)
  NUM_ORECT,    (* rectangles in the pool                                  *)
  Width,        (* gl_width and gl_height: the size of the screen,         *)
  Height,
  MenuHeight,   (* gl_hbox: and of the menu bar at its top                 *)
  Shadow,       (* DROP_SHADOW_SIZE                                        *)
  Places,       (* Places[h]: where the program puts window h              *)
  Dialogs,      (* where programs show dialogues                           *)
  Early,        (* whether programs give a window a place (WF_CXYWH)       *)
                (* while it is not open                                    *)
  Prompt        (* whether a program draws what it has been asked to       *)
                (* before it moves a window                                *)

DESKWH == 0
NIL == -1
Windows == 1 .. NUM_WIN - 1

gl_rscreen == Rect(0, 0, Width, Height)
gl_rfull == Rect(0, MenuHeight, Width, Height - MenuHeight)
Screen == (0 .. Width - 1) \X (MenuHeight .. Height - 1)

ASSUME WindowRectsAssumption ==
  /\ NUM_WIN \in Nat \ {0} /\ NUM_ORECT \in Nat \ {0}
  /\ {Width, Height, MenuHeight, Shadow} \subseteq Nat
  /\ Width > 0 /\ MenuHeight < Height
  /\ {Early, Prompt} \subseteq BOOLEAN
  /\ \A r \in Dialogs \cup UNION {Places[h] : h \in Windows} :
       /\ r \in GRECT /\ r.w > 0 /\ r.h > 0
       /\ r.x >= -1 /\ r.y >= MenuHeight /\ Meets(gl_rfull, r)

VARIABLES
  created, (* windows with VF_INUSE                                        *)
  order,   (* the children of W_TREE[ROOT], bottom to top: the open windows*)
  curr,    (* ob_x ... ob_height of W_TREE: the places of the windows      *)
  lists,   (* .rlist[h]: w_rlist; .broken: windows with VF_BROKEN;         *)
           (* .free: ORECTs left; .least: the fewest that ever were        *)
  gl_wtop, (* the top window                                               *)
  shown,   (* history: what each pixel below the menu bar shows            *)
  asked    (* asked[h]: the WM_REDRAW in the pipe of h's owner (no size:   *)
           (* none)                                                        *)

vars == <<created, order, curr, lists, gl_wtop, shown, asked>>

IsOpen(h) == h \in Range(order)

(* ------------------------------ sizes ---------------------------------- *)
\* w_getsize(WS_TRUE)
TrueSize(r) == IF HasSize(r) THEN Grow(r, Shadow) ELSE r

\* The work area (wm_calc(WC_WORK), no gadgets).
wm_calc(r) == Rect(r.x + 1, r.y + 1, r.w - 2, r.h - 2)

Work(size, h) == IF h = DESKWH THEN gl_rfull ELSE wm_calc(size[h])

Position(ord, h) == CHOOSE i \in DOMAIN ord : ord[i] = h
ob_delete(ord, h) == RemoveAt(ord, Position(ord, h))

\* To the end of the list.
ob_order(ord, h) == Append(ob_delete(ord, h), h)

(* ------------------------- rectangle lists ----------------------------- *)
\* Taking r out of the list and its pieces in, each piece from the pool
\* before r goes back to it.
Break(new, part, r) ==
  LET pieces == brkrct(new, r) IN
  IF ~Overlap(new, r) THEN [part EXCEPT !.list = Append(@, r)]
  ELSE LET left == part.free - Len(pieces)
       IN [list |-> part.list \o pieces, hit |-> TRUE, free |-> left + 1,
           least |-> Smaller(part.least, left)]

\* Breaking the rectangles of wh with the new one.
mkrect(new, l, wh) ==
  LET start == [list |-> <<>>, hit |-> FALSE, free |-> l.free, least |-> l.least]
      cut(part, r) == Break(new, part, r)
      done == FoldLeft(cut, start, l.rlist[wh])
  IN [rlist |-> [l.rlist EXCEPT ![wh] = done.list],
      broken |-> IF done.hit THEN l.broken \cup {wh} ELSE l.broken,
      free |-> done.free, least |-> done.least]

\* What everyobj() visits before it comes to wh: the desktop and the
\* windows below wh; all of them, if wh is not in the tree.
Below(ord, wh) ==
  IF wh = DESKWH THEN <<>>
  ELSE <<DESKWH>> \o (IF wh \in Range(ord)
                      THEN SubSeq(ord, 1, Position(ord, wh) - 1) ELSE ord)

\* Mutant of Dump: the old list is forgotten.
DumpNot(l, wh) ==
  [l EXCEPT !.rlist[wh] = <<>>, !.broken = @ \ {wh}]

Dump(l, wh) ==
  [l EXCEPT !.rlist[wh] = <<>>, !.broken = @ \ {wh},
            !.free = @ + Len(l.rlist[wh])]

newrect(ord, size, l, wh) ==
  LET new == TrueSize(size[wh])
      lay(k, below) == mkrect(new, k, below)
      cut == FoldLeft(lay, Dump(l, wh), Below(ord, wh))
  IN IF ~HasSize(new) THEN Dump(l, wh)
     ELSE [cut EXCEPT !.rlist[wh] = <<new>>, !.free = @ - 1,
                      !.least = Smaller(@, cut.free - 1)]

\* everyobj() with newrect(): the desktop first, then bottom to top.
Rebuild(ord, size, l) ==
  LET next(k, wh) == newrect(ord, size, k, wh)
  IN FoldLeft(next, l, <<DESKWH>> \o ord)

(* ----------------------------- drawing --------------------------------- *)
(* t is the tree as a call leaves it: its order, the sizes, the lists of   *)
(* rectangles and the top window.                                          *)
Owns(t, h, p) == \E i \in DOMAIN t.rlist[h] : inside(p, t.rlist[h][i])

Picture(kind, h, p, corner, detail) ==
  <<kind, h, p[1] - corner.x, p[2] - corner.y, detail>>

Stale == <<"stale">>
Background(p) == Picture("desk", DESKWH, p, gl_rzero, <<>>)
Inside(t, h, p) == Picture("inside", h, p, t.size[h], <<>>)
Frame(t, h, p) ==
  Picture("frame", h, p, t.size[h], <<t.size[h].w, t.size[h].h, t.top = h>>)

\* The frames of some windows within a clip (w_cpwalk()). W_WORK is a
\* G_IBOX: the work area is left as it is.
DrawFrames(pic, t, windows, clip) ==
  [p \in Screen |->
     LET owners == {h \in windows : Owns(t, h, p) /\ ~inside(p, Work(t.size, h))}
     IN IF inside(p, clip) /\ owners # {}
        THEN Frame(t, CHOOSE h \in owners : TRUE, p) ELSE pic[p]]

DrawFrame(pic, t, h) == DrawFrames(pic, t, {h}, TrueSize(t.size[h]))

w_drawdesk(pic, t, clip) ==
  [p \in Screen |->
     IF inside(p, clip) /\ Owns(t, DESKWH, p) THEN Background(p) ELSE pic[p]]

\* bb_screen(), clipped to the screen.
Blit(pic, s, x, y) ==
  [p \in Screen |->
     LET from == <<p[1] - x + s.x, p[2] - y + s.y>>
     IN IF inside(from, s) THEN pic[from] ELSE pic[p]]

\* w_union(): the union of the rectangles a window owns.
w_union(list) == FoldLeft(rc_union, Head(list), Tail(list))

\* The redraw that w_redraw() sends for h, united with the one in the pipe.
w_redraw(t, h, clip) ==
  LET r == rc_intersect(clip, Work(t.size, h))
      d == w_union(t.rlist[h])
  IN IF /\ Meets(clip, Work(t.size, h))
        /\ t.rlist[h] # <<>>
        /\ Meets(d, r)
     THEN IF HasSize(asked[h]) THEN rc_union(rc_intersect(d, r), asked[h])
          ELSE rc_intersect(d, r)
     ELSE asked[h]

\* The windows from start up to stop; DESKWH: from the bottom, to the top.
Between(t, start, stop) ==
  LET lo == IF start = DESKWH THEN 1 ELSE Position(t.order, start)
      hi == IF stop = DESKWH THEN Len(t.order) ELSE Position(t.order, stop)
  IN {t.order[i] : i \in lo .. hi}

w_update(pic, t, start, clip, stop, moved) ==
  LET c == rc_intersect(gl_rfull, clip)
      windows == Between(t, start, stop) \ (IF moved THEN {t.top} ELSE {})
  IN [shown |-> DrawFrames(pic, t, windows, Grow(c, Shadow)),
      asked |-> [h \in Windows |-> IF h \in windows THEN w_redraw(t, h, c)
                                   ELSE asked[h]]]

(* --------------------- draw_change(): what to draw --------------------- *)
(* c is the old place of h and pt the new one. A plan says what is left to *)
(* draw: the windows from start up to stop within clip; the top window is  *)
(* left out if it has been moved. pic is the screen so far.                *)
Plan(clip, start, stop, moved, pic) ==
  [clip |-> clip, start |-> start, stop |-> stop, moved |-> moved, shown |-> pic]

NothingLeft(pic) == Plan(gl_rzero, NIL, NIL, FALSE, pic)

TopRequest(t, h, c, oldtop, wasclr) ==
  LET covered == IF oldtop = NIL THEN shown ELSE DrawFrame(shown, t, oldtop)
      clrold == oldtop = NIL \/ oldtop \notin t.broken
  IN CASE h # Last(t.order) \/ h = oldtop -> NothingLeft(shown)
       [] h = Last(t.order) /\ h # oldtop /\ clrold /\ wasclr ->
            NothingLeft(DrawFrame(covered, t, t.top))
       [] OTHER -> Plan(c, h, DESKWH, FALSE, covered)

\* Mutant of SizeRequest: starts at the window itself.
SizeRequestAbove(t, h, c, pt) ==
  LET shrunk == pt.w <= c.w /\ pt.h <= c.h
      clip == [c EXCEPT !.w = Larger(pt.w, c.w) + Shadow,
                        !.h = Larger(pt.h, c.h) + Shadow]
  IN Plan(clip, h, IF shrunk THEN h ELSE DESKWH, shrunk,
          IF shrunk THEN DrawFrame(shown, t, t.top) ELSE shown)

SizeRequest(t, h, c, pt) ==
  LET shrunk == pt.w <= c.w /\ pt.h <= c.h
      start == IF pt.w < c.w \/ pt.h < c.h THEN DESKWH ELSE h
      clip == [c EXCEPT !.w = Larger(pt.w, c.w) + Shadow,
                        !.h = Larger(pt.h, c.h) + Shadow]
  IN Plan(clip, start, IF shrunk THEN h ELSE DESKWH, shrunk,
          IF shrunk THEN DrawFrame(shown, t, t.top) ELSE shown)

\* w_mvfix(): what becomes of the other rectangle if ps begins at -1.
Aligned(ps, pd) ==
  IF ps.x = -1 THEN [pd EXCEPT !.x = @ + 1, !.w = @ - 1] ELSE pd

w_move(t, h, c) ==
  LET s0 == Grow(c, Shadow)
      d0 == TrueSize(t.size[h])
      off == \/ s0.x + s0.w > Width /\ d0.x < s0.x
             \/ s0.y + s0.h > Height /\ d0.y < s0.y
      d1 == Aligned(s0, IF off THEN rc_union(s0, d0) ELSE d0)
      s == Aligned(d1, rc_intersect(gl_rfull, s0))
      d == rc_intersect(gl_rfull, d1)
      sminus1 == s0.x = -1
      dminus1 == d1.x = -1
      edge == Rect(d.x - 1, d.y, 1, d.h)
      moved == Blit(shown, s, d.x, d.y)
  IN IF off THEN Plan(d, DESKWH, DESKWH, FALSE, shown)
     ELSE Plan(IF dminus1 /\ ~sminus1 THEN [s EXCEPT !.x = @ - 1] ELSE s,
               DESKWH, h, TRUE,
               IF sminus1 /\ ~dminus1
               THEN DrawFrames(moved, t, {t.top}, Grow(edge, Shadow)) ELSE moved)

Covers(r, s) ==
  /\ r.x <= s.x /\ r.x + r.w >= s.x + s.w
  /\ r.y <= s.y /\ r.y + r.h >= s.y + s.h

\* Move, grow, open or close.
MoveRequest(t, h, c, pt) ==
  LET both == rc_union(pt, c) IN
  CASE ~HasSize(c) \/ Covers(pt, c) -> Plan(pt, h, DESKWH, FALSE, shown)
    [] HasSize(c) /\ ~Covers(pt, c) /\ ~HasSize(pt) ->
         Plan(c, DESKWH, DESKWH, FALSE, shown)
    [] HasSize(c) /\ ~Covers(pt, c) /\ HasSize(pt) ->
         IF pt.w = c.w /\ pt.h = c.h /\ t.top = h THEN w_move(t, h, c)
         ELSE Plan(both, IF both = pt THEN h ELSE DESKWH, DESKWH, FALSE, shown)

\* After another window has come to the top: its place is drawn as well,
\* and when it has been opened, the frame of the old one.
NewTop(t, h, c, oldtop, plan) ==
  IF oldtop = t.top \/ t.top = NIL THEN plan
  ELSE [plan EXCEPT !.clip = rc_union(t.size[t.top], @),
          !.shown = IF oldtop \notin {NIL, h} /\ c = gl_rzero
                    THEN DrawFrame(@, t, oldtop) ELSE @]

Request(t, h, c, pt, oldtop, wasclr) ==
  IF pt # gl_rzero /\ pt.x = c.x /\ pt.y = c.y
  THEN IF pt = c THEN TopRequest(t, h, c, oldtop, wasclr) ELSE SizeRequest(t, h, c, pt)
  ELSE MoveRequest(t, h, c, pt)

\* The rest of the drawing, as planned.
Finish(t, plan, clip) ==
  IF plan.start = DESKWH
  THEN w_update(w_drawdesk(plan.shown, t, clip), t, DESKWH, clip, plan.stop, plan.moved)
  ELSE w_update(plan.shown, t, plan.start, clip, plan.stop, plan.moved)

\* What the call draws in the end.
Drawn(t, h, c, oldtop, request) ==
  LET plan == NewTop(t, h, c, oldtop, request) IN
  IF request.start = NIL THEN [shown |-> request.shown, asked |-> asked]
  ELSE Finish(t, plan, Grow(plan.clip, Shadow))

\* The window that pixel p belongs to: the topmost one over it, with its
\* shadow, or else the desktop.
Owner(t, p) ==
  LET over == {i \in DOMAIN t.order : inside(p, TrueSize(t.size[t.order[i]]))}
  IN IF over = {} THEN DESKWH ELSE t.order[CHOOSE i \in over : \A j \in over : j <= i]

\* What p has to show.
Due(t, p) ==
  LET h == Owner(t, p) IN
  CASE h = DESKWH -> Background(p)
    [] h # DESKWH /\ inside(p, Work(t.size, h)) -> Inside(t, h, p)
    [] OTHER -> Frame(t, h, p)

\* The screen, whose pixels are stale if they show anything else.
Judged(pic, t) ==
  [p \in Screen |-> LET due == Due(t, p) IN IF pic[p] = due THEN due ELSE Stale]

Tree(ord, size, l) ==
  [order |-> ord, size |-> size, rlist |-> l.rlist, broken |-> l.broken,
   top |-> IF ord = <<>> THEN NIL ELSE Last(ord)]

Leave(t, l, drawn) ==
  /\ order' = t.order
  /\ curr' = t.size
  /\ lists' = l
  /\ gl_wtop' = t.top
  /\ shown' = Judged(drawn.shown, t)
  /\ asked' = drawn.asked

Change(t, l, h, c) ==
  Leave(t, l, Drawn(t, h, c, gl_wtop,
                    Request(t, h, c, t.size[h], gl_wtop, h \notin lists.broken)))

Update(h, ord, size, l) == Change(Tree(ord, size, l), l, h, curr[h])

\* draw_change() for an open window, with the tree in its new order.
draw_change(h, pt, ord) ==
  LET size == [curr EXCEPT ![h] = pt]
  IN Update(h, ord, size, Rebuild(ord, size, lists))

Now == Tree(order, curr, lists)

(* ------------------------------ calls ---------------------------------- *)
\* get_orect() has not returned NULL so far; nobody checks that it does not.
Running == lists.least >= 0

\* The lowest handle that is free.
wm_create(h) ==
  /\ Running /\ h \notin created
  /\ \A i \in Windows : i < h => i \in created
  /\ created' = created \cup {h}
  /\ curr' = [curr EXCEPT ![h] = gl_rzero]
  /\ lists' = [lists EXCEPT !.broken = @ \ {h}]
  /\ UNCHANGED <<order, gl_wtop, shown, asked>>

wm_open(h, pt) ==
  /\ Running /\ h \in created /\ ~IsOpen(h)
  /\ draw_change(h, pt, Append(order, h))
  /\ UNCHANGED created

wm_close(h) ==
  /\ Running /\ IsOpen(h)
  /\ draw_change(h, gl_rzero, ob_delete(order, h))
  /\ UNCHANGED created

\* "give back recs.": newrect() takes the window's rectangles off the list,
\* and lays its place over the others if it has one. The size that is left
\* in a free window is not read before wm_create() sets it to gl_rzero.
wm_delete(h) ==
  /\ Running /\ h \in created /\ ~IsOpen(h)
  /\ created' = created \ {h}
  /\ lists' = LET l == newrect(order, curr, lists, h)
              IN [l EXCEPT !.broken = @ \ {h}]
  /\ curr' = [curr EXCEPT ![h] = gl_rzero]
  /\ asked' = [asked EXCEPT ![h] = gl_rzero]
  /\ UNCHANGED <<order, gl_wtop, shown>>

\* wind_set(WF_CXYWH); nothing is drawn while the window is not open.
wm_set_size(h, pt) ==
  /\ Running /\ h \in created /\ (Early \/ IsOpen(h))
  /\ (Prompt /\ pt.w = curr[h].w /\ pt.h = curr[h].h) => ~HasSize(asked[h])
  /\ IF IsOpen(h) THEN draw_change(h, pt, order)
     ELSE /\ curr' = [curr EXCEPT ![h] = pt]
          /\ UNCHANGED <<order, lists, gl_wtop, shown, asked>>
  /\ UNCHANGED created

\* wind_set(WF_TOP), wm_mktop()
wm_mktop(h) ==
  /\ Running /\ IsOpen(h) /\ h # gl_wtop
  /\ draw_change(h, curr[h], ob_order(order, h))
  /\ UNCHANGED created

\* A dialogue in r has been on the screen, and is cleared.
fm_dial(r) ==
  LET dialog == [p \in Screen |-> IF inside(p, r) THEN Stale ELSE shown[p]]
      drawn(t) == w_update(w_drawdesk(dialog, t, r), t, DESKWH, r, DESKWH, FALSE)
  IN /\ Running
     /\ Leave(Now, lists, drawn(Now))
     /\ UNCHANGED created

\* The program answers WM_REDRAW: it draws in the rectangles of the list
\* that meet the work area (w_owns()) and those of the message.
redraw(h) ==
  /\ Running /\ HasSize(asked[h])
  /\ shown' = [p \in Screen |->
                 IF /\ inside(p, asked[h]) /\ inside(p, Work(curr, h))
                    /\ Owns(Now, h, p)
                 THEN Inside(Now, h, p) ELSE shown[p]]
  /\ asked' = [asked EXCEPT ![h] = gl_rzero]
  /\ UNCHANGED <<created, order, curr, lists, gl_wtop>>

Init ==
  /\ created = {}
  /\ order = <<>>
  /\ curr = [h \in {DESKWH} \cup Windows |->
               IF h = DESKWH THEN gl_rscreen ELSE gl_rzero]
  /\ lists = [rlist |-> [h \in {DESKWH} \cup Windows |->
                           IF h = DESKWH THEN <<gl_rfull>> ELSE <<>>],
              broken |-> {}, free |-> NUM_ORECT - 1, least |-> NUM_ORECT - 1]
  /\ gl_wtop = NIL
  /\ shown = [p \in Screen |-> Background(p)]
  /\ asked = [h \in Windows |-> gl_rzero]

Next ==
  \/ \E h \in Windows :
       \/ wm_create(h)
       \/ wm_close(h)
       \/ wm_delete(h)
       \/ wm_mktop(h)
       \/ redraw(h)
       \/ \E pt \in Places[h] :
            wm_open(h, pt) \/ wm_set_size(h, pt)
  \/ \E r \in Dialogs : fm_dial(r)

Spec == Init /\ [][Next]_vars

(* ---------------------------- properties ------------------------------- *)
\* Every pixel is in the list of its owner, once, and in no other open
\* window's, and no rectangle of a list is empty; a window is marked as
\* broken if and only if one above it lies over it.
OwnersExact ==
  /\ \A h \in {DESKWH} \cup Range(order) :
       \A i \in DOMAIN lists.rlist[h] :
         lists.rlist[h][i].w > 0 /\ lists.rlist[h][i].h > 0
  /\ \A p \in Screen : LET owner == Owner(Now, p) IN
       \A h \in {DESKWH} \cup Range(order) :
         Cardinality({i \in DOMAIN lists.rlist[h] : inside(p, lists.rlist[h][i])})
           = IF h = owner THEN 1 ELSE 0
  /\ \A i \in DOMAIN order :
       order[i] \in lists.broken
         <=> \E j \in i + 1 .. Len(order) :
               Overlap(TrueSize(curr[order[j]]), TrueSize(curr[order[i]]))

\* Every pixel shows what its owner has to show there, unless it is in the
\* work area of a window whose owner has been asked to draw it.
ScreenRight ==
  \A p \in Screen :
    \/ shown[p] = Due(Now, p)
    \/ LET h == Owner(Now, p)
       IN h # DESKWH /\ inside(p, Work(curr, h)) /\ inside(p, asked[h])

\* No rectangle of the pool is lost or is on two lists: those that are not
\* free are in the windows' lists, those of closed windows included.
OrectsAccounted ==
  LET length(h) == Len(lists.rlist[h])
  IN lists.free + MapThenSumSet(length, {DESKWH} \cup Windows) = NUM_ORECT

\* get_orect(), whose callers do not look at what it returns, has always
\* found a rectangle in the pool.
OrectsSuffice == lists.least >= 0
=============================================================================
