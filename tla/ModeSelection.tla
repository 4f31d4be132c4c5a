---------------------------- MODULE ModeSelection ----------------------------
(***************************************************************************)
(* Which mode of a connector drm.c takes and where it puts the video in    *)
(* it: the pure computations of the DRM layer.                             *)
(*                                                                         *)
(* A mode is [w, h, hz, pref, lace]; modes are numbered from 1.            *)
(***************************************************************************)
EXTENDS Integers, Sequences, FiniteSets, FiniteSetsExt

MAX_WIDTH == 1920
MAX_HEIGHT == 1080

(* Whether select_best_mode() looks at the mode; without a desired rate    *)
(* only multiples of 60 Hz count.                                          *)
Eligible(m, desired) ==
    /\ m.w <= MAX_WIDTH /\ m.h <= MAX_HEIGHT
    /\ IF desired = 0 THEN m.hz % 60 = 0 ELSE m.hz = desired

Better(m, best) ==
    \/ m.w * m.h > best.w * best.h
    \/ m.w * m.h = best.w * best.h /\ m.hz > best.hz

(* 0 if there is none. *)
select_best_mode(modes, desired) ==
    LET none == [w |-> 0, h |-> 0, hz |-> 0]
        B[i \in 0 .. Len(modes)] ==
            IF i = 0 THEN 0
            ELSE LET best == IF B[i - 1] = 0 THEN none ELSE modes[B[i - 1]]
                 IN  IF Eligible(modes[i], desired) /\ Better(modes[i], best)
                     THEN i ELSE B[i - 1]
    IN  B[Len(modes)]

(* The mode asked for: the last progressive one that matches, else the     *)
(* first one; else the last preferred one; else none.                      *)
AskedMode(modes, want) ==
    LET Is(m) == m.w = want.w /\ m.h = want.h /\ m.hz = want.hz
        matching == {i \in DOMAIN modes : Is(modes[i])}
        progressive == {i \in matching : ~modes[i].lace}
        preferred == {i \in DOMAIN modes \ matching : modes[i].pref}
    IN  IF progressive # {} THEN Max(progressive)
        ELSE IF matching # {} THEN Min(matching)
        ELSE IF preferred # {} THEN Max(preferred) ELSE 0

(* The mode that modeset_output_create() takes; 0 is an error. *)
ChosenMode(modes, want, rate) ==
    LET OrFirst(i) == IF i = 0 THEN 1 ELSE i
    IN  IF want.w > 0 /\ want.h > 0 /\ want.hz > 0 THEN AskedMode(modes, want)
        ELSE IF rate > 0 THEN OrFirst(select_best_mode(modes, rate))
        ELSE IF want.w = 0 /\ want.h = 0 /\ want.hz = 0 THEN OrFirst(select_best_mode(modes, 0))
        ELSE 1

(* The rectangle of modeset_atomic_prepare_commit().  The ratio is a       *)
(* float: a quotient that is whole may come out one lower, and an equal    *)
(* comparison either way.                                                  *)
Floored(a, b) == IF a % b = 0 THEN {a \div b, (a \div b) - 1} ELSE {a \div b}

Wider(W, H, w, h) == W * h >= H * w
Narrower(W, H, w, h) == W * h <= H * w

Placed(W, H, w, h, stretch) ==
    LET Rect(cw, ch) == [x |-> (W - cw) \div 2, y |-> (H - ch) \div 2, w |-> cw, h |-> ch]
    IN  IF stretch THEN {[x |-> 0, y |-> 0, w |-> W, h |-> H]}
        ELSE (IF Wider(W, H, w, h) THEN {Rect(cw, H) : cw \in Floored(H * w, h)} ELSE {})
             \cup (IF Narrower(W, H, w, h) THEN {Rect(W, ch) : ch \in Floored(W * h, w)} ELSE {})
=============================================================================
