--------------------------- MODULE DrmSetupProofs ---------------------------
(***************************************************************************)
(* Theorems about the life of the display in DrmSetup, for every display   *)
(* the kernel may offer, any number of writeback buffers and of groups of  *)
(* the decoder, and calls that fail anywhere: what is held is known at     *)
(* every step, so nothing is released twice, no commit names a framebuffer *)
(* that is gone but for a frame handed over before its group was removed,  *)
(* and writeback is on only when it is whole.                              *)
(***************************************************************************)
EXTENDS DrmSetup, TLAPS

-----------------------------------------------------------------------------
(* Where the program is *)

\* The steps of an output, in their order, from its mode to its end.
Running == {"run", "fallback", "retry"}
Leaving == {"cleanup", "restore", "restore video", "give back"}
AfterWriteback == {"osd"} \cup Running \cup Leaving
AfterRequests == {"writeback", "wb_fb", "attach", "check"} \cup AfterWriteback
AfterBuffers == {"requests"} \cup AfterRequests
AfterObjects == {"fb"} \cup AfterBuffers
AfterCrtc == {"planes", "objects"} \cup AfterObjects
AfterMode == {"crtc"} \cup AfterCrtc
Known == {"output", "end"} \cup AfterMode

\* An output has been given up, or not been tried yet.
Searching == {"open", "resources", "connector", "failed"}
Pcs == Known \cup Searching \cup {"unmade", "aborted"}

BeforeOsd == Pcs \ (AfterWriteback \cup {"end", "aborted"})

-----------------------------------------------------------------------------
(* What is held *)

Fd == <<"fd", "card0", 0>>
Four == {"handle", "fb", "map", "prime"}
Three == {"handle", "fb", "prime"}
ObjectNames == {"connector", "crtc", "video_plane", "osd_plane"}

\* The writeback buffers made so far.
WbMade ==
  IF pc = "wb_fb" THEN n - 1
  ELSE IF pc \in {"attach", "check"} \/ wb_bufs_ready THEN WB_BUF_COUNT ELSE 0

IsWbBuf(x, count) == \E i \in 1 .. count : x = wb_bufs[i]

\* What the program holds of the output it is working on, but for the CRTC,
\* which it may have failed to save, and the frames of the decoder.
Expected(k, x) ==
  \/ k = "blob" /\ x = "mode" /\ pc \in AfterMode
  \/ k = "props" /\ x \in ObjectNames /\ pc \in AfterObjects
  \/ k \in Four /\ x = "osd1" /\ (pc \in AfterBuffers \/ (pc = "fb" /\ n = 2))
  \/ k \in Four /\ x = "osd2" /\ pc \in AfterBuffers
  \/ k = "request" /\ x \in {"video", "osd"} /\ pc \in AfterRequests
  \/ k = "props" /\ x = "wb_connector" /\ wb_available /\ pc \in AfterRequests
  \/ k \in Three /\ IsWbBuf(x, WbMade) /\ pc \in AfterRequests

Kinds == {"fd", "blob", "props", "request"} \cup Four
Labels == {"card0", "mode", "wb_connector", "osd1", "osd2", "video", "osd"}
          \cup ObjectNames \cup {wb_bufs[i] : i \in 1 .. WB_BUF_COUNT}

\* A saved CRTC, and what is held of a frame of the decoder.
IsSaved(r) == r[3] \in Nat \ {0} /\ r = <<"crtc", "saved", r[3]>>
FrameFour == {"group", "handle", "prime", "fb"}
IsFrame(r) == \E g \in 1 .. groups, k \in FrameFour : r = R(k, frames[g])

\* What an attempt that failed may leave.
Left(r) == r[1] = "crtc" \/ r[2] \in {"video_plane", "osd1"}

LiveInv ==
  /\ misfreed = FALSE
  /\ \A r \in live : r \in Kinds \X Labels \X Nat \/ IsSaved(r) \/ IsFrame(r)
  /\ \A r \in live : r[3] <= conn /\ (r[3] = 0 <=> r[1] = "fd") /\ (r[1] = "fd" => r = Fd)
  /\ \A r \in live : r[3] \in 1 .. conn - 1 => Left(r)
  /\ pc \in Known \cup {"unmade"} => conn >= 1
  /\ pc \in Known => \A k \in Kinds, x \in Labels : R(k, x) \in live <=> Expected(k, x)
  /\ pc \in Searching => \A r \in live : (r[3] = conn /\ conn # 0) => Left(r)
  /\ pc = "unmade" =>
       /\ Objects \cup OutBlob \subseteq live
       /\ \A r \in live : r[3] = conn => r \in Objects \cup OutBlob \/ Left(r)
  /\ (pc = "resources" /\ drm_fd # NoFd) \/ pc \in AfterMode \cup {"connector", "output", "unmade"}
       => Fd \in live
  /\ pc = "end" => Fd \notin live /\ R("crtc", "saved") \notin live

-----------------------------------------------------------------------------
(* Flags and requests *)

FlagInv ==
  /\ conn \in Nat /\ n \in Nat /\ pc \in Pcs
  /\ wb_available \in BOOLEAN /\ wb_enabled \in BOOLEAN /\ wb_bufs_ready \in BOOLEAN
  /\ dvr_wb_mode \in BOOLEAN /\ routed \in BOOLEAN
  /\ (pc \in {"open", "resources"} => conn = 0) /\ (pc = "open" => drm_fd = NoFd)
  /\ pc = "fb" => n \in {1, 2}
  /\ pc = "wb_fb" => n \in 1 .. WB_BUF_COUNT
  /\ pc \in BeforeOsd => ~wb_bufs_ready /\ ~dvr_wb_mode /\ (wb_enabled => pc = "check")
  /\ pc \in BeforeOsd \ {"wb_fb", "attach", "check"} => ~wb_available
  /\ pc = "check" => wb_enabled /\ routed
  /\ pc \in {"restore", "restore video", "give back", "end"} => ~wb_bufs_ready
  /\ pc \in {"osd"} \cup Running =>
       /\ wb_enabled => wb_bufs_ready
       /\ dvr_wb_mode => wb_enabled /\ routed

\* A request that leaves the writeback connector alone or routes it.
Attaching(req) ==
  /\ req = [p \in {"video", "osd", "wb", "wb_fb"} |-> req[p]]
  /\ req["wb"] \in {Unset, "crtc"}

\* What a request keeps besides the frame exists.
Lasts(req) ==
  /\ Attaching(req)
  /\ \A p \in {"osd", "wb_fb"} :
       req[p] # Unset => req[p] \in Labels /\ R("fb", req[p]) \in live

RequestInv ==
  /\ pc \in BeforeOsd \cup {"osd"} => osd_request = Empty /\ video_request = Empty
  /\ pc \in Running => Lasts(video_request)

-----------------------------------------------------------------------------
(* The frames of the decoder *)

\* The group there is is whole; of the others only descriptors are left.
GroupInv ==
  /\ groups \in 0 .. Len(frames) /\ frm_grp \in 0 .. groups
  /\ pc \in BeforeOsd \cup {"osd"} => groups = 0
  /\ pc \in {"fallback", "retry"} => frm_grp # 0
  /\ pc \in Leaving \cup {"end"} => frm_grp = 0
  /\ frm_grp # 0 => \A k \in FrameFour : R(k, frames[frm_grp]) \in live
  /\ \A g \in 1 .. groups, k \in FrameFour :
       g # frm_grp /\ R(k, frames[g]) \in live => k = "prime"

\* Stale are frames of groups that are gone, and none of them comes again.
StaleInv ==
  /\ video_fb_id = Unset \/ \E g \in 1 .. groups : video_fb_id = frames[g]
  /\ \A b \in stale : \E g \in 1 .. groups : g # frm_grp /\ b = frames[g]
  /\ video_fb_id \notin stale

ControlInv == FlagInv /\ RequestInv /\ GroupInv /\ StaleInv
DrmInv == LiveInv /\ ControlInv

\* The names of the frames are no others'.
LEMMA FrameLabels ==
  /\ Len(frames) \in Nat
  /\ \A g \in 1 .. Len(frames) : frames[g] \notin Labels /\ frames[g] # Unset
  /\ \A g, h \in 1 .. Len(frames) : frames[g] = frames[h] => g = h
  BY DrmAssumption DEF Labels, ObjectNames, WB_BUF_COUNT, Unset, Reserved

-----------------------------------------------------------------------------
(* What a step of an output does to what is held *)

\* What a step makes is of the output tried, and what it releases it has.
Made(made) ==
  \A r \in made : r = R("crtc", "saved") \/ \E k \in Kinds \ {"fd"}, x \in Labels : r = R(k, x)

Had(made, released) ==
  \A r \in released :
    \E k \in Kinds \ {"fd"}, x \in Labels : r = R(k, x) /\ (Expected(k, x) \/ r \in made)

\* What the step leaves of the output.
Remains(made, released, k, x) == (Expected(k, x) \/ R(k, x) \in made) /\ R(k, x) \notin released

\* The facts of LiveInv that every step keeps.
Tidy ==
  /\ misfreed = FALSE
  /\ \A r \in live : r \in Kinds \X Labels \X Nat \/ IsSaved(r) \/ IsFrame(r)
  /\ \A r \in live : r[3] <= conn /\ (r[3] = 0 <=> r[1] = "fd") /\ (r[1] = "fd" => r = Fd)
  /\ \A r \in live : r[3] \in 1 .. conn - 1 => Left(r)

\* A step of an output, seen from what is held.
LEMMA StepHolds ==
  ASSUME LiveInv, conn \in Nat, pc \in Known \ {"end"}, conn' = conn, groups' = groups,
         NEW made, NEW released, Holds(made, released), Made(made), Had(made, released)
  PROVE  /\ Tidy' /\ Fd \in live' /\ conn >= 1
         /\ \A k \in Kinds, x \in Labels : R(k, x) \in live' <=> Remains(made, released, k, x)
         /\ \A r \in live' : r[3] = conn => \/ r = R("crtc", "saved") \/ IsFrame(r)
                                           \/ \E k \in Kinds, x \in Labels : r = R(k, x)
<1>1. /\ misfreed = FALSE /\ conn >= 1 /\ Fd \in live
      /\ \A r \in live : r \in Kinds \X Labels \X Nat \/ IsSaved(r) \/ IsFrame(r)
      /\ \A r \in live : r[3] <= conn /\ (r[3] = 0 <=> r[1] = "fd") /\ (r[1] = "fd" => r = Fd)
      /\ \A r \in live : r[3] \in 1 .. conn - 1 => Left(r)
      /\ \A k \in Kinds, x \in Labels : R(k, x) \in live <=> Expected(k, x)
  BY DEF LiveInv, Known
<1>2. /\ \A r : r \in live' <=> (r \in live \/ r \in made) /\ r \notin released
      /\ misfreed' = (misfreed \/ ~(released \subseteq live \cup made))
  BY DEF Holds
<1>3. \A r \in made : \/ r = <<"crtc", "saved", conn>>
                       \/ \E k \in Kinds \ {"fd"}, x \in Labels : r = <<k, x, conn>>
  BY DEF Made, R
<1>4. \A r \in released : r \in live \/ r \in made
  BY <1>1 DEF Had
<1>5. \A r \in released : r[3] = conn
  BY DEF Had, R
<1>6. Fd \in live'
  BY <1>1, <1>2, <1>5 DEF Fd
<1>7. \A r \in made : (r \in Kinds \X Labels \X Nat \/ IsSaved(r)) /\ r[3] = conn /\ r[1] # "fd"
  BY <1>1, <1>3 DEF IsSaved
<1>8. \A r : IsFrame(r)' <=> IsFrame(r)
  BY DEF IsFrame, R
<1>9. Tidy'
  <2>1. misfreed' = FALSE
    BY <1>1, <1>2, <1>4
  <2>2. \A r \in live' : r \in Kinds \X Labels \X Nat \/ IsSaved(r) \/ IsFrame(r)'
    BY <1>1, <1>2, <1>7, <1>8
  <2>3. ASSUME NEW r \in live'
        PROVE  /\ r[3] <= conn /\ (r[3] = 0 <=> r[1] = "fd") /\ (r[1] = "fd" => r = Fd)
               /\ r[3] \in 1 .. conn - 1 => Left(r)
    <3>1. CASE r \in live
      BY <1>1, <3>1
    <3>2. CASE r \in made
      BY <1>1, <1>7, <3>2
    <3> QED
      BY <1>2, <3>1, <3>2
  <2> QED
    BY <2>1, <2>2, <2>3 DEF Tidy, Left, Fd, IsSaved
<1>10. ASSUME NEW k \in Kinds, NEW x \in Labels
      PROVE  R(k, x) \in live' <=> Remains(made, released, k, x)
  BY <1>1, <1>2 DEF Remains
<1>11. ASSUME NEW r \in live', r[3] = conn
       PROVE  \/ r = R("crtc", "saved") \/ IsFrame(r)
              \/ \E k \in Kinds, x \in Labels : r = R(k, x)
  <2>1. r \in Kinds \X Labels \X Nat \/ IsSaved(r) \/ IsFrame(r)
    BY <1>1, <1>2, <1>7
  <2>2. CASE r \in Kinds \X Labels \X Nat
    BY <1>11, <2>2 DEF R
  <2>3. CASE IsSaved(r)
    BY <1>11, <2>3 DEF R, IsSaved
  <2> QED
    BY <2>1, <2>2, <2>3
<1> QED
  BY <1>1, <1>6, <1>9, <1>10, <1>11

\* A step that goes on with the output keeps the invariant if what it makes and
\* releases is what is expected after it.
LEMMA GoesOn ==
  ASSUME LiveInv, conn \in Nat, pc \in Known \ {"end"}, conn' = conn, groups' = groups,
         NEW made, NEW released, Holds(made, released), Made(made), Had(made, released),
         pc' \in Known \ {"end"},
         \A k \in Kinds, x \in Labels : Expected(k, x)' <=> Remains(made, released, k, x)
  PROVE  LiveInv'
<1>1. /\ Tidy' /\ Fd \in live' /\ conn >= 1
      /\ \A k \in Kinds, x \in Labels : R(k, x) \in live' <=> Remains(made, released, k, x)
  BY StepHolds
<1>2. pc' \notin Searching \cup {"unmade", "end"}
  BY DEF Known, Searching, AfterMode, AfterCrtc, AfterObjects, AfterBuffers, AfterRequests,
    AfterWriteback, Running, Leaving
<1>3. \A k \in Kinds, x \in Labels : R(k, x)' \in live' <=> Expected(k, x)'
  BY <1>1 DEF R
<1> QED
  BY <1>1, <1>2, <1>3 DEF LiveInv, Tidy, Fd, Searching

\* A step that gives the output up.
LEMMA GivesUp ==
  ASSUME LiveInv, conn \in Nat, pc \in Known \ {"end"}, conn' = conn, groups = 0, groups' = 0,
         NEW made, NEW released, Holds(made, released), Made(made), Had(made, released),
         pc' = "connector",
         \A k \in Kinds, x \in Labels : Remains(made, released, k, x) => Left(R(k, x))
  PROVE  LiveInv'
<1>1. /\ Tidy' /\ Fd \in live' /\ conn >= 1
      /\ \A k \in Kinds, x \in Labels : R(k, x) \in live' <=> Remains(made, released, k, x)
      /\ \A r \in live' : r[3] = conn => \/ r = R("crtc", "saved") \/ IsFrame(r)
                                        \/ \E k \in Kinds, x \in Labels : r = R(k, x)
  BY StepHolds
<1>2. pc' \notin Known \cup {"unmade", "end"}
  BY DEF Known, Searching, AfterMode, AfterCrtc, AfterObjects, AfterBuffers, AfterRequests,
    AfterWriteback, Running, Leaving
<1>3. \A r \in live' : r[3] = conn => Left(r)
  <2>1. Left(R("crtc", "saved"))
    BY DEF Left, R
  <2>2. \A r : ~IsFrame(r)
    BY DEF IsFrame
  <2> QED
    BY <1>1, <2>1, <2>2
<1> QED
  BY <1>1, <1>2, <1>3 DEF LiveInv, Tidy, Fd, Left

\* A step that leaves what is held alone.
LEMMA Stays ==
  ASSUME LiveInv, conn \in Nat, pc \in Known \ {"end"}, UNCHANGED <<conn, live, misfreed, groups>>,
         pc' \in Known \ {"end"}, \A k \in Kinds, x \in Labels : Expected(k, x)' <=> Expected(k, x)
  PROVE  LiveInv'
<1>1. Holds({}, {}) /\ Made({}) /\ Had({}, {})
  BY DEF Holds, Made, Had, LiveInv
<1>2. \A k \in Kinds, x \in Labels : Expected(k, x)' <=> Remains({}, {}, k, x)
  BY DEF Remains
<1> QED
  BY <1>1, <1>2, GoesOn

-----------------------------------------------------------------------------
(* The actions, and what is held *)

USE DEF Known, AfterMode, AfterCrtc, AfterObjects, AfterBuffers, AfterRequests, AfterWriteback,
  Running, Leaving

\* The mode of an output.
LEMMA CreateLive == ASSUME DrmInv, modeset_output_create PROVE LiveInv'
<1>1. LiveInv /\ conn \in Nat /\ pc = "output" /\ conn' = conn /\ groups = 0 /\ groups' = 0
  BY DEF DrmInv, ControlInv, FlagInv, GroupInv, BeforeOsd, Pcs, decoder, modeset_output_create, At
<1>2. \/ pc' = "connector" /\ Holds({}, {})
      \/ pc' = "crtc" /\ Holds({R("blob", "mode")}, {})
  BY DEF modeset_output_create, Goto
<1>3. \A k \in Kinds, x \in Labels : ~Expected(k, x)
  BY <1>1 DEF Expected
<1>4. CASE pc' = "connector" /\ Holds({}, {})
  BY <1>1, <1>3, <1>4, GivesUp DEF Made, Had, Remains
<1>5. CASE pc' = "crtc" /\ Holds({R("blob", "mode")}, {})
  <2>1. Made({R("blob", "mode")}) /\ Had({R("blob", "mode")}, {})
    BY DEF Made, Had, Kinds, Labels
  <2>2. \A k \in Kinds, x \in Labels : Expected(k, x)' <=> k = "blob" /\ x = "mode"
    BY <1>5 DEF Expected
  <2>3. \A k \in Kinds, x \in Labels :
          Remains({R("blob", "mode")}, {}, k, x) <=> k = "blob" /\ x = "mode"
    BY <1>3 DEF Remains, R
  <2> QED
    BY <1>1, <1>5, <2>1, <2>2, <2>3, GoesOn
<1> QED
  BY <1>2, <1>4, <1>5

\* The CRTC of an output, which is saved.
LEMMA CrtcLive == ASSUME DrmInv, modeset_find_crtc PROVE LiveInv'
<1>1. LiveInv /\ conn \in Nat /\ pc = "crtc" /\ conn' = conn /\ groups = 0 /\ groups' = 0
  BY DEF DrmInv, ControlInv, FlagInv, GroupInv, BeforeOsd, Pcs, decoder, modeset_find_crtc, At
<1>2. \/ pc' = "connector" /\ Holds({}, OutBlob)
      \/ pc' = "planes" /\ Holds({R("crtc", "saved")}, {})
      \/ pc' = "planes" /\ Holds({}, {})
  BY DEF modeset_find_crtc, Goto
<1>3. \A k \in Kinds, x \in Labels : Expected(k, x) <=> k = "blob" /\ x = "mode"
  BY <1>1 DEF Expected
<1>4. CASE pc' = "connector" /\ Holds({}, OutBlob)
  <2>1. Made({}) /\ Had({}, OutBlob)
    BY <1>3 DEF Made, Had, OutBlob, Kinds, Labels
  <2>2. \A k \in Kinds, x \in Labels : ~Remains({}, OutBlob, k, x)
    BY <1>3 DEF Remains, OutBlob
  <2> QED
    BY <1>1, <1>4, <2>1, <2>2, GivesUp
<1>5. ASSUME NEW made, made \subseteq {R("crtc", "saved")}, pc' = "planes", Holds(made, {})
      PROVE  LiveInv'
  <2>1. Made(made) /\ Had(made, {})
    BY <1>5 DEF Made, Had
  <2>2. \A k \in Kinds, x \in Labels : Expected(k, x)' <=> k = "blob" /\ x = "mode"
    BY <1>5 DEF Expected
  <2>3. "crtc" \notin Kinds
    BY DEF Kinds, Four
  <2>4. \A k \in Kinds, x \in Labels : R(k, x) \notin made
    BY <1>5, <2>3 DEF R
  <2>5. \A k \in Kinds, x \in Labels : Remains(made, {}, k, x) <=> k = "blob" /\ x = "mode"
    BY <1>3, <2>4 DEF Remains
  <2> QED
    BY <1>1, <1>5, <2>1, <2>2, <2>5, GoesOn
<1> QED
  BY <1>2, <1>4, <1>5

\* The planes of an output.
LEMMA PlanesLive == ASSUME DrmInv, FindPlanes PROVE LiveInv'
<1>1. LiveInv /\ conn \in Nat /\ pc = "planes" /\ conn' = conn /\ groups = 0 /\ groups' = 0
  BY DEF DrmInv, ControlInv, FlagInv, GroupInv, BeforeOsd, Pcs, decoder, FindPlanes, At
<1>2. \/ pc' = "connector" /\ Holds({}, OutBlob)
      \/ pc' = "objects" /\ Holds({}, {})
  BY DEF FindPlanes, Goto
<1>3. \A k \in Kinds, x \in Labels :
        Expected(k, x) <=> (k = "blob" /\ x = "mode")
  BY <1>1 DEF Expected
<1>4. CASE pc' = "connector" /\ Holds({}, OutBlob)
  <2>1. Made({}) /\ Had({}, OutBlob)
    BY <1>3 DEF Made, Had, OutBlob, Kinds, Labels
  <2>2. \A k \in Kinds, x \in Labels : Remains({}, OutBlob, k, x) => Left(R(k, x))
    BY <1>3 DEF Remains, OutBlob, Left, R
  <2> QED
    BY <1>1, <1>4, <2>1, <2>2, GivesUp
<1>5. CASE pc' = "objects" /\ Holds({}, {})
  <2>1. \A k \in Kinds, x \in Labels : Expected(k, x)' <=> Expected(k, x)
    BY <1>1, <1>5 DEF Expected
  <2> QED
    BY <1>1, <1>5, <2>1, GoesOn DEF Made, Had, Remains
<1> QED
  BY <1>2, <1>4, <1>5

\* The properties of an output's objects.  What was got of the connector and
\* the CRTC is given back when the next ones cannot be had.
LEMMA ObjectsLive == ASSUME DrmInv, SetupObjects PROVE LiveInv'
<1> DEFINE order == <<"connector", "crtc", "video_plane", "osd_plane">>
           Got(k) == {R("props", order[j]) : j \in 1 .. k}
           Released(k) == Got(Min({k, 2}))
<1>1. LiveInv /\ conn \in Nat /\ pc = "objects" /\ conn' = conn /\ groups = 0 /\ groups' = 0
  BY DEF DrmInv, ControlInv, FlagInv, GroupInv, BeforeOsd, Pcs, decoder, SetupObjects, At
<1>2. \/ pc' = "fb" /\ n' = 1 /\ Holds(Got(4), {})
      \/ \E k \in 0 .. 3 : pc' = "connector" /\ Holds(Got(k), Released(k) \cup OutBlob)
  BY DEF SetupObjects, Goto
<1>3. \A k \in Kinds, x \in Labels :
        Expected(k, x) <=> (k = "blob" /\ x = "mode")
  BY <1>1 DEF Expected
<1>4. \A k \in 0 .. 4, y \in Kinds, x \in Labels :
        R(y, x) \in Got(k) <=> /\ y = "props"
                               /\ \/ (x = "connector" /\ k >= 1) \/ (x = "crtc" /\ k >= 2)
                                  \/ (x = "video_plane" /\ k >= 3) \/ (x = "osd_plane" /\ k >= 4)
  <2>1. /\ Got(0) = {} /\ Got(1) = {R("props", "connector")}
        /\ Got(2) = {R("props", "connector"), R("props", "crtc")}
        /\ Got(3) = {R("props", "connector"), R("props", "crtc"), R("props", "video_plane")}
        /\ Got(4) = {R("props", "connector"), R("props", "crtc"), R("props", "video_plane"),
                     R("props", "osd_plane")}
    OBVIOUS
  <2> HIDE DEF Got
  <2> SUFFICES ASSUME NEW k \in 0 .. 4, NEW y \in Kinds, NEW x \in Labels
               PROVE  R(y, x) \in Got(k) <=>
                        /\ y = "props"
                        /\ \/ (x = "connector" /\ k >= 1) \/ (x = "crtc" /\ k >= 2)
                           \/ (x = "video_plane" /\ k >= 3) \/ (x = "osd_plane" /\ k >= 4)
    OBVIOUS
  <2>2. \A z : R(y, x) = R("props", z) <=> y = "props" /\ x = z
    BY DEF R
  <2>3. CASE k = 0
    BY <2>1, <2>3
  <2>4. CASE k = 1
    BY <2>1, <2>2, <2>4
  <2>5. CASE k = 2
    BY <2>1, <2>2, <2>5
  <2>6. CASE k = 3
    BY <2>1, <2>2, <2>6
  <2>7. CASE k = 4
    BY <2>1, <2>2, <2>7
  <2> QED
    BY <2>3, <2>4, <2>5, <2>6, <2>7
<1>5. \A k \in 0 .. 4 : \A r \in Got(k) : \E x \in ObjectNames : r = R("props", x)
  <2>1. \A j \in 1 .. 4 : order[j] \in ObjectNames
    BY DEF ObjectNames
  <2> HIDE DEF order
  <2> QED
    BY <2>1
<1> HIDE DEF Got
<1>6. ObjectNames \subseteq Labels /\ "props" \in Kinds \ {"fd"}
  BY DEF Labels, Kinds
<1>7. \A k \in 0 .. 4 : Made(Got(k))
  BY <1>5, <1>6 DEF Made
<1>8. CASE pc' = "fb" /\ n' = 1 /\ Holds(Got(4), {})
  <2>1. \A k \in Kinds, x \in Labels :
          Expected(k, x)' <=> \/ (k = "blob" /\ x = "mode")
                              \/ (k = "props" /\ x \in ObjectNames)
    BY <1>8 DEF Expected
  <2>2. \A k \in Kinds, x \in Labels :
          Remains(Got(4), {}, k, x) <=> \/ (k = "blob" /\ x = "mode")
                                        \/ (k = "props" /\ x \in ObjectNames)
    BY <1>3, <1>4 DEF Remains, ObjectNames
  <2> QED
    BY <1>1, <1>7, <1>8, <2>1, <2>2, GoesOn DEF Had
<1>9. ASSUME NEW k \in 0 .. 3, pc' = "connector", Holds(Got(k), Released(k) \cup OutBlob)
      PROVE  LiveInv'
  <2>1. PICK m \in 0 .. 2 : m = Min({k, 2}) /\ m <= k /\ (m < 2 => m = k)
    <3>1. \E x \in {k, 2} : \A y \in {k, 2} : x <= y
      OBVIOUS
    <3>2. Min({k, 2}) \in {k, 2} /\ \A y \in {k, 2} : Min({k, 2}) <= y
      BY <3>1 DEF Min
    <3> QED
      BY <3>2
  <2>2. Released(k) = Got(m) /\ Got(m) \subseteq Got(k)
    <3>1. Got(m) \subseteq Got(k)
      BY <2>1 DEF Got
    <3> QED
      BY <2>1, <3>1
  <2> HIDE DEF Released
  <2>3. Had(Got(k), Released(k) \cup OutBlob)
    <3>1. ASSUME NEW r \in Got(m)
          PROVE  \E y \in Kinds \ {"fd"}, x \in Labels : r = R(y, x) /\ r \in Got(k)
      BY <1>5, <1>6, <2>2
    <3>2. ASSUME NEW r \in OutBlob
          PROVE  \E y \in Kinds \ {"fd"}, x \in Labels : r = R(y, x) /\ Expected(y, x)
      BY <1>3 DEF OutBlob, Kinds, Labels
    <3> QED
      BY <2>2, <3>1, <3>2 DEF Had
  <2>4. \A y \in Kinds, x \in Labels :
          Remains(Got(k), Released(k) \cup OutBlob, y, x) => Left(R(y, x))
    <3>1. ASSUME NEW y \in Kinds, NEW x \in Labels, R(y, x) \in Got(k), R(y, x) \notin Got(m)
          PROVE  x = "video_plane"
      BY <1>4, <2>1, <3>1
    <3>2. R("blob", "mode") \in OutBlob
      BY DEF OutBlob
    <3> QED
      BY <1>3, <2>2, <3>1, <3>2 DEF Remains, Left, R
  <2> QED
    BY <1>1, <1>7, <1>9, <2>3, <2>4, GivesUp
<1> QED
  BY <1>2, <1>8, <1>9

\* The parts of a framebuffer.
LEMMA FbParts ==
  ASSUME NEW x
  PROVE  /\ \A r : r \in Parts(FbKinds, x, 4) <=> \E k \in Four : r = R(k, x)
         /\ \A j \in 0 .. 4 : Parts(FbKinds, x, j) \subseteq Parts(FbKinds, x, 4)
<1>1. /\ FbKinds[1] = "handle" /\ FbKinds[2] = "fb" /\ FbKinds[3] = "map" /\ FbKinds[4] = "prime"
  BY DEF FbKinds
<1>2. Parts(FbKinds, x, 4) = {R(FbKinds[1], x), R(FbKinds[2], x), R(FbKinds[3], x), R(FbKinds[4], x)}
  BY DEF Parts
<1>3. \A r : r \in Parts(FbKinds, x, 4) <=> \E k \in Four : r = R(k, x)
  BY <1>1, <1>2 DEF Four
<1>4. \A j \in 0 .. 4 : Parts(FbKinds, x, j) \subseteq Parts(FbKinds, x, 4)
  BY DEF Parts
<1> QED
  BY <1>3, <1>4

\* The parts of a writeback buffer.
LEMMA WbParts ==
  ASSUME NEW x
  PROVE  /\ \A r : r \in Parts(WbKinds, x, 3) <=> \E k \in Three : r = R(k, x)
         /\ \A j \in 0 .. 3 : Parts(WbKinds, x, j) \subseteq Parts(WbKinds, x, 3)
<1>1. /\ WbKinds[1] = "handle" /\ WbKinds[2] = "fb" /\ WbKinds[3] = "prime"
  BY DEF WbKinds
<1>2. Parts(WbKinds, x, 3) = {R(WbKinds[1], x), R(WbKinds[2], x), R(WbKinds[3], x)}
  BY DEF Parts
<1>3. \A r : r \in Parts(WbKinds, x, 3) <=> \E k \in Three : r = R(k, x)
  BY <1>1, <1>2 DEF Three
<1>4. \A j \in 0 .. 3 : Parts(WbKinds, x, j) \subseteq Parts(WbKinds, x, 3)
  BY DEF Parts
<1> QED
  BY <1>3, <1>4

\* The writeback buffers, the first few of them.
LEMMA WbMember ==
  ASSUME NEW count
  PROVE  /\ \A r : r \in WbBufs(count) <=> \E i \in 1 .. count, k \in Three : r = R(k, wb_bufs[i])
         /\ \A k, x : R(k, x) \in WbBufs(count) <=> k \in Three /\ IsWbBuf(x, count)
<1>1. \A r : r \in WbBufs(count) <=> \E i \in 1 .. count : r \in Parts(WbKinds, wb_bufs[i], 3)
  BY DEF WbBufs, modeset_destroy_wb_fb
<1>2. \A r : r \in WbBufs(count) <=> \E i \in 1 .. count, k \in Three : r = R(k, wb_bufs[i])
  BY <1>1, WbParts
<1>3. \A k, x : R(k, x) \in WbBufs(count) <=> k \in Three /\ IsWbBuf(x, count)
  BY <1>2 DEF R, IsWbBuf
<1> QED
  BY <1>2, <1>3

\* An OSD buffer of an output.
LEMMA FramebuffersLive == ASSUME DrmInv, SetupFramebuffers PROVE LiveInv'
<1>1. /\ LiveInv /\ conn \in Nat /\ pc = "fb" /\ conn' = conn /\ n \in {1, 2}
      /\ groups = 0 /\ groups' = 0
  BY DEF DrmInv, ControlInv, FlagInv, GroupInv, BeforeOsd, Pcs, decoder, SetupFramebuffers, At
<1> DEFINE x == OsdBuf(n)
           P(k) == Parts(FbKinds, x, k)
<1>2. \/ Holds(P(4), {}) /\ (IF n = 2 THEN pc' = "requests" /\ n' = 0 ELSE n' = n + 1 /\ pc' = pc)
      \/ pc' = "unmade" /\ \E k \in 0 .. 3 : Holds(P(k), P(k))
  BY DEF SetupFramebuffers, Goto, modeset_create_fb, Undone, FbKinds
<1>3. \A k \in Kinds, y \in Labels :
        Expected(k, y) <=> \/ (k = "blob" /\ y = "mode")
                           \/ (k = "props" /\ y \in ObjectNames)
                           \/ (k \in Four /\ y = "osd1" /\ n = 2)
  BY <1>1 DEF Expected
<1>4. (n = 1 => x = "osd1") /\ (n = 2 => x = "osd2") /\ x \in Labels
  BY <1>1 DEF OsdBuf, Labels
<1>5. /\ \A r : r \in P(4) <=> \E k \in Four : r = R(k, x)
      /\ \A k \in 0 .. 4 : P(k) \subseteq P(4)
  BY FbParts
<1> HIDE DEF P, x
<1>6. Four \subseteq Kinds \ {"fd"}
  BY DEF Four, Kinds
<1>7. \A k \in 0 .. 4 : Made(P(k))
  BY <1>4, <1>5, <1>6 DEF Made
<1>8. CASE Holds(P(4), {}) /\ (IF n = 2 THEN pc' = "requests" /\ n' = 0 ELSE n' = n + 1 /\ pc' = pc)
  <2>1. (n = 1 => pc' = "fb" /\ n' = 2) /\ (n = 2 => pc' = "requests") /\ pc' \in Known \ {"end"}
    <3>1. n = 1 => pc' = "fb" /\ n' = 2
      BY <1>1, <1>8
    <3>2. n = 2 => pc' = "requests"
      BY <1>8
    <3> QED
      BY <1>1, <3>1, <3>2
  <2>2. \A k \in Kinds, y \in Labels :
          Expected(k, y)' <=> \/ (k = "blob" /\ y = "mode")
                              \/ (k = "props" /\ y \in ObjectNames)
                              \/ (k \in Four /\ y = "osd1") \/ (k \in Four /\ y = "osd2" /\ n = 2)
    <3>1. CASE n = 1
      BY <2>1, <3>1 DEF Expected
    <3>2. CASE n = 2
      BY <2>1, <3>2 DEF Expected
    <3> QED
      BY <1>1, <3>1, <3>2
  <2>3. \A k \in Kinds, y \in Labels : R(k, y) \in P(4) <=> k \in Four /\ y = x
    BY <1>5 DEF R
  <2>4. \A k \in Kinds, y \in Labels :
          Remains(P(4), {}, k, y) <=> Expected(k, y) \/ (k \in Four /\ y = x)
    BY <2>3 DEF Remains
  <2>5. \A k \in Kinds, y \in Labels : Expected(k, y)' <=> Remains(P(4), {}, k, y)
    BY <1>1, <1>3, <1>4, <2>2, <2>4
  <2>6. Had(P(4), {}) /\ Made(P(4))
    BY <1>7 DEF Had
  <2> QED
    BY <1>1, <1>8, <2>1, <2>5, <2>6, GoesOn
<1>9. ASSUME NEW j \in 0 .. 3, pc' = "unmade", Holds(P(j), P(j)) PROVE LiveInv'
  <2>1. Had(P(j), P(j)) /\ Made(P(j))
    BY <1>4, <1>5, <1>6, <1>7 DEF Had
  <2>2. /\ Tidy' /\ Fd \in live' /\ conn >= 1
        /\ \A k \in Kinds, y \in Labels : R(k, y) \in live' <=> Remains(P(j), P(j), k, y)
        /\ \A r \in live' : r[3] = conn => \/ r = R("crtc", "saved") \/ IsFrame(r)
                                          \/ \E k \in Kinds, y \in Labels : r = R(k, y)
    BY <1>1, <1>9, <2>1, StepHolds
  <2>3. \A k \in Kinds, y \in Labels : R(k, y) \in P(j) => k \in Four /\ y = x
    BY <1>5 DEF R
  <2>4. \A r : r \in Objects \cup OutBlob
               <=> r = R("blob", "mode") \/ \E y \in ObjectNames : r = R("props", y)
    BY DEF Objects, OutBlob, ObjectNames
  <2>5. Objects \cup OutBlob \subseteq live'
    <3>1. R("blob", "mode") \in live'
      BY <1>3, <2>2, <2>3 DEF Remains, Kinds, Labels, Four
    <3>2. ASSUME NEW y \in ObjectNames PROVE R("props", y) \in live'
      <4>1. "props" \in Kinds /\ y \in Labels /\ "props" \notin Four
        BY DEF Kinds, Labels, Four
      <4> QED
        BY <1>3, <2>2, <2>3, <4>1 DEF Remains
    <3> QED
      BY <2>4, <3>1, <3>2
  <2>6. \A r \in live' : r[3] = conn => r \in Objects \cup OutBlob \/ Left(r)
    <3>1. ASSUME NEW k \in Kinds, NEW y \in Labels, R(k, y) \in live'
          PROVE  R(k, y) \in Objects \cup OutBlob \/ Left(R(k, y))
      <4>1. Expected(k, y)
        BY <2>2, <3>1 DEF Remains
      <4> QED
        BY <1>3, <2>4, <4>1 DEF Left, R
    <3>2. Left(R("crtc", "saved")) /\ \A r : ~IsFrame(r)
      BY <1>1 DEF Left, R, IsFrame
    <3> QED
      BY <2>2, <3>1, <3>2
  <2>7. (Objects \cup OutBlob)' = Objects \cup OutBlob
    BY <1>1 DEF Objects, OutBlob, R
  <2> QED
    BY <1>1, <1>9, <2>2, <2>5, <2>6, <2>7 DEF LiveInv, Tidy, Fd, Left, Searching
<1> QED
  BY <1>2, <1>8, <1>9

\* What is left of an output whose buffers could not be made.
LEMMA UnmadeLive == ASSUME DrmInv, OutObj PROVE LiveInv'
<1>1. /\ LiveInv /\ conn \in Nat /\ pc = "unmade" /\ conn' = conn /\ pc' = "connector"
      /\ Holds({}, Objects \cup OutBlob) /\ groups = 0 /\ groups' = 0
  BY DEF DrmInv, ControlInv, FlagInv, GroupInv, BeforeOsd, Pcs, decoder, OutObj, At, Goto
<1>2. /\ Objects \cup OutBlob \subseteq live /\ misfreed = FALSE
      /\ \A r \in live : r[3] = conn => r \in Objects \cup OutBlob \/ Left(r)
      /\ Fd \in live /\ conn >= 1
  BY <1>1 DEF LiveInv
<1>3. live' = live \ (Objects \cup OutBlob) /\ misfreed' = FALSE
  BY <1>1, <1>2 DEF Holds
<1>4. Fd \in live'
  BY <1>1, <1>2, <1>3 DEF Fd, Objects, OutBlob, R
<1>5. \A r \in live' : r \in live /\ (r[3] = conn => Left(r))
  BY <1>2, <1>3
<1> QED
  <2>1. \A r : IsFrame(r)' <=> IsFrame(r)
    BY <1>1 DEF IsFrame
  <2> QED
    BY <1>1, <1>3, <1>4, <1>5, <2>1 DEF LiveInv, Left, Fd, IsSaved

\* The requests of an output.
LEMMA RequestsLive == ASSUME DrmInv, Requests PROVE LiveInv'
<1> DEFINE made == {R("request", "video"), R("request", "osd")}
<1>1. /\ LiveInv /\ conn \in Nat /\ pc = "requests" /\ conn' = conn /\ pc' \in {"writeback", "osd"}
      /\ Holds(made, {}) /\ ~wb_bufs_ready /\ wb_bufs_ready' = wb_bufs_ready
      /\ ~wb_available /\ wb_available' = wb_available /\ groups = 0 /\ groups' = 0
  BY DEF DrmInv, ControlInv, FlagInv, GroupInv, Requests, At, Goto, BeforeOsd, Pcs, writeback, decoder
<1>2. Made(made) /\ Had(made, {})
  BY DEF Made, Had, Kinds, Labels
<1>3. \A x : ~IsWbBuf(x, 0)
  BY DEF IsWbBuf
<1>4. WbMade' = 0
  BY <1>1 DEF WbMade
<1>5. \A k \in Kinds, x \in Labels :
        Expected(k, x)' <=> Expected(k, x) \/ (k = "request" /\ x \in {"video", "osd"})
  <2>1. CASE pc' = "writeback"
    BY <1>1, <1>3, <1>4, <2>1 DEF Expected
  <2>2. CASE pc' = "osd"
    BY <1>1, <1>3, <1>4, <2>2 DEF Expected
  <2> QED
    BY <1>1, <2>1, <2>2
<1>6. \A k \in Kinds, x \in Labels :
        Remains(made, {}, k, x) <=> Expected(k, x) \/ (k = "request" /\ x \in {"video", "osd"})
  BY DEF Remains, R
<1> QED
  BY <1>1, <1>2, <1>5, <1>6, GoesOn

\* The writeback connector.
LEMMA FindWritebackLive == ASSUME DrmInv, modeset_find_writeback PROVE LiveInv'
<1> DEFINE wb == {R("props", "wb_connector")}
<1>1. /\ LiveInv /\ conn \in Nat /\ pc = "writeback" /\ conn' = conn
      /\ ~wb_bufs_ready /\ wb_bufs_ready' = wb_bufs_ready
      /\ ~wb_available /\ groups = 0 /\ groups' = 0
  BY DEF DrmInv, ControlInv, FlagInv, GroupInv, modeset_find_writeback, At, BeforeOsd, Pcs, decoder
<1>2. \/ pc' = "wb_fb" /\ n' = 1 /\ wb_available' = TRUE /\ Holds(wb, {})
      \/ pc' = "osd" /\ wb_available' = wb_available /\ Holds(wb, wb)
      \/ pc' = "osd" /\ wb_available' = wb_available /\ Holds({}, {})
  BY DEF modeset_find_writeback, Goto
<1>3. Made(wb) /\ Had(wb, {}) /\ Had(wb, wb) /\ Made({}) /\ Had({}, {})
  BY DEF Made, Had, Kinds, Labels
<1>4. \A x : ~IsWbBuf(x, 0)
  BY DEF IsWbBuf
<1>5. WbMade = 0 /\ WbMade' = 0
  BY <1>1, <1>2 DEF WbMade
<1>6. CASE pc' = "wb_fb" /\ wb_available' = TRUE /\ Holds(wb, {})
  <2>1. \A k \in Kinds, x \in Labels :
          Expected(k, x)' <=> Expected(k, x) \/ (k = "props" /\ x = "wb_connector")
    BY <1>1, <1>4, <1>5, <1>6 DEF Expected
  <2>2. \A k \in Kinds, x \in Labels :
          Remains(wb, {}, k, x) <=> Expected(k, x) \/ (k = "props" /\ x = "wb_connector")
    BY DEF Remains, R
  <2> QED
    BY <1>1, <1>3, <1>6, <2>1, <2>2, GoesOn
<1>7. CASE pc' = "osd" /\ wb_available' = wb_available /\ (Holds(wb, wb) \/ Holds({}, {}))
  <2>1. \A k \in Kinds, x \in Labels : Expected(k, x)' <=> Expected(k, x)
    BY <1>1, <1>4, <1>5, <1>7 DEF Expected
  <2>2. ~Expected("props", "wb_connector")
    BY <1>1 DEF Expected, ObjectNames, Four, Three
  <2>3. \A k \in Kinds, x \in Labels :
          (Remains(wb, wb, k, x) <=> Expected(k, x)) /\ (Remains({}, {}, k, x) <=> Expected(k, x))
    BY <2>2 DEF Remains, R
  <2> QED
    BY <1>1, <1>3, <1>7, <2>1, <2>3, GoesOn
<1> QED
  BY <1>2, <1>6, <1>7

\* Where the names of the writeback buffers are.
LEMMA WbLabels ==
  /\ WB_BUF_COUNT \in Nat \ {0} /\ Three \subseteq Kinds \ {"fd"}
  /\ \A count \in 0 .. WB_BUF_COUNT : \A x : IsWbBuf(x, count) =>
       x \in Labels /\ x \notin {"osd1", "osd2"} /\ IsWbBuf(x, WB_BUF_COUNT)
  BY DrmAssumption DEF Labels, WB_BUF_COUNT, Three, Kinds, Four, IsWbBuf

\* A writeback buffer; if it cannot be made the ones before it go too.
LEMMA CreateWbLive == ASSUME DrmInv, modeset_create_wb_fb PROVE LiveInv'
<1> DEFINE P(k) == Parts(WbKinds, wb_bufs[n], k)
<1>1. /\ LiveInv /\ conn \in Nat /\ pc = "wb_fb" /\ conn' = conn /\ n \in 1 .. WB_BUF_COUNT
      /\ ~wb_bufs_ready /\ wb_bufs_ready' = wb_bufs_ready /\ wb_available' = wb_available
      /\ groups = 0 /\ groups' = 0
  BY DEF DrmInv, ControlInv, FlagInv, GroupInv, modeset_create_wb_fb, At, BeforeOsd, Pcs, writeback, decoder
<1>2. \/ /\ Holds(P(3), {})
         /\ IF n = WB_BUF_COUNT THEN pc' = "attach" /\ n' = 0 ELSE n' = n + 1 /\ pc' = pc
      \/ pc' = "osd" /\ \E k \in 0 .. 2 : Holds(P(k), P(k) \cup WbBufs(n - 1))
  BY DEF modeset_create_wb_fb, modeset_create_fb, Goto, Undone, WbKinds
<1>3. WB_BUF_COUNT \in Nat \ {0} /\ n \in Nat /\ n - 1 \in 0 .. WB_BUF_COUNT /\ n \in 0 .. WB_BUF_COUNT
  BY <1>1, WbLabels
<1>4. /\ \A r : r \in P(3) <=> \E k \in Three : r = R(k, wb_bufs[n])
      /\ \A j \in 0 .. 3 : P(j) \subseteq P(3)
  BY WbParts
<1>5. IsWbBuf(wb_bufs[n], n) /\ \A x : IsWbBuf(x, n) <=> IsWbBuf(x, n - 1) \/ x = wb_bufs[n]
  BY <1>1, <1>3 DEF IsWbBuf
<1>6. wb_bufs[n] \in Labels
  BY <1>3, <1>5, WbLabels
<1> HIDE DEF P
<1>7. \A j \in 0 .. 3 : Made(P(j))
  BY <1>4, <1>6, WbLabels DEF Made
<1>8. WbMade = n - 1
  BY <1>1 DEF WbMade
<1>9. CASE /\ Holds(P(3), {})
           /\ IF n = WB_BUF_COUNT THEN pc' = "attach" /\ n' = 0 ELSE n' = n + 1 /\ pc' = pc
  <2>1. pc' \in {"attach", "wb_fb"} /\ WbMade' = n
    <3>1. CASE n = WB_BUF_COUNT
      BY <1>9, <3>1 DEF WbMade
    <3>2. CASE n # WB_BUF_COUNT
      BY <1>1, <1>3, <1>9, <3>2 DEF WbMade
    <3> QED
      BY <3>1, <3>2
  <2>2. \A k \in Kinds, x \in Labels :
          Expected(k, x)' <=> Expected(k, x) \/ (k \in Three /\ x = wb_bufs[n])
    <3>1. CASE pc' = "attach"
      BY <1>1, <1>5, <1>8, <2>1, <3>1 DEF Expected
    <3>2. CASE pc' = "wb_fb"
      BY <1>1, <1>5, <1>8, <2>1, <3>2 DEF Expected
    <3> QED
      BY <2>1, <3>1, <3>2
  <2>3. \A k \in Kinds, x \in Labels : R(k, x) \in P(3) <=> k \in Three /\ x = wb_bufs[n]
    BY <1>4 DEF R
  <2>4. \A k \in Kinds, x \in Labels : Expected(k, x)' <=> Remains(P(3), {}, k, x)
    BY <2>2, <2>3 DEF Remains
  <2>5. Made(P(3)) /\ Had(P(3), {})
    BY <1>7 DEF Had
  <2> QED
    BY <1>1, <1>9, <2>1, <2>4, <2>5, GoesOn
<1>10. ASSUME NEW j \in 0 .. 2, pc' = "osd", Holds(P(j), P(j) \cup WbBufs(n - 1)) PROVE LiveInv'
  <2> DEFINE released == P(j) \cup WbBufs(n - 1)
  <2>1. /\ \A k, x : R(k, x) \in WbBufs(n - 1) <=> k \in Three /\ IsWbBuf(x, n - 1)
        /\ \A r \in WbBufs(n - 1) : \E i \in 1 .. n - 1, k \in Three : r = R(k, wb_bufs[i])
    BY WbMember
  <2>2. \A k \in Three, x \in Labels : IsWbBuf(x, n - 1) => Expected(k, x)
    BY <1>1, <1>8 DEF Expected
  <2>3. Had(P(j), released)
    <3>1. ASSUME NEW r \in WbBufs(n - 1)
          PROVE  \E k \in Kinds \ {"fd"}, x \in Labels : r = R(k, x) /\ Expected(k, x)
      <4>1. PICK i \in 1 .. n - 1, k \in Three : r = R(k, wb_bufs[i])
        BY <2>1
      <4>2. IsWbBuf(wb_bufs[i], n - 1)
        BY DEF IsWbBuf
      <4> QED
        BY <1>3, <2>2, <4>1, <4>2, WbLabels
    <3>2. ASSUME NEW r \in P(j)
          PROVE  \E k \in Kinds \ {"fd"}, x \in Labels : r = R(k, x) /\ r \in P(j)
      BY <1>4, <1>6, WbLabels
    <3> QED
      BY <3>1, <3>2 DEF Had
  <2>4. WbMade' = 0 /\ \A x : ~IsWbBuf(x, 0)
    BY <1>1, <1>10 DEF WbMade, IsWbBuf
  <2>5. ASSUME NEW k \in Kinds, NEW x \in Labels
        PROVE  Expected(k, x)' <=> Expected(k, x) /\ ~(k \in Three /\ IsWbBuf(x, n - 1))
    <3>1. CASE IsWbBuf(x, n - 1) /\ k \in Three
      <4>1. x \notin {"osd1", "osd2"}
        BY <1>3, <3>1, WbLabels
      <4> QED
        BY <1>1, <1>10, <2>4, <3>1, <4>1 DEF Expected, Three
    <3>2. CASE ~(IsWbBuf(x, n - 1) /\ k \in Three)
      BY <1>1, <1>8, <1>10, <2>4, <3>2 DEF Expected
    <3> QED
      BY <3>1, <3>2
  <2>6. ASSUME NEW k \in Kinds, NEW x \in Labels
        PROVE  Remains(P(j), released, k, x) <=> Expected(k, x) /\ ~(k \in Three /\ IsWbBuf(x, n - 1))
    <3>1. R(k, x) \in P(j) => k \in Three /\ x = wb_bufs[n]
      BY <1>4 DEF R
    <3>2. k \in Three /\ x = wb_bufs[n] /\ Expected(k, x) => IsWbBuf(x, n - 1)
      <4>1. x = wb_bufs[n] => x \notin {"osd1", "osd2"}
        BY <1>3, <1>5, WbLabels
      <4> QED
        BY <1>1, <1>8, <4>1 DEF Expected, Three
    <3> QED
      BY <2>1, <3>1, <3>2 DEF Remains
  <2>7. Made(P(j)) /\ groups' = groups
    BY <1>1, <1>7
  <2>8. \A k \in Kinds, x \in Labels : Expected(k, x)' <=> Remains(P(j), released, k, x)
    BY <2>5, <2>6
  <2> HIDE DEF released
  <2>9. Holds(P(j), released)
    BY <1>10 DEF released
  <2> QED
    BY <1>1, <1>10, <2>3, <2>7, <2>8, <2>9, GoesOn
<1> QED
  BY <1>2, <1>9, <1>10

\* All the writeback buffers are released together.
LEMMA DropsWb ==
  ASSUME LiveInv, conn \in Nat, pc \in {"attach", "check", "cleanup"}, pc' \in {"osd", "restore"},
         WbMade = WB_BUF_COUNT, WbMade' = 0, conn' = conn, wb_available' = wb_available,
         groups' = groups, Holds({}, WbBufs(WB_BUF_COUNT))
  PROVE  LiveInv'
<1>1. /\ \A k, x : R(k, x) \in WbBufs(WB_BUF_COUNT) <=> k \in Three /\ IsWbBuf(x, WB_BUF_COUNT)
      /\ \A r \in WbBufs(WB_BUF_COUNT) :
           \E i \in 1 .. WB_BUF_COUNT, k \in Three : r = R(k, wb_bufs[i])
  BY WbMember
<1>2. /\ WB_BUF_COUNT \in 0 .. WB_BUF_COUNT /\ Three \subseteq Kinds \ {"fd"} /\ \A x : ~IsWbBuf(x, 0)
      /\ \A x : IsWbBuf(x, WB_BUF_COUNT) => x \in Labels /\ x \notin {"osd1", "osd2"}
  BY WbLabels DEF IsWbBuf
<1>3. \A k \in Three, x \in Labels : IsWbBuf(x, WB_BUF_COUNT) => Expected(k, x)
  BY DEF Expected
<1>4. Had({}, WbBufs(WB_BUF_COUNT)) /\ Made({})
  <2>1. ASSUME NEW r \in WbBufs(WB_BUF_COUNT)
        PROVE  \E k \in Kinds \ {"fd"}, x \in Labels : r = R(k, x) /\ Expected(k, x)
    <3>1. PICK i \in 1 .. WB_BUF_COUNT, k \in Three : r = R(k, wb_bufs[i])
      BY <1>1
    <3>2. IsWbBuf(wb_bufs[i], WB_BUF_COUNT)
      BY DEF IsWbBuf
    <3> QED
      BY <1>2, <1>3, <3>1, <3>2
  <2> QED
    BY <2>1 DEF Had, Made
<1>5. ASSUME NEW k \in Kinds, NEW x \in Labels
      PROVE  Expected(k, x)' <=> Expected(k, x) /\ ~(k \in Three /\ IsWbBuf(x, WB_BUF_COUNT))
  <2>1. CASE IsWbBuf(x, WB_BUF_COUNT) /\ k \in Three
    <3>1. x \notin {"osd1", "osd2"}
      BY <1>2, <2>1
    <3> QED
      BY <1>2, <2>1, <3>1 DEF Expected, Three
  <2>2. CASE ~(IsWbBuf(x, WB_BUF_COUNT) /\ k \in Three)
    BY <1>2, <2>2 DEF Expected
  <2> QED
    BY <2>1, <2>2
<1>6. \A k \in Kinds, x \in Labels :
        Remains({}, WbBufs(WB_BUF_COUNT), k, x)
        <=> Expected(k, x) /\ ~(k \in Three /\ IsWbBuf(x, WB_BUF_COUNT))
  BY <1>1 DEF Remains
<1> QED
  BY <1>4, <1>5, <1>6, GoesOn

\* The writeback connector is attached, or its buffers are released.
LEMMA AttachLive == ASSUME DrmInv, modeset_attach_writeback PROVE LiveInv'
<1>1. /\ LiveInv /\ conn \in Nat /\ pc = "attach" /\ conn' = conn /\ ~wb_bufs_ready
      /\ wb_bufs_ready' = wb_bufs_ready /\ wb_available' = wb_available
      /\ groups' = groups
  BY DEF DrmInv, ControlInv, FlagInv, modeset_attach_writeback, At, BeforeOsd, Pcs, decoder
<1>2. \/ pc' = "check" /\ Holds({}, {})
      \/ pc' = "osd" /\ Holds({}, WbBufs(WB_BUF_COUNT))
  BY DEF modeset_attach_writeback, Goto
<1>3. CASE pc' = "check" /\ Holds({}, {})
  <2>1. WbMade = WB_BUF_COUNT /\ WbMade' = WB_BUF_COUNT
    BY <1>1, <1>3 DEF WbMade, WB_BUF_COUNT
  <2>2. \A k \in Kinds, x \in Labels : Expected(k, x)' <=> Expected(k, x)
    BY <1>1, <1>3, <2>1 DEF Expected
  <2> QED
    BY <1>1, <1>3, <2>2, GoesOn DEF Made, Had, Remains
<1>4. CASE pc' = "osd" /\ Holds({}, WbBufs(WB_BUF_COUNT))
  <2>1. WbMade = WB_BUF_COUNT /\ WbMade' = 0
    BY <1>1, <1>4 DEF WbMade
  <2> QED
    BY <1>1, <1>4, <2>1, DropsWb
<1> QED
  BY <1>2, <1>3, <1>4

\* The tests of the writeback connector.
LEMMA CheckLive == ASSUME DrmInv, CheckFails \/ CheckWorks PROVE LiveInv'
<1>1. /\ LiveInv /\ conn \in Nat /\ pc = "check" /\ pc' = "osd" /\ conn' = conn /\ ~wb_bufs_ready
      /\ wb_available' = wb_available /\ groups = 0 /\ groups' = 0
  BY DEF DrmInv, ControlInv, FlagInv, GroupInv, CheckFails, CheckWorks, At, Goto, BeforeOsd, Pcs, decoder
<1>2. CASE CheckFails
  <2>1. wb_bufs_ready' = wb_bufs_ready /\ Holds({}, WbBufs(WB_BUF_COUNT))
    BY <1>2 DEF CheckFails
  <2>2. WbMade = WB_BUF_COUNT /\ WbMade' = 0
    BY <1>1, <2>1 DEF WbMade
  <2> QED
    BY <1>1, <2>1, <2>2, DropsWb
<1>3. CASE CheckWorks
  <2>1. wb_bufs_ready' = TRUE /\ UNCHANGED <<live, misfreed>>
    BY <1>3 DEF CheckWorks
  <2>2. WbMade = WB_BUF_COUNT /\ WbMade' = WB_BUF_COUNT
    BY <1>1, <2>1 DEF WbMade, WB_BUF_COUNT
  <2>3. \A k \in Kinds, x \in Labels : Expected(k, x)' <=> Expected(k, x)
    BY <1>1, <2>2 DEF Expected
  <2> QED
    BY <1>1, <2>1, <2>3, Stays
<1> QED
  BY <1>2, <1>3

\* A step that aborts the program leaves what is held.
LEMMA Aborts ==
  ASSUME LiveInv, conn \in Nat, UNCHANGED <<conn, live, misfreed, groups>>, pc' = "aborted"
  PROVE  LiveInv'
<1>1. \A r : IsFrame(r)' <=> IsFrame(r)
  BY DEF IsFrame, R
<1> QED
  BY <1>1 DEF LiveInv, Fd, Left, Searching, IsSaved

\* A commit of a running program, or of one that leaves.
LEMMA CommitLive ==
  ASSUME LiveInv, conn \in Nat, UNCHANGED <<conn, live, misfreed, wb_available, wb_bufs_ready, groups>>,
         \/ pc \in {"osd"} \cup Running /\ pc' \in Running
         \/ pc \in Leaving /\ pc' \in Leaving
         \/ pc' = "aborted"
  PROVE  LiveInv'
<1>1. CASE pc' = "aborted"
  BY <1>1, Aborts
<1>2. CASE pc' # "aborted"
  <2>1. pc \notin {"wb_fb", "attach", "check"} /\ pc' \notin {"wb_fb", "attach", "check"}
    BY <1>2
  <2>2. WbMade' = WbMade
    BY <2>1 DEF WbMade, WB_BUF_COUNT
  <2>3. pc \in AfterWriteback /\ pc' \in AfterWriteback
    BY <1>2
  <2>4. \A k \in Kinds, x \in Labels : Expected(k, x)' <=> Expected(k, x)
    <3>1. \A p \in AfterWriteback : /\ p \in AfterMode /\ p \in AfterCrtc /\ p \in AfterObjects
                                    /\ p \in AfterBuffers /\ p \in AfterRequests
      OBVIOUS
    <3>2. UNCHANGED wb_available
      OBVIOUS
    <3> HIDE DEF Known, AfterMode, AfterCrtc, AfterObjects, AfterBuffers, AfterRequests,
          AfterWriteback, Running, Leaving
    <3> QED
      BY <2>2, <2>3, <3>1, <3>2 DEF Expected
  <2> QED
    BY <2>3, <2>4, Stays
<1> QED
  BY <1>1, <1>2

\* The OSD is shown, the decoder's frames are, and the display is given back.
LEMMA ShownLive ==
  ASSUME DrmInv,
         \/ OsdShown \/ AssertFails \/ Detaches \/ RetriesModeset \/ HandOver \/ DisplayFrame
         \/ restore_planes_zpos("osd", "restore", "restore video")
         \/ restore_planes_zpos("video", "restore video", "give back")
  PROVE  LiveInv'
<1>1. LiveInv /\ conn \in Nat
  BY DEF DrmInv, ControlInv, FlagInv
<1>2. CASE OsdShown
  BY <1>1, <1>2, CommitLive DEF OsdShown, At, Goto, decoder
<1>3. CASE AssertFails
  BY <1>1, <1>3, CommitLive DEF AssertFails, At, Goto, decoder, writeback
<1>4. CASE Detaches
  BY <1>1, <1>4, CommitLive DEF Detaches, At, Goto, decoder
<1>5. CASE RetriesModeset
  BY <1>1, <1>5, CommitLive DEF RetriesModeset, At, Goto, decoder
<1>6. CASE HandOver
  BY <1>1, <1>6, CommitLive DEF HandOver, At, writeback
<1>7. CASE DisplayFrame
  BY <1>1, <1>7, CommitLive DEF DisplayFrame, At
<1>8. CASE restore_planes_zpos("osd", "restore", "restore video")
  BY <1>1, <1>8, CommitLive DEF restore_planes_zpos, At, Goto, decoder
<1>9. CASE restore_planes_zpos("video", "restore video", "give back")
  BY <1>1, <1>9, CommitLive DEF restore_planes_zpos, At, Goto, decoder
<1> QED
  BY <1>2, <1>3, <1>4, <1>5, <1>6, <1>7, <1>8, <1>9

\* What is held of a group of the decoder.
LEMMA FrameParts ==
  ASSUME NEW g \in Nat \ {0}
  PROVE  /\ \A r : r \in Frames(g) <=> \E k \in FrameFour : r = R(k, frames[g])
         /\ \A r : r \in Unprimed(g) <=> \E k \in FrameFour \ {"prime"} : r = R(k, frames[g])
<1>1. /\ FrameKinds[1] = "group" /\ FrameKinds[2] = "handle" /\ FrameKinds[3] = "prime"
      /\ FrameKinds[4] = "fb"
  BY DEF FrameKinds
<1>2. Frames(g) = {R(FrameKinds[1], frames[g]), R(FrameKinds[2], frames[g]),
                   R(FrameKinds[3], frames[g]), R(FrameKinds[4], frames[g])}
  BY DEF Frames, Parts
<1>3. \A r : r \in Frames(g) <=> \E k \in FrameFour : r = R(k, frames[g])
  BY <1>1, <1>2 DEF FrameFour
<1>4. \A r : r \in Unprimed(g) <=> r \in Frames(g) /\ r[1] # "prime"
  BY DEF Unprimed
<1> QED
  BY <1>3, <1>4 DEF R

\* All of these belong to frames.
OfFrames(S) == \A r \in S : r[3] = conn /\ r[1] \in FrameFour /\ r[2] \notin Labels

\* What belonged to a frame still does, and so does what is made.
FramesStay(made) == \A r : IsFrame(r) \/ r \in made => IsFrame(r)'

\* What is held of a frame.
LEMMA FrameIs ==
  ASSUME NEW S, NEW m, \A g \in 1 .. m : frames[g] \notin Labels,
         \A r \in S : \E g \in 1 .. m, k \in FrameFour : r = R(k, frames[g])
  PROVE  OfFrames(S)
<1> SUFFICES ASSUME NEW r \in S PROVE r[3] = conn /\ r[1] \in FrameFour /\ r[2] \notin Labels
  BY DEF OfFrames
<1>1. PICK g \in 1 .. m, k \in FrameFour : r = R(k, frames[g])
  OBVIOUS
<1>2. r = <<k, frames[g], conn>>
  BY <1>1 DEF R
<1> QED
  BY <1>1, <1>2

\* Only frames are made and released, and those that are released are held.
LEMMA FramesLive ==
  ASSUME LiveInv, conn \in Nat, conn' = conn, pc \in Running,
         pc' \in Running \cup Leaving \cup {"aborted"},
         UNCHANGED <<wb_available, wb_bufs_ready>>,
         NEW made, NEW released, Holds(made, released), released \subseteq live,
         OfFrames(made), OfFrames(released), FramesStay(made)
  PROVE  LiveInv'
<1>1. /\ misfreed = FALSE /\ conn >= 1 /\ Fd \in live
      /\ \A r \in live : r \in Kinds \X Labels \X Nat \/ IsSaved(r) \/ IsFrame(r)
      /\ \A r \in live : r[3] <= conn /\ (r[3] = 0 <=> r[1] = "fd") /\ (r[1] = "fd" => r = Fd)
      /\ \A r \in live : r[3] \in 1 .. conn - 1 => Left(r)
      /\ \A k \in Kinds, x \in Labels : R(k, x) \in live <=> Expected(k, x)
  BY DEF LiveInv
<1>0. conn <= conn /\ conn # 0 /\ conn \notin 1 .. conn - 1
  <2>1. conn \in Nat /\ conn >= 1
    BY <1>1
  <2> QED
    BY ONLY <2>1
<1>2. /\ \A r : r \in live' <=> (r \in live \/ r \in made) /\ r \notin released
      /\ misfreed' = FALSE
  BY <1>1 DEF Holds
<1>3. \A r : IsFrame(r) => IsFrame(r)'
  BY DEF FramesStay
<1>4. \A r \in made : IsFrame(r)' /\ r[3] = conn /\ r[1] # "fd"
  BY DEF OfFrames, FrameFour, FramesStay
<1>5. \A k \in Kinds, x \in Labels : R(k, x) \notin made /\ R(k, x) \notin released
  BY DEF R, OfFrames
<1>6. Fd \in live'
  <2>1. \A r \in released : r[3] = conn
    BY DEF OfFrames
  <2>2. Fd[3] = 0
    BY DEF Fd
  <2> QED
    BY ONLY <1>0, <1>1, <1>2, <2>1, <2>2
<1>7. Tidy'
  <2>1. \A r \in live' : r \in Kinds \X Labels \X Nat \/ IsSaved(r) \/ IsFrame(r)'
    BY <1>1, <1>2, <1>3, <1>4
  <2>2. ASSUME NEW r \in live'
        PROVE  /\ r[3] <= conn /\ (r[3] = 0 <=> r[1] = "fd") /\ (r[1] = "fd" => r = Fd)
               /\ r[3] \in 1 .. conn - 1 => Left(r)
    <3>1. CASE r \in live
      BY <1>1, <3>1
    <3>2. CASE r \in made
      <4>1. r[3] = conn /\ r[1] # "fd"
        BY <1>4, <3>2
      <4> QED
        BY ONLY <1>0, <4>1
    <3> QED
      BY <1>2, <3>1, <3>2
  <2> QED
    BY <1>2, <2>1, <2>2 DEF Tidy, Left, Fd, IsSaved
<1>8. ASSUME pc' # "aborted"
      PROVE  \A k \in Kinds, x \in Labels : R(k, x)' \in live' <=> Expected(k, x)'
  <2>1. WbMade' = WbMade
    BY <1>8 DEF WbMade, WB_BUF_COUNT
  <2>2. pc \in AfterWriteback /\ pc' \in AfterWriteback
    BY <1>8
  <2>3. \A k \in Kinds, x \in Labels : Expected(k, x)' <=> Expected(k, x)
    <3>1. \A p \in AfterWriteback : /\ p \in AfterMode /\ p \in AfterCrtc /\ p \in AfterObjects
                                    /\ p \in AfterBuffers /\ p \in AfterRequests
      OBVIOUS
    <3>2. UNCHANGED wb_available
      OBVIOUS
    <3> HIDE DEF Known, AfterMode, AfterCrtc, AfterObjects, AfterBuffers, AfterRequests,
          AfterWriteback, Running, Leaving
    <3> QED
      BY <2>1, <2>2, <3>1, <3>2 DEF Expected
  <2>4. \A k \in Kinds, x \in Labels : R(k, x)' = R(k, x)
    BY DEF R
  <2> QED
    BY <1>1, <1>2, <1>5, <2>3, <2>4
<1>9. pc' \notin Searching \cup {"unmade", "end"} /\ (pc' # "aborted" => pc' \in Known)
  BY DEF Searching
<1> QED
  BY <1>1, <1>6, <1>7, <1>8, <1>9 DEF LiveInv, Tidy, Fd, Searching

\* The group of the decoder is one of those made, and it is held.
LEMMA GroupHeld ==
  ASSUME GroupInv
  PROVE  /\ Len(frames) \in Nat /\ groups \in Nat /\ groups <= Len(frames)
         /\ frm_grp \in 0 .. groups /\ Frames(frm_grp) \subseteq live
         /\ \A r \in Frames(frm_grp) : \E g \in 1 .. groups, k \in FrameFour : r = R(k, frames[g])
         /\ \A g \in 1 .. groups : frames[g] \notin Labels
<1>1. Len(frames) \in Nat
  BY FrameLabels
<1>2. groups \in Nat /\ groups <= Len(frames) /\ frm_grp \in 0 .. groups
  <2> DEFINE L == Len(frames)
  <2>1. L \in Nat /\ groups \in 0 .. L /\ frm_grp \in 0 .. groups
    BY <1>1 DEF GroupInv
  <2> HIDE DEF L
  <2>2. groups \in Nat /\ groups <= L /\ frm_grp \in 0 .. groups
    BY <2>1
  <2> QED
    BY <2>2 DEF L
<1>0. \A g \in 1 .. groups : frames[g] \notin Labels
  <2> DEFINE L == Len(frames)
  <2>1. L \in Nat /\ groups \in Nat /\ groups <= L /\ \A g \in 1 .. L : frames[g] \notin Labels
    BY <1>2, FrameLabels
  <2> HIDE DEF L
  <2> QED
    BY <2>1
<1>3. CASE frm_grp = 0
  BY <1>0, <1>1, <1>2, <1>3 DEF Frames
<1>4. CASE frm_grp # 0
  <2>1. frm_grp \in Nat \ {0} /\ frm_grp \in 1 .. groups
    BY <1>2, <1>4
  <2>2. \A r : r \in Frames(frm_grp) <=> \E k \in FrameFour : r = R(k, frames[frm_grp])
    BY <2>1, FrameParts
  <2> QED
    BY <1>0, <1>1, <1>2, <1>4, <2>1, <2>2 DEF GroupInv
<1> QED
  BY <1>3, <1>4

\* A group is made, and the one there was is released; or it is released but
\* for its descriptors.
LEMMA GroupLive == ASSUME DrmInv, init_buffer \/ restart_mpi \/ cleanup_mpi PROVE LiveInv'
<1>1. LiveInv /\ conn \in Nat /\ GroupInv
  BY DEF DrmInv, ControlInv, FlagInv
<1>2. /\ Len(frames) \in Nat /\ groups \in Nat /\ groups <= Len(frames)
      /\ frm_grp \in 0 .. groups /\ Frames(frm_grp) \subseteq live
      /\ \A r \in Frames(frm_grp) : \E g \in 1 .. groups, k \in FrameFour : r = R(k, frames[g])
      /\ \A g \in 1 .. groups : frames[g] \notin Labels
  BY <1>1, GroupHeld
<1>3. CASE init_buffer
  <2>1. /\ pc = "run" /\ pc' \in {"run", "fallback", "aborted"} /\ conn' = conn
        /\ UNCHANGED <<wb_available, wb_bufs_ready>> /\ groups < Len(frames) /\ groups' = groups + 1
        /\ Holds(Frames(groups + 1), Frames(frm_grp))
    BY <1>3 DEF init_buffer, At, Goto
  <2>2. \A r : r \in Frames(groups + 1) <=> \E k \in FrameFour : r = R(k, frames[groups + 1])
    BY <1>2, FrameParts
  <2>3. groups + 1 \in 1 .. groups' /\ 1 .. groups \subseteq 1 .. groups'
    BY <1>2, <2>1
  <2>4. /\ \A r \in Frames(groups + 1) : \E g \in 1 .. groups', k \in FrameFour : r = R(k, frames[g])
        /\ \A r \in Frames(frm_grp) : \E g \in 1 .. groups', k \in FrameFour : r = R(k, frames[g])
    BY <1>2, <2>2, <2>3
  <2>5. \A g \in 1 .. groups' : frames[g] \notin Labels
    <3> DEFINE L == Len(frames)
    <3>1. /\ L \in Nat /\ groups \in Nat /\ groups < L /\ groups' = groups + 1
          /\ \A g \in 1 .. L : frames[g] \notin Labels
      BY <1>2, <2>1, FrameLabels
    <3> HIDE DEF L
    <3> QED
      BY <3>1
  <2>6. pc \in Running /\ pc' \in Running \cup Leaving \cup {"aborted"}
    BY <2>1
  <2> QED
    <3>1. OfFrames(Frames(groups + 1)) /\ OfFrames(Frames(frm_grp))
      BY <2>4, <2>5, FrameIs
    <3>2. FramesStay(Frames(groups + 1))
      BY <2>1, <2>3, <2>4 DEF IsFrame, R, FramesStay
    <3> QED
      BY <1>1, <1>2, <2>1, <2>6, <3>1, <3>2, FramesLive
<1>4. CASE restart_mpi \/ cleanup_mpi
  <2>1. /\ pc = "run" /\ pc' \in {"run", "cleanup"} /\ conn' = conn
        /\ UNCHANGED <<wb_available, wb_bufs_ready>> /\ groups' = groups
        /\ Holds({}, Unprimed(frm_grp))
    BY <1>4 DEF restart_mpi, cleanup_mpi, At, Goto, writeback
  <2>2. Unprimed(frm_grp) \subseteq Frames(frm_grp)
    BY DEF Unprimed
  <2>3. \A r \in Unprimed(frm_grp) : \E g \in 1 .. groups, k \in FrameFour : r = R(k, frames[g])
    BY <1>2, <2>2
  <2>4. pc \in Running /\ pc' \in Running \cup Leaving \cup {"aborted"}
    BY <2>1
  <2>5. Unprimed(frm_grp) \subseteq live /\ OfFrames(Unprimed(frm_grp)) /\ OfFrames({})
    <3>1. Unprimed(frm_grp) \subseteq live
      BY <1>2, <2>2
    <3>2. OfFrames(Unprimed(frm_grp))
      BY <1>2, <2>3, FrameIs
    <3> QED
      BY <3>1, <3>2 DEF OfFrames
  <2>6. FramesStay({})
    BY <2>1 DEF IsFrame, R, FramesStay
  <2> QED
    BY <1>1, <2>1, <2>4, <2>5, <2>6, FramesLive
<1> QED
  BY <1>3, <1>4

\* The writeback buffers go.
LEMMA CleanupWritebackLive == ASSUME DrmInv, cleanup_writeback PROVE LiveInv'
<1>1. /\ LiveInv /\ conn \in Nat /\ pc = "cleanup" /\ pc' = "restore" /\ conn' = conn
      /\ wb_available' = wb_available /\ groups' = groups
      /\ wb_bufs_ready \in BOOLEAN /\ wb_bufs_ready' = FALSE
  BY DEF DrmInv, ControlInv, FlagInv, cleanup_writeback, At, Goto, decoder
<1>2. WbMade' = 0
  BY <1>1 DEF WbMade
<1>3. CASE wb_bufs_ready
  <2>1. Holds({}, WbBufs(WB_BUF_COUNT)) /\ WbMade = WB_BUF_COUNT
    BY <1>1, <1>3 DEF cleanup_writeback, WbMade
  <2> QED
    BY <1>1, <1>2, <2>1, DropsWb
<1>4. CASE ~wb_bufs_ready
  <2>1. UNCHANGED <<live, misfreed>> /\ WbMade = 0
    BY <1>1, <1>4 DEF cleanup_writeback, WbMade
  <2>2. \A k \in Kinds, x \in Labels : Expected(k, x)' <=> Expected(k, x)
    BY <1>1, <1>2, <2>1 DEF Expected
  <2> QED
    BY <1>1, <2>1, <2>2, Stays
<1> QED
  BY <1>3, <1>4

\* Everything else goes at the end.
LEMMA CleanupDrmLive == ASSUME DrmInv, cleanup_drm PROVE LiveInv'
<1> DEFINE osds == UNION {modeset_destroy_fb(b) : b \in OSD_BUFS}
           wb == IF wb_available THEN {R("props", "wb_connector")} ELSE {}
           released == {R("crtc", "saved"), R("request", "video"), R("request", "osd")}
                       \cup modeset_output_destroy \cup {Fd}
<1>1. /\ LiveInv /\ conn \in Nat /\ pc = "give back" /\ conn' = conn /\ groups' = groups /\ ~wb_bufs_ready
      /\ \/ pc' = "end" /\ Holds({}, released) /\ R("crtc", "saved") \in live
         \/ pc' = "aborted" /\ Holds({}, {})
  BY DEF DrmInv, ControlInv, FlagInv, cleanup_drm, At, Goto, Fd, decoder
<1>2. /\ misfreed = FALSE /\ conn >= 1 /\ Fd \in live
      /\ \A r \in live : r \in Kinds \X Labels \X Nat \/ IsSaved(r) \/ IsFrame(r)
      /\ \A r \in live : r[3] <= conn /\ (r[3] = 0 <=> r[1] = "fd") /\ (r[1] = "fd" => r = Fd)
      /\ \A r \in live : r[3] \in 1 .. conn - 1 => Left(r)
      /\ \A k \in Kinds, x \in Labels : R(k, x) \in live <=> Expected(k, x)
  BY <1>1 DEF LiveInv
<1> SUFFICES ASSUME pc' = "end", Holds({}, released), R("crtc", "saved") \in live
             PROVE  LiveInv'
  <2> SUFFICES ASSUME pc' = "aborted", Holds({}, {}) PROVE LiveInv'
    BY <1>1
  <2>1. live' = live /\ misfreed' = misfreed
    BY <1>2 DEF Holds
  <2> QED
    BY <1>1, <2>1, Aborts
<1>3. \A r : r \in osds <=> \E k \in Four, x \in OSD_BUFS : r = R(k, x)
  BY FbParts DEF modeset_destroy_fb
<1>4. \A r : r \in modeset_output_destroy
             <=> r \in Objects \/ r \in wb \/ r \in osds \/ r = R("blob", "mode")
  <2>1. modeset_output_destroy = Objects \cup wb \cup osds \cup OutBlob
    BY Zenon DEF modeset_output_destroy
  <2>2. \A r : r \in OutBlob <=> r = R("blob", "mode")
    BY DEF OutBlob
  <2> HIDE DEF osds, wb
  <2> QED
    BY <2>1, <2>2
<1>5. \A r : r \in Objects <=> \E x \in ObjectNames : r = R("props", x)
  BY DEF Objects, ObjectNames
<1> HIDE DEF osds
<1> HIDE DEF released
<1>6. \A k \in Kinds, x \in Labels :
        Expected(k, x) <=> \/ (k = "blob" /\ x = "mode")
                           \/ (k = "props" /\ x \in ObjectNames) \/ (k \in Four /\ x \in OSD_BUFS)
                           \/ (k = "request" /\ x \in {"video", "osd"})
                           \/ (k = "props" /\ x = "wb_connector" /\ wb_available)
  <2>1. WbMade = 0
    BY <1>1 DEF WbMade
  <2>2. \A x : ~IsWbBuf(x, 0)
    BY DEF IsWbBuf
  <2>3. \A x : x \in OSD_BUFS <=> x = "osd1" \/ x = "osd2"
    BY DEF OSD_BUFS
  <2>4. /\ pc \in AfterMode /\ pc \in AfterCrtc /\ pc \in AfterObjects /\ pc \in AfterBuffers
        /\ pc \in AfterRequests /\ pc \notin Running /\ pc # "fb"
    BY <1>1
  <2> HIDE DEF Known, AfterMode, AfterCrtc, AfterObjects, AfterBuffers, AfterRequests,
        AfterWriteback, Running, Leaving
  <2> QED
    BY <2>1, <2>2, <2>3, <2>4 DEF Expected
<1>7. \A k \in Kinds, x \in Labels : Expected(k, x) => R(k, x) \in released
  BY <1>3, <1>4, <1>5, <1>6 DEF released
<1>8. ASSUME NEW r \in released PROVE r \in live
  <2>1. CASE r \in osds
    <3>1. PICK k \in Four, x \in OSD_BUFS : r = R(k, x)
      BY <1>3, <2>1
    <3>2. k \in Kinds /\ x \in Labels
      BY DEF Kinds, Labels, OSD_BUFS
    <3> QED
      BY <1>2, <1>6, <3>1, <3>2
  <2>2. CASE r \in Objects
    <3>1. PICK x \in ObjectNames : r = R("props", x)
      BY <1>5, <2>2
    <3>2. "props" \in Kinds /\ x \in Labels
      BY DEF Kinds, Labels
    <3> QED
      BY <1>2, <1>6, <3>1, <3>2
  <2>3. CASE r \in wb
    BY <1>2, <1>6, <2>3 DEF Kinds, Labels
  <2>4. CASE r \in {R("request", "video"), R("request", "osd"), R("blob", "mode")}
    BY <1>2, <1>6, <2>4 DEF Kinds, Labels
  <2>5. CASE r \in {Fd, R("crtc", "saved")}
    BY <1>2, <2>5
  <2> QED
    BY <1>4, <2>1, <2>2, <2>3, <2>4, <2>5 DEF released
<1>9. live' = live \ released /\ misfreed' = FALSE
  BY <1>1, <1>2, <1>8 DEF Holds
<1>10. Fd \notin live' /\ R("crtc", "saved") \notin live' /\ R("crtc", "saved")' = R("crtc", "saved")
  BY <1>1, <1>9 DEF released, R
<1>11. \A k \in Kinds, x \in Labels : R(k, x) \notin live'
  BY <1>2, <1>7, <1>9
<1>12. \A k \in Kinds, x \in Labels : R(k, x)' \notin live' /\ ~Expected(k, x)'
  BY <1>1, <1>11 DEF R, Expected
<1>13. \A r \in live' : r \in live
  BY <1>9
<1>14. \A r : IsFrame(r)' <=> IsFrame(r)
  BY <1>1 DEF IsFrame, R
<1> QED
  BY <1>1, <1>2, <1>9, <1>10, <1>12, <1>13, <1>14 DEF LiveInv, Left, Fd, Searching, IsSaved

\* The device, and the search for a connector.
LEMMA SearchLive == ASSUME DrmInv, modeset_open \/ modeset_prepare \/ NextConnector PROVE LiveInv'
<1>1. LiveInv /\ conn \in Nat /\ groups = 0 /\ groups' = 0
  BY DEF DrmInv, ControlInv, FlagInv, GroupInv, BeforeOsd, Pcs, Searching, modeset_open, modeset_prepare,
    NextConnector, At, decoder
<1>0. \A r : ~IsFrame(r) /\ ~IsFrame(r)'
  BY <1>1 DEF IsFrame
<1>2. CASE modeset_open
  <2>1. pc = "open" /\ pc' = "resources" /\ conn = 0 /\ conn' = conn /\ drm_fd = NoFd
    BY <1>2 DEF DrmInv, ControlInv, FlagInv, modeset_open, At, Goto
  <2>2. \/ Holds({Fd}, {})
        \/ drm_fd' = NoFd /\ Holds({}, {})
    BY <1>2, <2>1 DEF modeset_open, Fd
  <2>3. misfreed' = FALSE /\ (live' = live \cup {Fd} \/ (live' = live /\ drm_fd' = NoFd))
    BY <1>1, <2>2 DEF Holds, LiveInv
  <2>4. Fd \in Kinds \X Labels \X Nat /\ Fd[3] = 0 /\ Fd[1] = "fd"
    BY DEF Fd, Kinds, Labels
  <2> QED
    BY <1>0, <1>1, <2>1, <2>3, <2>4 DEF LiveInv, Left, Fd, Searching, IsSaved
<1>3. CASE modeset_prepare
  <2>1. /\ pc = "resources" /\ conn' = conn /\ UNCHANGED <<live, misfreed>> /\ conn = 0
        /\ pc' = "failed" \/ (pc' = "connector" /\ drm_fd # NoFd)
    BY <1>3 DEF DrmInv, ControlInv, FlagInv, modeset_prepare, At, Goto
  <2> QED
    BY <1>0, <1>1, <2>1 DEF LiveInv, Left, Fd, Searching, IsSaved
<1>4. CASE NextConnector
  <2>1. /\ pc = "connector" /\ UNCHANGED <<live, misfreed>>
        /\ \/ pc' = "failed" /\ conn' = conn
           \/ pc' \in {"output", "connector"} /\ conn' = conn + 1
    BY <1>4 DEF NextConnector, At, Goto
  <2>2. CASE pc' = "failed" /\ conn' = conn
    BY <1>0, <1>1, <2>1, <2>2 DEF LiveInv, Left, Fd, Searching, IsSaved
  <2>3. CASE pc' \in {"output", "connector"} /\ conn' = conn + 1
    <3>1. /\ misfreed = FALSE /\ Fd \in live
          /\ \A r \in live : r \in Kinds \X Labels \X Nat \/ IsSaved(r)
          /\ \A r \in live : /\ r[3] \in Nat /\ r[3] <= conn /\ (r[3] = 0 <=> r[1] = "fd")
                             /\ (r[1] = "fd" => r = Fd)
          /\ \A r \in live : r[3] # 0 => Left(r)
      BY <1>0, <1>1, <2>1 DEF LiveInv, Searching, IsSaved
    <3>2. \A r \in live : /\ r[3] <= conn + 1 /\ r[3] # conn + 1
                          /\ (r[3] \in 1 .. (conn + 1) - 1 => Left(r))
      BY <1>1, <3>1
    <3>3. \A k \in Kinds, x \in Labels : R(k, x)' \notin live
      BY <2>3, <3>2 DEF R
    <3>4. pc' = "output" => \A k \in Kinds, x \in Labels : ~Expected(k, x)'
      BY DEF Expected
    <3>5. CASE pc' = "output"
      BY <1>0, <1>1, <2>1, <2>3, <3>1, <3>2, <3>3, <3>4, <3>5 DEF LiveInv, Left, Fd, Searching, IsSaved
    <3>6. CASE pc' = "connector"
      BY <1>0, <1>1, <2>1, <2>3, <3>1, <3>2, <3>6 DEF LiveInv, Left, Fd, Searching, IsSaved
    <3> QED
      BY <2>3, <3>5, <3>6
  <2> QED
    BY <2>1, <2>2, <2>3
<1> QED
  BY <1>2, <1>3, <1>4

-----------------------------------------------------------------------------
(* Commits *)

\* q shows buf on a plane, routes the writeback connector if wb, and is
\* otherwise req.
Adds(q, req, plane, buf, wb) ==
  /\ Attaching(q) /\ (wb => q["wb"] = "crtc")
  /\ \A p \in {"video", "osd", "wb_fb"} : q[p] = IF p = plane THEN buf ELSE req[p]

\* What a request names once a plane and, with writeback on, its connector
\* were added to it.
LEMMA Prepared ==
  ASSUME NEW req, Attaching(req), NEW plane \in {"video", "osd"}, NEW buf, NEW wb
  PROVE  Adds(modeset_atomic_prepare_commit(req, plane, buf, wb), req, plane, buf, wb)
<1> DEFINE q == modeset_atomic_prepare_commit(req, plane, buf, wb)
<1>1. /\ q = [p \in {"video", "osd", "wb", "wb_fb"} |-> q[p]]
      /\ \A p \in {"video", "osd", "wb_fb"} : q[p] = IF p = plane THEN buf ELSE req[p]
      /\ q["wb"] = IF wb THEN "crtc" ELSE req["wb"]
  BY DEF modeset_atomic_prepare_commit, Attaching
<1> HIDE DEF q
<1>2. Attaching(q)
  BY <1>1 DEF Attaching
<1> QED
  BY <1>1, <1>2 DEF Adds, q

\* A new request.
LEMMA Fresh == Attaching(Empty) /\ Lasts(Empty) /\ \A p \in {"video", "osd", "wb_fb"} : Empty[p] = Unset
  BY DEF Attaching, Lasts, Empty, Unset

\* A request names nothing that is gone if what is on its planes and in its
\* writeback job is held.
LEMMA NoneGone ==
  ASSUME NEW req, NEW held,
         \A p \in {"video", "osd", "wb_fb"} : req[p] # Unset => R("fb", req[p]) \in held
  PROVE  Gone(req, held) = {}
<1>1. \A b \in Names(req) : R("fb", b) \in held
  BY DEF Names
<1> QED
  BY <1>1 DEF Gone

\* The request that detaches the writeback connector.
LEMMA DetachNames == Gone(Detached, live) = {} /\ Routes(Detached) = FALSE
<1>1. \A p \in {"video", "osd", "wb_fb"} : Detached[p] = Unset
  BY DEF Detached, Empty
<1>2. Detached["wb"] = "none"
  BY DEF Detached, Empty
<1> QED
  BY <1>1, <1>2, NoneGone DEF Routes, Unset

\* q shows a buffer of the OSD and a frame, if any, and captures to buffer i.
Shows(q, osd, i) ==
  /\ q["video"] = video_fb_id /\ q["osd"] = osd
  /\ q["wb_fb"] = IF i = 0 THEN Unset ELSE wb_bufs[i]
  /\ Attaching(q) /\ q["wb"] = Unset

\* The request of a frame.
LEMMA FrameRequest ==
  ASSUME NEW osd \in OSD_BUFS, NEW i \in 0 .. WB_BUF_COUNT, NEW q,
         q = [Empty EXCEPT !["video"] = video_fb_id, !["osd"] = osd,
                           !["wb_fb"] = IF i = 0 THEN Unset ELSE wb_bufs[i]]
  PROVE  Shows(q, osd, i)
<1>1. /\ q = [p \in {"video", "osd", "wb", "wb_fb"} |-> q[p]]
      /\ q["video"] = video_fb_id /\ q["osd"] = osd
      /\ q["wb_fb"] = (IF i = 0 THEN Unset ELSE wb_bufs[i]) /\ q["wb"] = Unset
  BY DEF Empty
<1> QED
  BY <1>1 DEF Attaching, Shows

\* A commit of buffers that exist is never stale, and one that works routes.
LEMMA Commits ==
  ASSUME NEW req, NEW held, Gone(req, held) = {}, routed \in BOOLEAN
  PROVE  /\ CommitOk(req, held) => stale' = stale /\ routed' = Routes(req) /\ routed' \in BOOLEAN
         /\ CommitFails(req, held) => stale' = stale /\ routed' = routed
<1>1. Routes(req) \in BOOLEAN
  BY DEF Routes
<1>2. CommitOk(req, held) => stale' = stale /\ routed' = Routes(req)
  BY Zenon DEF CommitOk
<1>3. CommitFails(req, held) => stale' = stale /\ routed' = routed
  <2>1. CommitFails(req, held) => stale' = stale \cup Gone(req, held) /\ routed' = routed
    BY Zenon DEF CommitFails
  <2> QED
    BY <2>1
<1> QED
  BY <1>1, <1>2, <1>3

-----------------------------------------------------------------------------
(* The actions, and the flags and requests *)

\* The buffers of the OSD exist as long as the output is used.
LEMMA OsdHeld ==
  ASSUME LiveInv, pc \in AfterBuffers
  PROVE  \A b \in OSD_BUFS : b \in Labels /\ R("fb", b) \in live
<1>1. \A b \in OSD_BUFS : b \in Labels /\ Expected("fb", b)
  BY DEF Expected, OSD_BUFS, Labels, Four
<1>2. "fb" \in Kinds
  BY DEF Kinds, Four
<1> QED
  BY <1>1, <1>2 DEF LiveInv

\* A new request that shows an OSD buffer names nothing that is gone.
LEMMA ShowsOsd ==
  ASSUME LiveInv, pc \in AfterBuffers, NEW plane \in {"video", "osd"}, NEW wb \in BOOLEAN,
         NEW q, q = modeset_atomic_prepare_commit(Empty, plane, "osd1", wb)
  PROVE  Attaching(q) /\ Gone(q, live) = {} /\ (wb => q["wb"] = "crtc")
<1>1. Adds(q, Empty, plane, "osd1", wb)
  BY Fresh, Prepared
<1>2. R("fb", "osd1") \in live
  BY OsdHeld DEF OSD_BUFS
<1>3. \A p \in {"video", "osd", "wb_fb"} : q[p] # Unset => R("fb", q[p]) \in live
  BY <1>1, <1>2, Fresh DEF Adds
<1> QED
  BY <1>1, <1>3, NoneGone DEF Adds

\* Until there is a group a step that shows no frame changes nothing for them.
LEMMA NoGroups ==
  ASSUME DrmInv, pc \in BeforeOsd \cup {"osd"}, UNCHANGED <<decoder, stale>>,
         pc' \notin {"fallback", "retry"}
  PROVE  GroupInv' /\ StaleInv'
<1>1. groups = 0 /\ frm_grp = 0 /\ groups' = 0 /\ frm_grp' = 0
  <2>1. groups = 0 /\ frm_grp \in 0 .. groups
    BY DEF DrmInv, ControlInv, GroupInv
  <2>2. frm_grp = 0
    BY ONLY <2>1
  <2> QED
    BY <2>1, <2>2 DEF decoder
<1>2. video_fb_id' = video_fb_id /\ stale' = stale
  BY DEF decoder
<1>3. GroupInv'
  BY <1>1, FrameLabels DEF GroupInv
<1>4. StaleInv'
  BY <1>1, <1>2 DEF DrmInv, ControlInv, StaleInv
<1> QED
  BY <1>3, <1>4

\* A step that leaves the frames alone.
LEMMA GroupStays ==
  ASSUME DrmInv, UNCHANGED <<conn, decoder, stale>>,
         \A g \in 1 .. groups, k \in FrameFour :
           R(k, frames[g]) \in live' <=> R(k, frames[g]) \in live,
         pc' \notin BeforeOsd \cup {"osd"},
         pc' \in {"fallback", "retry"} => pc \in {"fallback", "retry"},
         pc' \in Leaving \cup {"end"} => pc \in Leaving
  PROVE  GroupInv' /\ StaleInv'
<1>1. UNCHANGED <<groups, frm_grp, video_fb_id, stale>>
  BY DEF decoder
<1>2. GroupInv /\ StaleInv
  BY DEF DrmInv, ControlInv
<1>3. frm_grp # 0 => frm_grp \in 1 .. groups
  <2>1. groups \in Nat /\ frm_grp \in 0 .. groups
    BY <1>2, GroupHeld
  <2> QED
    BY ONLY <2>1
<1>4. \A k, x : R(k, x)' = R(k, x)
  BY DEF R
<1>5. GroupInv'
  BY <1>1, <1>2, <1>3, <1>4 DEF GroupInv
<1>6. StaleInv'
  BY <1>1, <1>2 DEF StaleInv
<1> QED
  BY <1>5, <1>6

\* The steps that set an output up leave the flags and the requests as they
\* were at the start.
LEMMA SetupFlags ==
  ASSUME DrmInv, UNCHANGED <<writeback, requests, stale, decoder>>,
         pc \in BeforeOsd \ {"wb_fb", "attach", "check"},
         pc' \in (BeforeOsd \ {"open", "wb_fb", "attach", "check"}) \cup {"osd"},
         conn' \in Nat, n' \in Nat, pc' = "resources" => conn' = 0, pc' = "fb" => n' \in {1, 2}
  PROVE  ControlInv'
<1>1. /\ wb_bufs_ready = FALSE /\ dvr_wb_mode = FALSE
      /\ wb_enabled = FALSE /\ wb_available = FALSE
      /\ routed \in BOOLEAN /\ osd_request = Empty /\ video_request = Empty
  BY DEF DrmInv, ControlInv, FlagInv, RequestInv, BeforeOsd, Pcs
<1>2. UNCHANGED <<wb_bufs_ready, dvr_wb_mode, wb_enabled, wb_available, routed, stale,
                  osd_request, video_request>>
  BY DEF writeback, requests
<1>3. pc' \in Pcs /\ pc' \notin Running \cup Leaving \cup {"open", "wb_fb", "check", "end"}
  BY DEF BeforeOsd, Pcs, Searching
<1>4. FlagInv'
  BY <1>1, <1>2, <1>3 DEF FlagInv
<1>5. RequestInv'
  BY <1>1, <1>2, <1>3 DEF RequestInv
<1>6. GroupInv' /\ StaleInv'
  BY <1>3, NoGroups
<1> QED
  BY <1>4, <1>5, <1>6 DEF ControlInv

\* The device, the search for a connector and the set-up of an output.
LEMMA OutputFlags ==
  ASSUME DrmInv,
         \/ modeset_open \/ modeset_prepare \/ NextConnector \/ modeset_output_create
         \/ modeset_find_crtc \/ FindPlanes \/ SetupObjects \/ SetupFramebuffers \/ OutObj
         \/ Requests
  PROVE  ControlInv'
<1>1. conn \in Nat /\ n \in Nat /\ (pc \in {"open", "resources"} => conn = 0) /\ (pc = "fb" => n \in {1, 2})
  BY DEF DrmInv, ControlInv, FlagInv
<1>2. CASE modeset_open
  BY <1>1, <1>2, SetupFlags DEF modeset_open, At, Goto, BeforeOsd, Pcs, Searching
<1>3. CASE modeset_prepare
  BY <1>1, <1>3, SetupFlags DEF modeset_prepare, At, Goto, BeforeOsd, Pcs, Searching
<1>4. CASE NextConnector
  <2>1. /\ pc = "connector" /\ pc' \in {"failed", "connector", "output"} /\ n' = n
        /\ conn' = conn \/ conn' = conn + 1
        /\ UNCHANGED <<writeback, requests, stale, decoder>>
    BY <1>4 DEF NextConnector, At, Goto
  <2>2. /\ pc \in BeforeOsd \ {"wb_fb", "attach", "check"}
        /\ pc' \in (BeforeOsd \ {"open", "wb_fb", "attach", "check"}) \cup {"osd"}
        /\ pc' # "resources"
    BY <2>1 DEF BeforeOsd, Pcs, Searching
  <2>3. conn' \in Nat /\ n' \in Nat /\ (pc' = "fb" => n' \in {1, 2})
    BY <1>1, <2>1
  <2> QED
    BY <2>1, <2>2, <2>3, SetupFlags
<1>5. CASE modeset_output_create
  BY <1>1, <1>5, SetupFlags DEF modeset_output_create, At, Goto, BeforeOsd, Pcs, Searching
<1>6. CASE modeset_find_crtc
  BY <1>1, <1>6, SetupFlags DEF modeset_find_crtc, At, Goto, BeforeOsd, Pcs, Searching
<1>7. CASE FindPlanes
  BY <1>1, <1>7, SetupFlags DEF FindPlanes, At, Goto, BeforeOsd, Pcs, Searching
<1>8. CASE SetupObjects
  <2>1. /\ pc = "objects" /\ conn' = conn /\ UNCHANGED <<writeback, requests, stale, decoder>>
        /\ (pc' = "fb" /\ n' = 1) \/ (pc' = "connector" /\ n' = n)
    BY <1>8 DEF SetupObjects, At, Goto
  <2>2. /\ pc \in BeforeOsd \ {"wb_fb", "attach", "check"}
        /\ pc' \in (BeforeOsd \ {"open", "wb_fb", "attach", "check"}) \cup {"osd"}
        /\ pc' # "resources"
    BY <2>1 DEF BeforeOsd, Pcs, Searching
  <2>3. conn' \in Nat /\ n' \in Nat /\ (pc' = "fb" => n' \in {1, 2})
    BY <1>1, <2>1
  <2> QED
    BY <2>1, <2>2, <2>3, SetupFlags
<1>9. CASE SetupFramebuffers
  <2>1. /\ pc = "fb" /\ conn' = conn /\ UNCHANGED <<writeback, requests, stale, decoder>>
        /\ (pc' \in {"requests", "unmade"} /\ n' = 0) \/ (pc' = "fb" /\ n' = n + 1 /\ n # 2)
    BY <1>9 DEF SetupFramebuffers, At, Goto
  <2>2. /\ pc \in BeforeOsd \ {"wb_fb", "attach", "check"}
        /\ pc' \in (BeforeOsd \ {"open", "wb_fb", "attach", "check"}) \cup {"osd"}
        /\ pc' # "resources"
    BY <2>1 DEF BeforeOsd, Pcs, Searching
  <2>3. conn' \in Nat /\ n' \in Nat /\ (pc' = "fb" => n' \in {1, 2})
    BY <1>1, <2>1
  <2> QED
    BY <2>1, <2>2, <2>3, SetupFlags
<1>10. CASE OutObj
  BY <1>1, <1>10, SetupFlags DEF OutObj, At, Goto, BeforeOsd, Pcs, Searching
<1>11. CASE Requests
  BY <1>1, <1>11, SetupFlags DEF Requests, At, Goto, BeforeOsd, Pcs, Searching
<1> QED
  BY <1>2, <1>3, <1>4, <1>5, <1>6, <1>7, <1>8, <1>9, <1>10, <1>11

\* The set-up of writeback.
LEMMA WritebackFlags ==
  ASSUME DrmInv,
         \/ modeset_find_writeback \/ modeset_create_wb_fb \/ modeset_attach_writeback
         \/ CheckFails \/ CheckWorks
  PROVE  ControlInv'
<1>0. pc \in BeforeOsd
  BY DEF BeforeOsd, Pcs, Searching, modeset_find_writeback, At, modeset_create_wb_fb,
    modeset_attach_writeback, CheckFails, CheckWorks
<1>1. /\ LiveInv /\ conn \in Nat /\ n \in Nat
      /\ routed \in BOOLEAN /\ wb_available \in BOOLEAN
      /\ pc \in {"writeback", "wb_fb", "attach", "check"}
      /\ wb_bufs_ready = FALSE /\ dvr_wb_mode = FALSE
      /\ (wb_enabled => pc = "check") /\ wb_enabled \in BOOLEAN /\ (pc = "check" => wb_enabled /\ routed)
      /\ (pc = "wb_fb" => n \in 1 .. WB_BUF_COUNT)
      /\ osd_request = Empty /\ video_request = Empty
  BY DEF DrmInv, ControlInv, FlagInv, RequestInv, BeforeOsd, Pcs, modeset_find_writeback, At,
    modeset_create_wb_fb, modeset_attach_writeback, CheckFails, CheckWorks
<1>2. UNCHANGED <<conn, decoder, osd_request, video_request>>
  BY DEF modeset_find_writeback, modeset_create_wb_fb, modeset_attach_writeback, CheckFails,
    CheckWorks, requests
<1>3. CASE modeset_find_writeback
  <2>1. /\ UNCHANGED <<wb_bufs_ready, dvr_wb_mode, wb_enabled, routed, stale>>
        /\ \/ pc' = "wb_fb" /\ n' = 1 /\ wb_available' = TRUE
           \/ pc' = "osd" /\ n' = n /\ wb_available' = wb_available
        /\ pc = "writeback"
    BY <1>3 DEF modeset_find_writeback, Goto, At
  <2>2. WB_BUF_COUNT \in Nat \ {0} /\ WB_BUF_COUNT' = WB_BUF_COUNT
    BY DrmAssumption DEF WB_BUF_COUNT
  <2>3. n' \in Nat /\ (pc' = "wb_fb" => n' \in 1 .. WB_BUF_COUNT)
    BY <1>1, <2>1, <2>2
  <2>4. FlagInv'
    BY <1>1, <1>2, <2>1, <2>2, <2>3 DEF FlagInv, Pcs, BeforeOsd, Searching
  <2>5. RequestInv'
    BY <1>1, <1>2, <2>1 DEF RequestInv, Pcs, BeforeOsd, Searching
  <2>6. GroupInv' /\ StaleInv'
    BY <1>0, <1>2, <2>1, NoGroups
  <2> QED
    BY <2>4, <2>5, <2>6 DEF ControlInv
<1>4. CASE modeset_create_wb_fb
  <2>1. /\ UNCHANGED <<wb_available, wb_bufs_ready, dvr_wb_mode, wb_enabled, routed, stale>>
        /\ \/ pc' \in {"attach", "osd"} /\ n' = 0
           \/ pc' = "wb_fb" /\ n' = n + 1 /\ n # WB_BUF_COUNT
        /\ pc = "wb_fb"
    BY <1>4 DEF modeset_create_wb_fb, Goto, At, writeback
  <2>2. WB_BUF_COUNT \in Nat \ {0} /\ WB_BUF_COUNT' = WB_BUF_COUNT
    BY DrmAssumption DEF WB_BUF_COUNT
  <2>3. n' \in Nat /\ (pc' = "wb_fb" => n' \in 1 .. WB_BUF_COUNT)
    BY <1>1, <2>1, <2>2
  <2>4. FlagInv'
    BY <1>1, <1>2, <2>1, <2>2, <2>3 DEF FlagInv, Pcs, BeforeOsd, Searching
  <2>5. RequestInv'
    BY <1>1, <1>2, <2>1 DEF RequestInv, Pcs, BeforeOsd, Searching
  <2>6. GroupInv' /\ StaleInv'
    BY <1>0, <1>2, <2>1, NoGroups
  <2> QED
    BY <2>4, <2>5, <2>6 DEF ControlInv
<1>5. CASE modeset_attach_writeback
  <2> DEFINE q == modeset_atomic_prepare_commit(Empty, "osd", "osd1", TRUE)
  <2>1. /\ pc = "attach" /\ UNCHANGED <<n, wb_available, wb_bufs_ready, dvr_wb_mode>>
        /\ \/ CommitOk(q, live) /\ wb_enabled' = TRUE /\ pc' = "check"
           \/ CommitFails(q, live) /\ wb_enabled' = FALSE /\ pc' = "osd"
    BY <1>5 DEF modeset_attach_writeback, Goto, At
  <2>2. Gone(q, live) = {} /\ q["wb"] = "crtc"
    BY <1>1, <2>1, ShowsOsd
  <2> HIDE DEF q
  <2>3. Routes(q) = TRUE
    BY <2>2 DEF Routes, Unset
  <2>4. /\ stale' = stale /\ routed' \in BOOLEAN
        /\ (wb_enabled' = TRUE /\ pc' = "check" /\ routed' = TRUE) \/ (wb_enabled' = FALSE /\ pc' = "osd")
    BY <1>1, <2>1, <2>2, <2>3, Commits
  <2>8. FlagInv' /\ RequestInv'
    BY <1>1, <1>2, <2>1, <2>4 DEF FlagInv, RequestInv, Pcs, BeforeOsd, Searching
  <2>9. GroupInv' /\ StaleInv'
    BY <1>0, <1>2, <2>1, <2>4, NoGroups
  <2> QED
    BY <2>8, <2>9 DEF ControlInv
<1>6. CASE CheckFails
  <2>1. /\ pc' = "osd" /\ UNCHANGED <<n, wb_available, wb_bufs_ready, dvr_wb_mode, stale>>
        /\ wb_enabled' = FALSE /\ routed' \in BOOLEAN
    BY <1>1, <1>6 DEF CheckFails, Goto
  <2>8. FlagInv' /\ RequestInv'
    BY <1>1, <1>2, <2>1 DEF FlagInv, RequestInv, Pcs, BeforeOsd, Searching
  <2>9. GroupInv' /\ StaleInv'
    BY <1>0, <1>2, <2>1, NoGroups
  <2> QED
    BY <2>8, <2>9 DEF ControlInv
<1>7. CASE CheckWorks
  <2>1. /\ pc' = "osd" /\ UNCHANGED <<n, wb_available, wb_enabled, routed, stale>>
        /\ wb_bufs_ready' = TRUE /\ dvr_wb_mode' = TRUE /\ pc = "check"
    BY <1>7 DEF CheckWorks, Goto, At
  <2>8. FlagInv' /\ RequestInv'
    BY <1>1, <1>2, <2>1 DEF FlagInv, RequestInv, Pcs, BeforeOsd, Searching
  <2>9. GroupInv' /\ StaleInv'
    BY <1>0, <1>2, <2>1, NoGroups
  <2> QED
    BY <2>8, <2>9 DEF ControlInv
<1> QED
  BY <1>3, <1>4, <1>5, <1>6, <1>7

\* What is known of a running program.
LEMMA RunningFacts ==
  ASSUME DrmInv, pc \in {"osd"} \cup Running
  PROVE  /\ LiveInv /\ conn \in Nat /\ n \in Nat
         /\ wb_available \in BOOLEAN /\ wb_enabled \in BOOLEAN /\ wb_bufs_ready \in BOOLEAN
         /\ dvr_wb_mode \in BOOLEAN /\ routed \in BOOLEAN
         /\ wb_enabled => wb_bufs_ready
         /\ dvr_wb_mode => wb_enabled /\ routed
         /\ Lasts(video_request) /\ Attaching(video_request)
         /\ pc = "osd" => osd_request = Empty
         /\ GroupInv /\ StaleInv
<1>1. pc = "osd" => Lasts(video_request)
  BY Fresh DEF DrmInv, ControlInv, RequestInv
<1>2. Lasts(video_request)
  BY <1>1 DEF DrmInv, ControlInv, RequestInv
<1> QED
  BY <1>2 DEF DrmInv, ControlInv, FlagInv, RequestInv, Lasts

\* A step of a running program.
LEMMA RunningStep ==
  ASSUME DrmInv, pc \in {"osd"} \cup Running, pc' \in Running \cup {"aborted"}, conn' = conn, n' = n,
         UNCHANGED <<wb_available, wb_bufs_ready>>,
         wb_enabled' \in BOOLEAN, dvr_wb_mode' \in BOOLEAN, routed' \in BOOLEAN,
         wb_enabled' => wb_enabled,
         pc' \in Running => (dvr_wb_mode' => wb_enabled' /\ routed'),
         pc' \in Running => Lasts(video_request)'
  PROVE  FlagInv' /\ RequestInv'
<1>1. pc' \notin BeforeOsd \cup Leaving \cup {"osd", "end", "fb", "wb_fb", "check", "open", "resources"}
  BY DEF BeforeOsd, Pcs, Searching
<1>2. pc' \in Pcs
  BY DEF Pcs
<1>3. FlagInv'
  BY <1>1, <1>2, RunningFacts DEF FlagInv
<1>4. RequestInv'
  BY <1>1 DEF RequestInv
<1> QED
  BY <1>3, <1>4

\* A request that lasts still does while only frames come and go, and so it
\* does with another frame on the video plane.
LEMMA StillLasts ==
  ASSUME NEW req, NEW q, NEW buf, NEW wb, Lasts(req),
         q = req \/ Adds(q, req, "video", buf, wb), conn' = conn,
         \A x \in Labels : R("fb", x) \in live => R("fb", x) \in live'
  PROVE  Lasts(q)'
<1>1. Attaching(q)
  BY DEF Adds, Lasts
<1>2. \A p \in {"osd", "wb_fb"} : q[p] = req[p]
  BY DEF Adds
<1>3. ASSUME NEW p \in {"osd", "wb_fb"}, q[p] # Unset PROVE q[p] \in Labels /\ R("fb", q[p])' \in live'
  <2>1. q[p] \in Labels /\ R("fb", q[p]) \in live
    BY <1>2, <1>3 DEF Lasts
  <2>2. R("fb", q[p])' = R("fb", q[p])
    BY DEF R
  <2> QED
    BY <2>1, <2>2
<1> QED
  BY <1>1, <1>3 DEF Lasts, Attaching

\* The OSD is shown.
LEMMA OsdFlags == ASSUME DrmInv, OsdShown PROVE ControlInv'
<1> DEFINE q == modeset_atomic_prepare_commit(osd_request, "osd", "osd1", wb_enabled)
<1>1. /\ pc = "osd" /\ UNCHANGED <<conn, n, live, wb_available, wb_bufs_ready, wb_enabled, dvr_wb_mode,
                                   video_request, decoder>>
      /\ \/ CommitOk(q, live) /\ pc' = "run"
         \/ CommitFails(q, live) /\ pc' = "aborted"
  BY DEF OsdShown, At, Goto
<1>2. pc \in {"osd"} \cup Running /\ pc \in AfterBuffers /\ pc' \in Running \cup {"aborted"}
  BY <1>1
<1>3. /\ LiveInv /\ wb_enabled \in BOOLEAN /\ dvr_wb_mode \in BOOLEAN
      /\ routed \in BOOLEAN /\ osd_request = Empty
      /\ (dvr_wb_mode => wb_enabled /\ routed) /\ Lasts(video_request)
  BY <1>1, <1>2, RunningFacts
<1>4. Gone(q, live) = {} /\ (wb_enabled => q["wb"] = "crtc")
  BY <1>2, <1>3, ShowsOsd
<1> HIDE DEF q
<1>5. wb_enabled => Routes(q) = TRUE
  BY <1>4 DEF Routes, Unset
<1>6. stale' = stale /\ routed' \in BOOLEAN /\ (pc' = "run" => routed' = Routes(q))
  BY <1>1, <1>3, <1>4, Commits
<1>7. pc' \in Running => (dvr_wb_mode' => wb_enabled' /\ routed')
  BY <1>1, <1>3, <1>5, <1>6
<1>8. Lasts(video_request)'
  <2>1. PICK r : r = video_request /\ r = video_request'
    BY <1>1
  <2>2. Lasts(r)'
    BY <1>1, <1>3, <2>1, StillLasts
  <2> QED
    BY <2>1, <2>2 DEF Lasts, Attaching
<1>9. FlagInv' /\ RequestInv'
  BY <1>1, <1>2, <1>3, <1>6, <1>7, <1>8, RunningStep
<1>10. GroupInv' /\ StaleInv'
  BY <1>1, <1>6, NoGroups
<1> QED
  BY <1>9, <1>10 DEF ControlInv

\* Writeback is detached, or a call that is asserted fails.
LEMMA DetachFlags == ASSUME DrmInv, Detaches \/ AssertFails PROVE ControlInv'
<1>1. /\ pc \in {"fallback", "run"} /\ pc' \in {"retry", "aborted"} /\ (pc' = "retry" => pc = "fallback")
      /\ UNCHANGED <<conn, n, live, wb_available, wb_bufs_ready, video_request, decoder>>
      /\ wb_enabled' \in {FALSE, wb_enabled} /\ dvr_wb_mode' \in {FALSE, dvr_wb_mode}
      /\ pc' = "retry" => dvr_wb_mode' = FALSE
      /\ (CommitOk(Detached, live) \/ CommitFails(Detached, live)) \/ UNCHANGED <<routed, stale>>
  BY DEF Detaches, AssertFails, modeset_detach_writeback, requests, writeback, At, Goto
<1>2. pc \in {"osd"} \cup Running /\ pc' \in Running \cup {"aborted"}
  BY <1>1
<1>3. /\ LiveInv /\ wb_enabled \in BOOLEAN /\ dvr_wb_mode \in BOOLEAN
      /\ routed \in BOOLEAN /\ Lasts(video_request)
  BY <1>1, <1>2, RunningFacts
<1>4. stale' = stale /\ routed' \in BOOLEAN
  BY <1>1, <1>3, Commits, DetachNames
<1>5. Lasts(video_request)'
  <2>1. PICK r : r = video_request /\ r = video_request'
    BY <1>1
  <2>2. Lasts(r)'
    BY <1>1, <1>3, <2>1, StillLasts
  <2> QED
    BY <2>1, <2>2 DEF Lasts, Attaching
<1>6. FlagInv' /\ RequestInv'
  <2>0. /\ wb_enabled' = FALSE \/ wb_enabled' = wb_enabled
        /\ dvr_wb_mode' = FALSE \/ dvr_wb_mode' = dvr_wb_mode
    BY <1>1
  <2>1. wb_enabled' \in BOOLEAN /\ (wb_enabled' => wb_enabled) /\ dvr_wb_mode' \in BOOLEAN
    <3>1. wb_enabled' \in BOOLEAN /\ (wb_enabled' => wb_enabled)
      <4>1. CASE wb_enabled' = FALSE
        BY ONLY <4>1
      <4>2. CASE wb_enabled' = wb_enabled
        BY ONLY <1>3, <4>2, Zenon
      <4> QED
        BY ONLY <2>0, <4>1, <4>2
    <3>2. dvr_wb_mode' \in BOOLEAN
      <4>1. CASE dvr_wb_mode' = FALSE
        BY ONLY <4>1
      <4>2. CASE dvr_wb_mode' = dvr_wb_mode
        BY ONLY <1>3, <4>2, Zenon
      <4> QED
        BY ONLY <2>0, <4>1, <4>2
    <3> QED
      BY ONLY <3>1, <3>2
  <2>2. pc' \in Running => ~dvr_wb_mode'
    BY <1>1
  <2> QED
    BY <1>1, <1>2, <1>4, <1>5, <2>1, <2>2, RunningStep
<1>7. GroupInv' /\ StaleInv'
  BY <1>1, <1>4, GroupStays DEF BeforeOsd, Pcs, Searching
<1> QED
  BY <1>6, <1>7 DEF ControlInv

\* The group there is can be shown.
LEMMA GroupShown ==
  ASSUME GroupInv, frm_grp # 0
  PROVE  R("fb", frames[frm_grp]) \in live
  BY DEF GroupInv, FrameFour

\* The modeset is tried again.
LEMMA RetryFlags == ASSUME DrmInv, RetriesModeset PROVE ControlInv'
<1> DEFINE q == modeset_atomic_prepare_commit(video_request, "video", frames[frm_grp], wb_enabled)
<1>1. /\ pc = "retry" /\ UNCHANGED <<conn, n, live, wb_available, wb_bufs_ready, decoder>>
      /\ UNCHANGED <<wb_enabled, dvr_wb_mode>> /\ video_request' = q
      /\ \/ CommitOk(q, live) /\ pc' = "run"
         \/ CommitFails(q, live) /\ pc' = "aborted"
  BY DEF RetriesModeset, At, Goto
<1>2. pc \in {"osd"} \cup Running /\ pc' \in Running \cup {"aborted"}
  BY <1>1
<1>3. /\ LiveInv /\ wb_enabled \in BOOLEAN /\ dvr_wb_mode \in BOOLEAN
      /\ routed \in BOOLEAN /\ GroupInv
      /\ (dvr_wb_mode => wb_enabled /\ routed) /\ Lasts(video_request) /\ Attaching(video_request)
  BY <1>1, <1>2, RunningFacts
<1>4. Adds(q, video_request, "video", frames[frm_grp], wb_enabled)
  BY <1>3, Prepared
<1>5. R("fb", frames[frm_grp]) \in live
  <2>1. frm_grp # 0
    BY <1>1, <1>3 DEF GroupInv
  <2> QED
    BY <1>3, <2>1, GroupShown
<1> HIDE DEF q
<1>6. Gone(q, live) = {}
  <2>1. \A p \in {"video", "osd", "wb_fb"} : q[p] # Unset => R("fb", q[p]) \in live
    BY <1>3, <1>4, <1>5 DEF Adds, Lasts
  <2> QED
    BY <2>1, NoneGone
<1>7. wb_enabled => Routes(q) = TRUE
  BY <1>4 DEF Routes, Unset, Adds
<1>8. stale' = stale /\ routed' \in BOOLEAN /\ (pc' = "run" => routed' = Routes(q))
  BY <1>1, <1>3, <1>6, Commits
<1>9. pc' \in Running => (dvr_wb_mode' => wb_enabled' /\ routed')
  BY <1>1, <1>3, <1>7, <1>8
<1>10. Lasts(video_request)'
  <2>1. PICK r : r = q
    OBVIOUS
  <2>2. Adds(r, video_request, "video", frames[frm_grp], wb_enabled)
    BY <1>4, <2>1
  <2>3. Lasts(r)'
    BY <1>1, <1>3, <2>2, StillLasts
  <2> QED
    BY <1>1, <2>1, <2>3 DEF Lasts, Attaching
<1>11. FlagInv' /\ RequestInv'
  BY <1>1, <1>2, <1>3, <1>8, <1>9, <1>10, RunningStep
<1>12. GroupInv' /\ StaleInv'
  BY <1>1, <1>8, GroupStays DEF BeforeOsd, Pcs, Searching
<1> QED
  BY <1>11, <1>12 DEF ControlInv

\* What is held of the output but for the frames stays while frames come and go.
LEMMA OthersStay ==
  ASSUME NEW made, NEW released, Holds(made, released), OfFrames(made), OfFrames(released)
  PROVE  \A x \in Labels : R("fb", x) \in live <=> R("fb", x) \in live'
<1>1. \A x \in Labels : R("fb", x) \notin made /\ R("fb", x) \notin released
  BY DEF OfFrames, R
<1> QED
  BY <1>1 DEF Holds

\* What is held of a group changes only with the group.
LEMMA GroupChanges ==
  ASSUME GroupInv, NEW g \in 1 .. Len(frames), NEW h \in 1 .. Len(frames), g # h, NEW k
  PROVE  R(k, frames[g]) \notin Frames(h) /\ R(k, frames[g]) \notin Unprimed(h)
<1>1. frames[g] # frames[h]
  BY FrameLabels
<1>2. h \in Nat \ {0}
  BY FrameLabels
<1>3. \A r \in Frames(h) : r[2] = frames[h]
  BY <1>2, FrameParts DEF R
<1> QED
  BY <1>1, <1>3 DEF R, Unprimed

\* A group of the decoder is made in place of the one there was, and the modeset
\* may fail.
LEMMA InitBufferFlags == ASSUME DrmInv, init_buffer PROVE ControlInv'
<1> DEFINE new == groups + 1
           q == modeset_atomic_prepare_commit(video_request, "video", frames[new], wb_enabled)
           held == (live \cup Frames(new)) \ Frames(frm_grp)
           L == Len(frames)
<1>1. /\ pc = "run" /\ UNCHANGED <<conn, n, wb_available, wb_bufs_ready, wb_enabled, dvr_wb_mode, video_fb_id>>
      /\ groups < L /\ groups' = new /\ frm_grp' = new
      /\ video_request' = q /\ Holds(Frames(new), Frames(frm_grp)) /\ live' = held
      /\ \/ CommitOk(q, held) /\ pc' = "run"
         \/ CommitFails(q, held) /\ pc' \in {"fallback", "aborted"}
  BY DEF init_buffer, At, Goto, Holds
<1>2. pc \in {"osd"} \cup Running /\ pc' \in Running \cup {"aborted"}
  BY <1>1
<1>3. /\ LiveInv /\ wb_enabled \in BOOLEAN /\ dvr_wb_mode \in BOOLEAN
      /\ routed \in BOOLEAN /\ GroupInv /\ StaleInv
      /\ (dvr_wb_mode => wb_enabled /\ routed) /\ Lasts(video_request) /\ Attaching(video_request)
  BY <1>1, <1>2, RunningFacts
<1>4. L \in Nat /\ groups \in Nat /\ frm_grp \in 0 .. groups
  BY <1>3, GroupHeld
<1>5. /\ \A g \in 1 .. L : frames[g] \notin Labels /\ frames[g] # Unset
      /\ \A g, h \in 1 .. L : frames[g] = frames[h] => g = h
  BY FrameLabels
<1>6. Adds(q, video_request, "video", frames[new], wb_enabled)
  BY <1>3, Prepared
<1> HIDE DEF q, held, L
<1>7. /\ new \in Nat \ {0} /\ new \in 1 .. L /\ new \in 1 .. new /\ 1 .. groups \subseteq 1 .. L
      /\ frm_grp # 0 => frm_grp \in 1 .. L /\ frm_grp \in Nat \ {0}
      /\ new \notin 1 .. groups /\ new # frm_grp /\ new # 0
      /\ \A g \in 1 .. new : g = new \/ g \in 1 .. groups
      /\ new \in 0 .. L /\ new \in 0 .. new /\ \A g \in 1 .. groups : g \in 1 .. new
  BY ONLY <1>1, <1>4
<1> HIDE DEF new
<1>8. \A r : r \in Frames(new) <=> \E k \in FrameFour : r = R(k, frames[new])
  BY <1>7, FrameParts
<1>9. \A k : R(k, frames[new]) \notin Frames(frm_grp)
  <2>1. CASE frm_grp = 0
    BY <2>1 DEF Frames
  <2>2. CASE frm_grp # 0
    BY <1>3, <1>7, <2>2, GroupChanges DEF L
  <2> QED
    BY <2>1, <2>2
<1>10. \A k \in FrameFour : R(k, frames[new]) \in held
  BY <1>8, <1>9 DEF held
<1>11. OfFrames(Frames(new)) /\ OfFrames(Frames(frm_grp))
  <2>1. frames[new] \notin Labels
    BY <1>5, <1>7
  <2>2. OfFrames(Frames(new))
    BY <1>8, <2>1 DEF OfFrames, R
  <2>3. /\ \A r \in Frames(frm_grp) : \E g \in 1 .. groups, k \in FrameFour : r = R(k, frames[g])
        /\ \A g \in 1 .. groups : frames[g] \notin Labels
    BY <1>3, GroupHeld
  <2> QED
    BY <2>2, <2>3, FrameIs
<1>12. \A x \in Labels : R("fb", x) \in live <=> R("fb", x) \in live'
  BY <1>1, <1>11, OthersStay
<1>13. Gone(q, held) = {}
  <2>1. R("fb", frames[new]) \in held
    BY <1>10 DEF FrameFour
  <2>2. \A p \in {"video", "osd", "wb_fb"} : q[p] # Unset => R("fb", q[p]) \in held
    BY <1>1, <1>3, <1>6, <1>12, <2>1 DEF Adds, Lasts
  <2> QED
    BY <2>2, NoneGone
<1>14. wb_enabled => Routes(q) = TRUE
  BY <1>6 DEF Routes, Unset, Adds
<1>15. stale' = stale /\ routed' \in BOOLEAN /\ (routed' = Routes(q) \/ routed' = routed)
  BY <1>1, <1>3, <1>13, Commits
<1>16. dvr_wb_mode' => wb_enabled' /\ routed'
  <2> SUFFICES ASSUME dvr_wb_mode PROVE wb_enabled /\ routed'
    BY <1>1
  <2>1. wb_enabled /\ routed
    BY <1>3
  <2>2. CASE routed' = routed
    BY <2>1, <2>2
  <2>3. CASE routed' = Routes(q)
    BY <1>14, <2>1, <2>3
  <2> QED
    BY <1>15, <2>1, <2>2, <2>3
<1>17. Lasts(video_request)'
  <2>1. PICK r : r = q
    OBVIOUS
  <2>2. Adds(r, video_request, "video", frames[new], wb_enabled)
    BY <1>6, <2>1
  <2>3. Lasts(r)'
    BY <1>1, <1>3, <1>12, <2>2, StillLasts
  <2> QED
    BY <1>1, <2>1, <2>3 DEF Lasts, Attaching
<1>18. FlagInv' /\ RequestInv'
  BY <1>1, <1>2, <1>3, <1>15, <1>16, <1>17, RunningStep
<1>19. \A k, x : R(k, x)' = R(k, x)
  BY <1>1 DEF R
<1>20. GroupInv'
  <2>1. \A k \in FrameFour : R(k, frames[new]) \in live'
    BY <1>1, <1>10
  <2>2. ASSUME NEW g \in 1 .. new, NEW k \in FrameFour, g # new, R(k, frames[g]) \in live'
        PROVE  k = "prime"
    <3>1. g \in 1 .. groups /\ g \in 1 .. L
      BY <1>7, <2>2
    <3>2. R(k, frames[g]) \in live
      <4>1. R(k, frames[g]) \notin Frames(new)
        BY <1>3, <1>7, <2>2, <3>1, GroupChanges DEF L
      <4> QED
        BY <1>1, <2>2, <4>1 DEF held
    <3>3. g # frm_grp
      <4>1. ASSUME g = frm_grp PROVE FALSE
        <5>1. frm_grp \in Nat \ {0}
          BY <1>7, <3>1, <4>1
        <5>2. R(k, frames[g]) \in Frames(frm_grp)
          BY <4>1, <5>1, FrameParts
        <5> QED
          BY <1>1, <2>2, <5>2 DEF held
      <4> QED
        BY <4>1
    <3> QED
      BY <1>3, <3>1, <3>2, <3>3 DEF GroupInv
  <2>3. pc' \notin BeforeOsd \cup {"osd"} \cup Leaving \cup {"end"}
    BY <1>2 DEF BeforeOsd, Pcs
  <2>4. Len(frames)' = L
    BY DEF L
  <2> QED
    BY <1>1, <1>7, <1>19, <2>1, <2>2, <2>3, <2>4 DEF GroupInv, L
<1>21. StaleInv'
  <2>1. ASSUME NEW b \in stale PROVE \E g \in 1 .. new : g # new /\ b = frames[g]
    BY <1>3, <1>7 DEF StaleInv
  <2>2. video_fb_id = Unset \/ \E g \in 1 .. new : video_fb_id = frames[g]
    BY <1>3, <1>7 DEF StaleInv
  <2> QED
    BY <1>1, <1>3, <1>15, <2>1, <2>2 DEF StaleInv
<1> QED
  BY <1>18, <1>20, <1>21 DEF ControlInv

\* A frame is handed over.
LEMMA HandOverFlags == ASSUME DrmInv, HandOver PROVE ControlInv'
<1>1. /\ pc = "run" /\ pc' = "run" /\ frm_grp # 0 /\ video_fb_id' = frames[frm_grp]
      /\ UNCHANGED <<conn, n, live, wb_available, wb_bufs_ready, wb_enabled, dvr_wb_mode, routed,
                     video_request, stale, frm_grp, groups>>
  BY DEF HandOver, At, writeback, requests
<1>2. pc \in {"osd"} \cup Running /\ pc' \in Running \cup {"aborted"}
  BY <1>1
<1>3. /\ LiveInv /\ wb_enabled \in BOOLEAN /\ dvr_wb_mode \in BOOLEAN
      /\ routed \in BOOLEAN /\ Lasts(video_request) /\ GroupInv /\ StaleInv
      /\ (dvr_wb_mode => wb_enabled /\ routed)
  BY <1>1, <1>2, RunningFacts
<1>4. Lasts(video_request)'
  BY <1>1, <1>3 DEF Lasts, Attaching, R
<1>5. FlagInv' /\ RequestInv'
  BY <1>1, <1>2, <1>3, <1>4, RunningStep
<1>6. GroupInv'
  BY <1>1, <1>3 DEF GroupInv, R, BeforeOsd
<1>7. StaleInv'
  <2> DEFINE L == Len(frames)
  <2>1. /\ L \in Nat /\ groups \in Nat /\ groups <= L /\ frm_grp \in 0 .. groups
        /\ \A g, h \in 1 .. L : frames[g] = frames[h] => g = h
    BY <1>3, GroupHeld, FrameLabels
  <2> HIDE DEF L
  <2>2. frm_grp \in 1 .. groups /\ 1 .. groups \subseteq 1 .. L
    BY ONLY <1>1, <2>1
  <2>3. frames[frm_grp] \notin stale
    BY <1>3, <2>1, <2>2 DEF StaleInv
  <2> QED
    BY <1>1, <1>3, <2>2, <2>3 DEF StaleInv
<1> QED
  BY <1>5, <1>6, <1>7 DEF ControlInv

\* The group goes, but for the descriptors.
LEMMA RestartGroup ==
  ASSUME DrmInv, pc = "run", pc' \in {"run", "cleanup"}, conn' = conn, groups' = groups, frm_grp' = 0,
         UNCHANGED <<video_fb_id, stale>>, Holds({}, Unprimed(frm_grp))
  PROVE  GroupInv' /\ StaleInv' /\ \A x \in Labels : R("fb", x) \in live <=> R("fb", x) \in live'
<1>1. GroupInv /\ StaleInv
  BY DEF DrmInv, ControlInv
<1>2. /\ \A r \in Frames(frm_grp) : \E g \in 1 .. groups, k \in FrameFour : r = R(k, frames[g])
      /\ \A g \in 1 .. groups : frames[g] \notin Labels
      /\ groups \in Nat /\ frm_grp \in 0 .. groups
  BY <1>1, GroupHeld
<1>3. live' = live \ Unprimed(frm_grp) /\ Unprimed(frm_grp) \subseteq Frames(frm_grp)
  BY DEF Holds, Unprimed
<1>4. \A x \in Labels : R("fb", x) \in live <=> R("fb", x) \in live'
  <2>1. OfFrames(Unprimed(frm_grp)) /\ OfFrames({})
    <3>1. \A r \in Unprimed(frm_grp) : \E g \in 1 .. groups, k \in FrameFour : r = R(k, frames[g])
      BY <1>2, <1>3
    <3>2. OfFrames(Unprimed(frm_grp))
      BY <1>2, <3>1, FrameIs
    <3> QED
      BY <3>2 DEF OfFrames
  <2> QED
    BY <2>1, OthersStay
<1>5. ASSUME NEW g \in 1 .. groups, NEW k \in FrameFour, R(k, frames[g]) \in live' PROVE k = "prime"
  <2>1. R(k, frames[g]) \in live /\ R(k, frames[g]) \notin Unprimed(frm_grp)
    BY <1>3, <1>5
  <2>2. CASE g = frm_grp
    <3>1. frm_grp \in Nat \ {0}
      BY ONLY <1>2, <2>2
    <3> QED
      BY <2>1, <2>2, <3>1, FrameParts
  <2>3. CASE g # frm_grp
    BY <1>1, <2>1, <2>3 DEF GroupInv
  <2> QED
    BY <2>2, <2>3
<1>6. \A k, x : R(k, x)' = R(k, x)
  BY DEF R
<1>7. pc' \notin BeforeOsd \cup {"osd", "fallback", "retry"}
  BY DEF BeforeOsd, Pcs
<1>8. 0 \in 0 .. groups
  BY ONLY <1>2
<1>9. GroupInv'
  BY <1>1, <1>5, <1>6, <1>7, <1>8 DEF GroupInv
<1>10. StaleInv'
  <2>1. \A g \in 1 .. groups : g # 0
    BY ONLY <1>2
  <2> QED
    BY <1>1, <2>1 DEF StaleInv
<1> QED
  BY <1>4, <1>9, <1>10

\* The decoder is restarted.
LEMMA RestartFlags == ASSUME DrmInv, restart_mpi PROVE ControlInv'
<1>1. /\ pc = "run" /\ pc' = "run" /\ frm_grp' = 0 /\ Holds({}, Unprimed(frm_grp))
      /\ UNCHANGED <<conn, n, wb_available, wb_bufs_ready, wb_enabled, dvr_wb_mode, routed,
                     video_request, stale, groups, video_fb_id>>
  BY DEF restart_mpi, At, writeback, requests
<1>2. pc \in {"osd"} \cup Running /\ pc' \in Running \cup {"aborted"}
  BY <1>1
<1>3. /\ LiveInv /\ wb_enabled \in BOOLEAN /\ dvr_wb_mode \in BOOLEAN
      /\ routed \in BOOLEAN /\ Lasts(video_request)
      /\ (dvr_wb_mode => wb_enabled /\ routed)
  BY <1>1, <1>2, RunningFacts
<1>4. GroupInv' /\ StaleInv' /\ \A x \in Labels : R("fb", x) \in live <=> R("fb", x) \in live'
  BY <1>1, RestartGroup
<1>5. Lasts(video_request)'
  <2>1. PICK r : r = video_request /\ r = video_request'
    BY <1>1
  <2>2. Lasts(r)'
    BY <1>1, <1>3, <1>4, <2>1, StillLasts
  <2> QED
    BY <2>1, <2>2 DEF Lasts, Attaching
<1>6. FlagInv' /\ RequestInv'
  BY <1>1, <1>2, <1>3, <1>5, RunningStep
<1> QED
  BY <1>4, <1>6 DEF ControlInv

\* A round of the display thread names buffers that exist, but for a frame of a
\* group that is gone.
LEMMA FrameFlags == ASSUME DrmInv, DisplayFrame PROVE ControlInv'
<1>1. PICK osd \in OSD_BUFS, i \in 0 .. WB_BUF_COUNT :
        /\ i # 0 => dvr_wb_mode /\ wb_enabled /\ video_fb_id # Unset
        /\ video_request' = [Empty EXCEPT !["video"] = video_fb_id, !["osd"] = osd,
                                          !["wb_fb"] = IF i = 0 THEN Unset ELSE wb_bufs[i]]
        /\ CommitOk(video_request', live) \/ CommitFails(video_request', live)
  BY Zenon DEF DisplayFrame
<1>2. /\ pc = "run" /\ pc' = "run" /\ video_fb_id' = Unset
      /\ UNCHANGED <<conn, n, live, wb_available, wb_bufs_ready, wb_enabled, frm_grp, groups>>
      /\ dvr_wb_mode' = dvr_wb_mode \/ dvr_wb_mode' = (dvr_wb_mode /\ wb_commit_fails' < 3)
  BY DEF DisplayFrame, At
<1>3. pc \in {"osd"} \cup Running /\ pc' \in Running \cup {"aborted"} /\ pc \in Known /\ pc \in AfterBuffers
  BY <1>2
<1>4. /\ LiveInv /\ wb_enabled \in BOOLEAN /\ dvr_wb_mode \in BOOLEAN
      /\ routed \in BOOLEAN /\ (wb_enabled => wb_bufs_ready) /\ GroupInv /\ StaleInv
      /\ (dvr_wb_mode => wb_enabled /\ routed)
  BY <1>2, <1>3, RunningFacts
<1>5. PICK q : q = video_request'
  OBVIOUS
<1>6. /\ q["video"] = video_fb_id /\ q["osd"] = osd
      /\ q["wb_fb"] = (IF i = 0 THEN Unset ELSE wb_bufs[i])
      /\ Attaching(q) /\ q["wb"] = Unset
  <2>1. Shows(q, osd, i)
    BY <1>1, <1>5, FrameRequest
  <2> QED
    BY <2>1 DEF Shows
<1>7. Lasts(q)
  <2>1. osd \in Labels /\ R("fb", osd) \in live
    BY <1>3, <1>4, OsdHeld
  <2>2. i # 0 => wb_bufs[i] \in Labels /\ R("fb", wb_bufs[i]) \in live
    <3> SUFFICES ASSUME i # 0 PROVE wb_bufs[i] \in Labels /\ R("fb", wb_bufs[i]) \in live
      OBVIOUS
    <3>1. WB_BUF_COUNT \in Nat
      BY DrmAssumption DEF WB_BUF_COUNT
    <3>2. "fb" \in Kinds /\ wb_bufs[i] \in Labels
      BY <3>1 DEF Kinds, Labels, Four
    <3>3. WbMade = WB_BUF_COUNT
      BY <1>1, <1>2, <1>4 DEF WbMade
    <3>4. IsWbBuf(wb_bufs[i], WbMade)
      BY <3>1, <3>3 DEF IsWbBuf
    <3>5. Expected("fb", wb_bufs[i])
      BY <1>2, <3>4 DEF Expected, Three
    <3> QED
      BY <1>3, <1>4, <3>2, <3>5 DEF LiveInv
  <2> QED
    BY <1>6, <2>1, <2>2 DEF Lasts
<1>8. Gone(q, live) \subseteq {video_fb_id} \ {Unset}
  BY <1>6, <1>7 DEF Gone, Names, Lasts
<1>9. routed' = routed /\ stale' \subseteq stale \cup Gone(q, live)
  <2>1. Routes(q) = routed
    BY <1>6 DEF Routes
  <2>2. CommitOk(q, live) => routed' = Routes(q) /\ stale' = stale
    BY Zenon DEF CommitOk
  <2>3. CommitFails(q, live) => routed' = routed /\ stale' = stale \cup Gone(q, live)
    BY Zenon DEF CommitFails
  <2> QED
    BY <1>1, <1>5, <2>1, <2>2, <2>3
<1>10. Lasts(video_request)'
  <2>1. Lasts(q)'
    BY <1>2, <1>7, StillLasts
  <2> QED
    BY <1>5, <2>1 DEF Lasts, Attaching
<1>11. dvr_wb_mode' \in BOOLEAN /\ (dvr_wb_mode' => dvr_wb_mode)
  <2>1. CASE dvr_wb_mode' = dvr_wb_mode
    BY <1>4, <2>1
  <2>2. CASE dvr_wb_mode' = (dvr_wb_mode /\ wb_commit_fails' < 3)
    BY <2>2, Zenon
  <2> QED
    BY <1>2, <2>1, <2>2
<1>12. FlagInv' /\ RequestInv'
  BY <1>2, <1>3, <1>4, <1>9, <1>10, <1>11, RunningStep
<1>13. GroupInv'
  BY <1>2, <1>4 DEF GroupInv, R, BeforeOsd
<1>14. StaleInv'
  <2>1. ASSUME NEW b \in Gone(q, live) PROVE \E g \in 1 .. groups : g # frm_grp /\ b = frames[g]
    <3>1. PICK g \in 1 .. groups : b = frames[g]
      BY <1>4, <1>8 DEF StaleInv
    <3>2. R("fb", b) \notin live
      BY DEF Gone
    <3>3. g # frm_grp
      <4>1. groups \in Nat
        BY <1>4, GroupHeld
      <4>2. g # 0
        BY ONLY <3>1, <4>1
      <4> QED
        BY <1>4, <3>1, <3>2, <4>2, GroupShown
    <3> QED
      BY <3>1, <3>3
  <2>2. \A b \in stale' : \E g \in 1 .. groups : g # frm_grp /\ b = frames[g]
    BY <1>4, <1>9, <2>1 DEF StaleInv
  <2>3. Unset \notin stale'
    <3>1. \A g \in 1 .. groups : frames[g] # Unset
      <4> DEFINE L == Len(frames)
      <4>1. L \in Nat /\ groups \in Nat /\ groups <= L /\ \A g \in 1 .. L : frames[g] # Unset
        BY <1>4, GroupHeld, FrameLabels
      <4> HIDE DEF L
      <4> QED
        BY <4>1
    <3> QED
      BY <2>2, <3>1
  <2> QED
    BY <1>2, <2>2, <2>3 DEF StaleInv
<1> QED
  BY <1>12, <1>13, <1>14 DEF ControlInv

\* The way out.
LEMMA LeavingFlags ==
  ASSUME DrmInv,
         \/ cleanup_mpi \/ cleanup_writeback \/ cleanup_drm
         \/ restore_planes_zpos("osd", "restore", "restore video")
         \/ restore_planes_zpos("video", "restore video", "give back")
  PROVE  FlagInv' /\ RequestInv' /\ stale' = stale
<1>1. /\ LiveInv /\ conn \in Nat /\ n \in Nat
      /\ wb_available \in BOOLEAN /\ wb_enabled \in BOOLEAN /\ wb_bufs_ready \in BOOLEAN
      /\ dvr_wb_mode \in BOOLEAN /\ routed \in BOOLEAN
      /\ (pc \in {"restore", "restore video", "give back", "end"} => ~wb_bufs_ready)
  BY DEF DrmInv, ControlInv, FlagInv, RequestInv
<1>2. /\ pc' \in Leaving \cup {"end", "aborted"}
      /\ UNCHANGED <<conn, n, wb_available, dvr_wb_mode>>
      /\ pc' # "cleanup" => wb_bufs_ready' = FALSE
      /\ wb_bufs_ready' \in BOOLEAN
  BY <1>1 DEF cleanup_mpi, cleanup_writeback, cleanup_drm, restore_planes_zpos, At, Goto, writeback
<1>3. stale' = stale /\ routed' \in BOOLEAN /\ wb_enabled' \in BOOLEAN
  <2>1. CASE cleanup_mpi \/ cleanup_drm
    BY <1>1, <2>1 DEF cleanup_mpi, cleanup_drm, writeback
  <2>2. CASE cleanup_writeback
    <3>1. \/ wb_enabled' = FALSE /\ (CommitOk(Detached, live) \/ CommitFails(Detached, live))
          \/ UNCHANGED <<wb_enabled, routed, stale>>
      BY <2>2 DEF cleanup_writeback, modeset_detach_writeback
    <3> QED
      BY <1>1, <3>1, Commits, DetachNames
  <2>3. ASSUME NEW plane \in {"osd", "video"}, NEW from \in Leaving, NEW to,
               restore_planes_zpos(plane, from, to)
        PROVE  stale' = stale /\ routed' \in BOOLEAN /\ wb_enabled' \in BOOLEAN
    <3> DEFINE q == modeset_atomic_prepare_commit(Empty, plane, "osd1", wb_enabled)
    <3>1. /\ wb_enabled' = wb_enabled /\ pc \in AfterBuffers
          /\ CommitOk(q, live) \/ CommitFails(q, live) \/ UNCHANGED <<routed, stale>>
      BY <2>3 DEF restore_planes_zpos, At
    <3>2. Gone(q, live) = {}
      BY <1>1, <3>1, ShowsOsd
    <3> HIDE DEF q
    <3> QED
      BY <1>1, <3>1, <3>2, Commits
  <2> QED
    BY <2>1, <2>2, <2>3
<1>4. /\ pc' \in Pcs /\ pc' \notin BeforeOsd \cup {"osd"} \cup Running
      /\ pc' \notin {"open", "resources", "fb", "wb_fb", "check"}
  BY <1>2 DEF Pcs, BeforeOsd, Searching
<1>5. FlagInv'
  BY <1>1, <1>2, <1>3, <1>4 DEF FlagInv
<1>6. RequestInv'
  BY <1>4 DEF RequestInv
<1> QED
  BY <1>3, <1>5, <1>6

\* What modeset_output_destroy() releases carries none of the frames' names.
LEMMA DestroyedLabels == \A r \in modeset_output_destroy : r[2] \in Labels
<1>1. \A k, x : R(k, x)[2] = x
  BY DEF R
<1>2. \A b \in OSD_BUFS : \A r \in modeset_destroy_fb(b) : r[2] \in Labels
  <2>1. \A b, r : r \in modeset_destroy_fb(b) => \E k : r = R(k, b)
    BY DEF modeset_destroy_fb, Parts
  <2>2. \A b \in OSD_BUFS : b \in Labels
    BY DEF OSD_BUFS, Labels
  <2> QED
    BY <1>1, <2>1, <2>2
<1>3. \A r \in Objects : r[2] \in Labels
  <2>1. \A r \in Objects : \E x \in ObjectNames : r = R("props", x)
    BY DEF Objects, ObjectNames
  <2>2. \A x \in ObjectNames : x \in Labels
    BY DEF ObjectNames, Labels
  <2> QED
    BY <1>1, <2>1, <2>2
<1>4. R("props", "wb_connector")[2] \in Labels /\ R("blob", "mode")[2] \in Labels
  BY <1>1 DEF Labels
<1>5. \A r \in modeset_output_destroy :
         \/ r \in Objects \/ r = R("props", "wb_connector") \/ r = R("blob", "mode")
         \/ \E b \in OSD_BUFS : r \in modeset_destroy_fb(b)
  BY DEF modeset_output_destroy, OutBlob
<1> QED
  BY <1>2, <1>3, <1>4, <1>5

\* What cleanup_drm() releases carries none of the frames' names.
LEMMA CleanedLabels ==
  \A r \in {R("crtc", "saved"), R("request", "video"), R("request", "osd")}
           \cup modeset_output_destroy \cup {<<"fd", "card0", 0>>} :
      r[2] \in Labels \cup {"saved"}
<1>1. \A k, x : R(k, x)[2] = x
  BY DEF R
<1>2. /\ R("crtc", "saved")[2] = "saved" /\ R("request", "video")[2] = "video"
      /\ R("request", "osd")[2] = "osd" /\ <<"fd", "card0", 0>>[2] = "card0"
  BY <1>1
<1>3. "video" \in Labels /\ "osd" \in Labels /\ "card0" \in Labels
  BY DEF Labels
<1> QED
  BY <1>2, <1>3, DestroyedLabels

\* The writeback buffers carry none of the frames' names.
LEMMA WbReleasedLabels == \A r \in WbBufs(WB_BUF_COUNT) : r[2] \in Labels \cup {"saved"}
<1> SUFFICES ASSUME NEW r \in WbBufs(WB_BUF_COUNT) PROVE r[2] \in Labels \cup {"saved"}
  OBVIOUS
<1>1. PICK i \in 1 .. WB_BUF_COUNT, k \in Three : r = R(k, wb_bufs[i])
  BY WbMember
<1> QED
  BY <1>1 DEF R, Labels

\* On the way out only cleanup_mpi() touches a group.
LEMMA LeavingGroups ==
  ASSUME DrmInv,
         \/ cleanup_mpi \/ cleanup_writeback \/ cleanup_drm
         \/ restore_planes_zpos("osd", "restore", "restore video")
         \/ restore_planes_zpos("video", "restore video", "give back")
  PROVE  GroupInv' /\ StaleInv'
<1>1. LiveInv /\ GroupInv /\ stale' = stale /\ conn' = conn
  BY LeavingFlags DEF DrmInv, ControlInv, cleanup_mpi, cleanup_writeback, cleanup_drm,
    restore_planes_zpos
<1>2. CASE cleanup_mpi
  BY <1>1, <1>2, RestartGroup DEF cleanup_mpi, At, Goto
<1>3. ASSUME NEW released, \A r \in released : r[2] \in Labels \cup {"saved"}, pc \in Leaving,
             pc' \in (Leaving \ {"cleanup"}) \cup {"end", "aborted"}, UNCHANGED decoder,
             live' = live \ released
      PROVE  GroupInv' /\ StaleInv'
  <2>1. \A g \in 1 .. groups : frames[g] \notin Labels \cup {"saved"}
    <3> DEFINE L == Len(frames)
    <3>1. /\ L \in Nat /\ groups \in Nat /\ groups <= L
          /\ \A g \in 1 .. L : frames[g] \notin Labels \cup {"saved"}
      BY <1>1, GroupHeld, FrameLabels, DrmAssumption DEF Reserved
    <3> HIDE DEF L
    <3>2. 1 .. groups \subseteq 1 .. L
      BY ONLY <3>1
    <3> QED
      BY ONLY <3>1, <3>2
  <2>2. \A g \in 1 .. groups, k \in FrameFour :
          R(k, frames[g]) \in live' <=> R(k, frames[g]) \in live
    BY <1>3, <2>1 DEF R
  <2> QED
    BY <1>1, <1>3, <2>2, GroupStays DEF BeforeOsd, Pcs, Searching
<1>30. ASSUME pc \in Leaving, UNCHANGED <<decoder, live>>,
              pc' \in (Leaving \ {"cleanup"}) \cup {"end", "aborted"}
       PROVE  GroupInv' /\ StaleInv'
  BY <1>1, <1>30, GroupStays DEF BeforeOsd, Pcs, Searching
<1>4. CASE cleanup_writeback
  <2>1. /\ pc = "cleanup" /\ pc' = "restore" /\ UNCHANGED decoder
        /\ live' = live \/ live' = live \ WbBufs(WB_BUF_COUNT)
    BY <1>4 DEF cleanup_writeback, At, Goto, Holds
  <2>3. CASE live' = live
    BY <1>30, <2>1, <2>3
  <2>4. CASE live' = live \ WbBufs(WB_BUF_COUNT)
    BY <1>3, <2>1, <2>4, WbReleasedLabels
  <2> QED
    BY <2>1, <2>3, <2>4
<1>5. CASE cleanup_drm
  <2> DEFINE released == {R("crtc", "saved"), R("request", "video"), R("request", "osd")}
                         \cup modeset_output_destroy \cup {<<"fd", "card0", 0>>}
  <2>1. /\ pc = "give back" /\ pc' \in {"end", "aborted"} /\ UNCHANGED decoder
        /\ live' = live \ released \/ live' = live
    BY <1>5 DEF cleanup_drm, At, Goto, Holds
  <2>3. \A r \in released : r[2] \in Labels \cup {"saved"}
    BY CleanedLabels
  <2> HIDE DEF released
  <2>4. CASE live' = live
    BY <1>30, <2>1, <2>4
  <2>5. CASE live' = live \ released
    BY <1>3, <2>1, <2>3, <2>5
  <2> QED
    BY <2>1, <2>4, <2>5
<1>6. ASSUME NEW plane, NEW from \in Leaving \ {"cleanup"}, NEW to \in {"restore video", "give back"},
             restore_planes_zpos(plane, from, to)
      PROVE  GroupInv' /\ StaleInv'
  <2>1. pc \in Leaving /\ pc' \in {"restore video", "give back"} /\ UNCHANGED <<decoder, live>>
    BY <1>6 DEF restore_planes_zpos, At, Goto
  <2> QED
    BY <1>30, <2>1
<1> QED
  BY <1>2, <1>4, <1>5, <1>6
-----------------------------------------------------------------------------
(* The theorems *)

\* At the start nothing is held.
LEMMA InitDrm == Init => DrmInv
<1> SUFFICES ASSUME Init PROVE DrmInv
  OBVIOUS
<1>1. LiveInv
  BY DEF Init, LiveInv, Searching, NoFd
<1>2. FlagInv
  BY DEF Init, FlagInv, Pcs, BeforeOsd, Searching
<1>3. RequestInv
  BY DEF Init, RequestInv
<1>4. GroupInv
  BY FrameLabels DEF Init, GroupInv
<1>5. StaleInv
  BY DEF Init, StaleInv
<1> QED
  BY <1>1, <1>2, <1>3, <1>4, <1>5 DEF DrmInv, ControlInv

\* Every step keeps the invariant.
LEMMA NextDrm == DrmInv /\ [Next]_vars => DrmInv'
<1> SUFFICES ASSUME DrmInv, [Next]_vars PROVE DrmInv'
  OBVIOUS
<1>1. CASE UNCHANGED vars
  <2>0. /\ UNCHANGED <<pc, conn, n, drm_fd, live, misfreed, wb_available, wb_bufs_ready, groups>>
        /\ UNCHANGED <<frm_grp, video_fb_id, stale, requests, wb_enabled, dvr_wb_mode, routed>>
    BY <1>1 DEF vars, writeback, decoder
  <2>1. LiveInv'
    <3>1. UNCHANGED <<pc, conn, n, drm_fd, live, misfreed, wb_available, wb_bufs_ready, groups>>
      BY <2>0
    <3>2. WbMade' = WbMade
      BY <3>1 DEF WbMade, WB_BUF_COUNT
    <3> HIDE DEF Known, AfterMode, AfterCrtc, AfterObjects, AfterBuffers, AfterRequests,
          AfterWriteback, Running, Leaving
    <3>3. \A k, x : Expected(k, x)' <=> Expected(k, x)
      BY <3>1, <3>2 DEF Expected
    <3>4. \A k, x : R(k, x)' = R(k, x)
      BY <3>1 DEF R
    <3>5. Objects' = Objects /\ OutBlob' = OutBlob
      BY <3>1 DEF R, Objects, OutBlob
    <3>6. \A r : IsFrame(r)' <=> IsFrame(r)
      BY <3>1, <3>4 DEF IsFrame
    <3> QED
      BY <3>1, <3>3, <3>4, <3>5, <3>6 DEF DrmInv, ControlInv, LiveInv, Left, Fd, IsSaved
  <2>2. FlagInv'
    BY <2>0 DEF DrmInv, ControlInv, FlagInv
  <2>3. RequestInv'
    BY <2>0 DEF DrmInv, ControlInv, RequestInv, requests, Lasts, Attaching, R
  <2>4. GroupInv'
    BY <2>0 DEF DrmInv, ControlInv, GroupInv, R
  <2>5. StaleInv'
    BY <2>0 DEF DrmInv, ControlInv, StaleInv
  <2> QED
    BY <2>1, <2>2, <2>3, <2>4, <2>5 DEF DrmInv, ControlInv
<1>2. CASE Next
  <2>1. LiveInv'
    BY <1>2, SearchLive, CreateLive, CrtcLive, PlanesLive, ObjectsLive, FramebuffersLive,
      UnmadeLive, RequestsLive, FindWritebackLive, CreateWbLive, AttachLive, CheckLive,
      ShownLive, GroupLive, CleanupWritebackLive, CleanupDrmLive DEF Next
  <2>2. ControlInv'
    <3>1. CASE \/ modeset_open \/ modeset_prepare \/ NextConnector \/ modeset_output_create
               \/ modeset_find_crtc \/ FindPlanes \/ SetupObjects \/ SetupFramebuffers \/ OutObj
               \/ Requests
      BY <3>1, OutputFlags
    <3>2. CASE \/ modeset_find_writeback \/ modeset_create_wb_fb \/ modeset_attach_writeback
               \/ CheckFails \/ CheckWorks
      BY <3>2, WritebackFlags
    <3>3. CASE \/ OsdShown \/ init_buffer \/ AssertFails \/ Detaches \/ RetriesModeset
               \/ HandOver \/ DisplayFrame \/ restart_mpi
      BY <3>3, OsdFlags, InitBufferFlags, DetachFlags, RetryFlags, HandOverFlags, FrameFlags,
        RestartFlags
    <3>4. CASE \/ cleanup_mpi \/ cleanup_writeback \/ cleanup_drm
               \/ restore_planes_zpos("osd", "restore", "restore video")
               \/ restore_planes_zpos("video", "restore video", "give back")
      BY <3>4, LeavingFlags, LeavingGroups DEF ControlInv
    <3> QED
      BY <1>2, <3>1, <3>2, <3>3, <3>4 DEF Next
  <2> QED
    BY <2>1, <2>2 DEF DrmInv
<1> QED
  BY <1>1, <1>2

\* What the program holds of the kernel is known at every step of drm.c and
\* main.cpp, whatever fails and however often the resolution or the codec
\* changes, and so is the state of writeback, of the requests and of the
\* decoder's groups.
THEOREM DrmInvariance == Spec => []DrmInv
  BY InitDrm, NextDrm, PTL DEF Spec

\* No error label of drm.c, no re-run of init_buffer() and no clean-up of
\* main.cpp releases what is not held; cleanup_drm() gives back all of the
\* output used but for the descriptors of frames; a group that was replaced or
\* cleaned up left at most those; and what attempts on other connectors leave is
\* the saved CRTC, the properties of the video plane or the first buffer of the
\* OSD.
THEOREM NothingReleasedTwice == Spec => []ReleasedOnce
<1>1. DrmInv => ReleasedOnce
  <2> SUFFICES ASSUME DrmInv PROVE ReleasedOnce
    OBVIOUS
  <2>0. LiveInv /\ GroupInv
    BY DEF DrmInv, ControlInv
  <2>1. ~misfreed
    BY <2>0 DEF LiveInv
  <2>2. ASSUME NEW g \in 1 .. groups, g # frm_grp, NEW r \in Frames(g) \cap live PROVE r[1] = "prime"
    <3>1. g \in Nat \ {0}
      <4>1. groups \in Nat
        BY <2>0, GroupHeld
      <4> QED
        BY ONLY <4>1
    <3>2. PICK k \in FrameFour : r = R(k, frames[g])
      BY <3>1, FrameParts
    <3>3. k = "prime"
      BY <2>0, <2>2, <3>2 DEF GroupInv
    <3> QED
      BY <3>2, <3>3 DEF R
  <2>3. ASSUME pc = "end", NEW r \in live PROVE r[1] # "fd" /\ (r[3] = conn => r[1] = "prime")
    <3>1. \A k \in Kinds, x \in Labels : R(k, x) \notin live
      BY <2>0, <2>3 DEF LiveInv, Expected
    <3>2. /\ r \in Kinds \X Labels \X Nat \/ IsSaved(r) \/ IsFrame(r)
          /\ r[1] # "fd" /\ R("crtc", "saved") \notin live
      BY <2>0, <2>3 DEF LiveInv
    <3>3. ASSUME r[3] = conn PROVE r[1] = "prime"
      <4>1. r \notin Kinds \X Labels \X Nat
        BY <3>1, <3>3 DEF R
      <4>2. ~IsSaved(r)
        BY <3>2, <3>3 DEF R, IsSaved
      <4>3. PICK g \in 1 .. groups, k \in FrameFour : r = R(k, frames[g])
        BY <3>2, <4>1, <4>2 DEF IsFrame
      <4>4. g # frm_grp
        <5>1. groups \in Nat /\ frm_grp = 0
          BY <2>0, <2>3, GroupHeld DEF GroupInv
        <5> QED
          BY ONLY <4>3, <5>1
      <4>5. k = "prime"
        BY <2>0, <4>3, <4>4 DEF GroupInv
      <4> QED
        BY <4>3, <4>5 DEF R
    <3> QED
      BY <3>2, <3>3
  <2>4. \A r \in live : r[3] \in 1 .. conn - 1 => Left(r)
    BY <2>0 DEF LiveInv
  <2> QED
    BY <2>1, <2>2, <2>3, <2>4 DEF ReleasedOnce, Left
<1> QED
  BY <1>1, DrmInvariance, PTL

\* A commit of drm.c names a removed framebuffer only if it is a frame of a group
\* that init_buffer() or cleanup_mpi() has removed since the frame was handed
\* over, and none of the present group; what is handed over was never stale.
THEOREM CommitsAreLive == Spec => []CommitsLive
<1>1. DrmInv => CommitsLive
  <2> SUFFICES ASSUME DrmInv PROVE CommitsLive
    OBVIOUS
  <2>1. GroupInv /\ StaleInv
    BY DEF DrmInv, ControlInv
  <2> DEFINE L == Len(frames)
  <2>2. /\ L \in Nat /\ groups \in Nat /\ groups <= L /\ frm_grp \in 0 .. groups
        /\ \A g, h \in 1 .. L : frames[g] = frames[h] => g = h
    BY <2>1, GroupHeld, FrameLabels
  <2> HIDE DEF L
  <2>3. 1 .. groups \subseteq 1 .. L /\ (frm_grp # 0 => frm_grp \in 1 .. L)
    BY ONLY <2>2
  <2>4. ASSUME NEW b \in stale
        PROVE  b \in {frames[g] : g \in 1 .. groups} \ {frames[g] : g \in {frm_grp} \ {0}}
    <3>1. PICK g \in 1 .. groups : g # frm_grp /\ b = frames[g]
      BY <2>1 DEF StaleInv
    <3>2. \A h \in {frm_grp} \ {0} : b # frames[h]
      BY <2>2, <2>3, <3>1
    <3> QED
      BY <3>1, <3>2
  <2> QED
    BY <2>1, <2>4 DEF CommitsLive, StaleInv
<1> QED
  BY <1>1, DrmInvariance, PTL

\* While dvr_wb_mode is set the writeback connector is attached and routed and
\* all its buffers exist; without wb_bufs_ready there is neither.
THEOREM WritebackIsWhole == Spec => []WritebackWhole
<1>1. DrmInv => WritebackWhole
  <2> SUFFICES ASSUME DrmInv, pc \in {"osd", "run"}
               PROVE  /\ dvr_wb_mode => wb_enabled /\ routed /\ WbBufs(WB_BUF_COUNT) \subseteq live
                      /\ ~wb_bufs_ready => ~wb_enabled /\ WbBufs(WB_BUF_COUNT) \cap live = {}
    BY DEF WritebackWhole
  <2>1. (wb_enabled => wb_bufs_ready) /\ (dvr_wb_mode => wb_enabled /\ routed) /\ LiveInv
    BY RunningFacts
  <2>2. \A r : r \in WbBufs(WB_BUF_COUNT)
              => \E k \in Three, x \in Labels : r = R(k, x) /\ IsWbBuf(x, WB_BUF_COUNT)
    <3>1. WB_BUF_COUNT \in 0 .. WB_BUF_COUNT
      BY WbLabels
    <3> TAKE r
    <3> HAVE r \in WbBufs(WB_BUF_COUNT)
    <3>2. PICK i \in 1 .. WB_BUF_COUNT, k \in Three : r = R(k, wb_bufs[i])
      BY WbMember
    <3>3. IsWbBuf(wb_bufs[i], WB_BUF_COUNT)
      BY DEF IsWbBuf
    <3> QED
      BY <3>1, <3>2, <3>3, WbLabels
  <2>3. Three \subseteq Kinds
    BY DEF Three, Kinds, Four
  <2>4. ASSUME NEW k \in Three, NEW x \in Labels, IsWbBuf(x, WB_BUF_COUNT)
        PROVE  R(k, x) \in live <=> wb_bufs_ready
    <3>1. CASE wb_bufs_ready
      <4>1. WbMade = WB_BUF_COUNT
        BY <3>1 DEF WbMade
      <4>2. Expected(k, x)
        BY <2>4, <4>1 DEF Expected
      <4> QED
        BY <2>1, <2>3, <3>1, <4>2 DEF LiveInv
    <3>2. CASE ~wb_bufs_ready
      <4>1. WbMade = 0 /\ ~IsWbBuf(x, 0)
        BY <3>2 DEF WbMade, IsWbBuf
      <4>2. WB_BUF_COUNT \in 0 .. WB_BUF_COUNT
        BY WbLabels
      <4>3. x \notin {"osd1", "osd2"} /\ k \in {"handle", "fb", "prime"}
        BY <2>4, <4>2, WbLabels DEF Three
      <4>4. ~Expected(k, x)
        BY <4>1, <4>3 DEF Expected
      <4> QED
        BY <2>1, <2>3, <3>2, <4>4 DEF LiveInv
    <3> QED
      BY <3>1, <3>2
  <2> QED
    BY <2>1, <2>2, <2>4
<1> QED
  BY <1>1, DrmInvariance, PTL
=============================================================================
