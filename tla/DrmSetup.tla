------------------------------ MODULE DrmSetup ------------------------------
(***************************************************************************)
(* The life of the display: drm.c and the parts of main.cpp that set it    *)
(* up, run it and give it back.  Every call into the kernel may fail.      *)
(*                                                                         *)
(* live is the set of what the program holds of the kernel and of libdrm:  *)
(* <<kind, name, connector>>, the last to tell what was made for which     *)
(* connector tried.  A request gives the properties of interest the last   *)
(* values added to it: "video" and "osd" the FB_ID of a plane, "wb" the    *)
(* CRTC_ID and "wb_fb" the FB of the writeback connector.                  *)
(* The threads' races on the request of the output are DisplayHandoff's.   *)
(***************************************************************************)
EXTENDS ModeSelection

CONSTANTS Displays,       \* what the kernel offers and what is configured
          wb_bufs,        \* the names of the writeback buffers (6 in the code), a sequence
          frames,         \* the names of the decoder's buffer groups, in the order they are
                          \* made: their number bounds the calls of init_buffer()
          MaxFailures     \* failing calls of a behaviour

(* The names of everything else there is. *)
Reserved ==
    {"unset", "card0", "mode", "saved", "wb_connector", "osd1", "osd2", "video", "osd",
     "connector", "crtc", "video_plane", "osd_plane"}

ASSUME DrmAssumption ==
    /\ Len(wb_bufs) \in Nat \ {0} /\ Len(frames) \in Nat
    /\ \A i \in 1 .. Len(wb_bufs) : wb_bufs[i] \notin {"osd1", "osd2", "unset"}
    /\ \A i \in 1 .. Len(frames) :
          /\ frames[i] \notin Reserved
          /\ \A j \in 1 .. Len(wb_bufs) : frames[i] # wb_bufs[j]
          /\ \A j \in 1 .. Len(frames) : frames[i] = frames[j] => i = j

VARIABLES display,        \* the display of this behaviour
          pc,
          conn,           \* the connector tried
          n,              \* index of the buffer being made
          drm_fd,
          live,
          misfreed,       \* something was released that was not held
          wb_available, wb_enabled, wb_bufs_ready, dvr_wb_mode,
          routed,         \* the kernel routes the writeback connector to the CRTC
          osd_request, video_request,
          stale,          \* the removed framebuffers that commits named
          frm_grp,        \* the decoder's buffer group, 0 if there is none
          groups,         \* groups made so far
          video_fb_id,    \* the frame handed to the display thread
          wb_commit_fails,
          fails

writeback == <<wb_available, wb_enabled, wb_bufs_ready, dvr_wb_mode, routed>>
requests == <<osd_request, video_request>>
decoder == <<frm_grp, groups, video_fb_id, wb_commit_fails>>
vars == <<display, pc, conn, n, drm_fd, live, misfreed, writeback, requests, stale, decoder,
          fails>>

Unset == "unset"          \* a request says nothing of the property
Empty == [p \in {"video", "osd", "wb", "wb_fb"} |-> Unset]
NoFd == 0                 \* drm_fd is 0 until modeset_open() succeeds
OSD_BUFS == {"osd1", "osd2"}
WB_BUF_COUNT == Len(wb_bufs)
R(kind, name) == <<kind, name, conn>>

Init ==
    /\ display \in Displays
    /\ pc = "open" /\ conn = 0 /\ n = 0 /\ drm_fd = NoFd
    /\ live = {} /\ misfreed = FALSE
    /\ wb_available = FALSE /\ wb_enabled = FALSE /\ wb_bufs_ready = FALSE
    /\ dvr_wb_mode = FALSE /\ routed = FALSE
    /\ osd_request = Empty /\ video_request = Empty
    /\ stale = {} /\ frm_grp = 0 /\ groups = 0 /\ video_fb_id = Unset /\ wb_commit_fails = 0
    /\ fails = 0

Works == UNCHANGED fails
Fails == fails < MaxFailures /\ fails' = fails + 1

Goto(to) == pc' = to
At(from) == pc = from /\ UNCHANGED display

(* What a step makes and what it releases. *)
Holds(made, released) ==
    /\ live' = (live \cup made) \ released
    /\ misfreed' = (misfreed \/ ~(released \subseteq live \cup made))

-----------------------------------------------------------------------------
(* setup_drm() *)

(* modeset_open().  If the universal-planes or atomic capability fails the *)
(* descriptor stays open but is not returned.                              *)
modeset_open ==
    /\ At("open") /\ Goto("resources")
    /\ \/ Works /\ drm_fd' = 3 /\ Holds({<<"fd", "card0", 0>>}, {})
       \/ Fails /\ UNCHANGED drm_fd /\ \E leaks \in BOOLEAN :
             Holds(IF leaks THEN {<<"fd", "card0", 0>>} ELSE {}, {})
    /\ UNCHANGED <<conn, n, writeback, requests, stale, decoder>>

(* modeset_prepare(): the resources; a wrong descriptor has none. *)
modeset_prepare ==
    /\ At("resources")
    /\ \/ drm_fd # NoFd /\ Works /\ Goto("connector")
       \/ drm_fd # NoFd /\ Fails /\ Goto("failed")
       \/ drm_fd = NoFd /\ Works /\ Goto("failed")
    /\ UNCHANGED <<conn, n, drm_fd, live, misfreed, writeback, requests, stale, decoder>>

(* The next connector; one that cannot be had and the writeback ones are   *)
(* passed over.                                                            *)
NextConnector ==
    /\ At("connector")
    /\ IF conn = Len(display.connectors)
       THEN Works /\ Goto("failed") /\ UNCHANGED conn
       ELSE /\ conn' = conn + 1
            /\ \/ Works /\ Goto(IF display.connectors[conn'].writeback THEN "connector" ELSE "output")
               \/ Fails /\ Goto("connector")
    /\ UNCHANGED <<n, drm_fd, live, misfreed, writeback, requests, stale, decoder>>

this == display.connectors[conn]

(* modeset_output_create() up to the blob of the mode. *)
modeset_output_create ==
    LET mode == IF this.connected /\ this.modes # <<>>
                THEN ChosenMode(this.modes, display.want, display.rate) ELSE 0
    IN  /\ At("output")
        /\ \/ mode = 0 /\ Works /\ Goto("connector") /\ Holds({}, {})
           \/ mode # 0 /\ Works /\ Goto("crtc") /\ Holds({R("blob", "mode")}, {})
           \/ mode # 0 /\ Fails /\ Goto("connector") /\ Holds({}, {})
        /\ UNCHANGED <<conn, n, drm_fd, writeback, requests, stale, decoder>>

(* out_blob, out_obj: what a failure in the middle gives back. *)
Objects == {R("props", o) : o \in {"connector", "crtc", "video_plane", "osd_plane"}}
OutBlob == {R("blob", "mode")}

(* modeset_find_crtc(): the saved CRTC is kept from here on.  That it      *)
(* cannot be had is not noticed.                                           *)
modeset_find_crtc ==
    /\ At("crtc")
    /\ \/ this.crtc /\ Works /\ Goto("planes") /\ Holds({R("crtc", "saved")}, {})
       \/ this.crtc /\ Fails /\ Goto("planes") /\ Holds({}, {})
       \/ this.crtc /\ Fails /\ Goto("connector") /\ Holds({}, OutBlob)
       \/ ~this.crtc /\ Works /\ Goto("connector") /\ Holds({}, OutBlob)
    /\ UNCHANGED <<conn, n, drm_fd, writeback, requests, stale, decoder>>

(* modeset_find_plane(), for both planes: the first one with the format,   *)
(* and so perhaps one plane for both.  0 if none has it.                   *)
modeset_find_plane(format) ==
    LET having == {i \in DOMAIN display.planes : format \in display.planes[i]}
    IN  IF having = {} THEN 0 ELSE Min(having)

FindPlanes ==
    LET found == modeset_find_plane("NV12") # 0 /\ modeset_find_plane("ARGB8888") # 0
    IN  /\ At("planes")
        /\ \/ found /\ Works /\ Goto("objects") /\ Holds({}, {})
           \/ found /\ Fails /\ Goto("connector") /\ Holds({}, OutBlob)
           \/ ~found /\ Works /\ Goto("connector") /\ Holds({}, OutBlob)
        /\ UNCHANGED <<conn, n, drm_fd, writeback, requests, stale, decoder>>

(* modeset_setup_objects(): the properties of four objects, got in turn.   *)
(* out_plane releases the CRTC's and the connector's, not a plane's.       *)
SetupObjects ==
    LET order == <<"connector", "crtc", "video_plane", "osd_plane">>
        Got(k) == {R("props", order[j]) : j \in 1 .. k}
        Released(k) == Got(Min({k, 2}))
    IN  /\ At("objects")
        /\ \/ Works /\ Goto("fb") /\ n' = 1 /\ Holds(Got(4), {})
           \/ \E k \in 0 .. 3 : Fails /\ Goto("connector") /\ Holds(Got(k), Released(k) \cup OutBlob)
                                /\ UNCHANGED n
        /\ UNCHANGED <<conn, drm_fd, writeback, requests, stale, decoder>>

-----------------------------------------------------------------------------
(* Framebuffers.  The calls that make one, in order, and the labels that   *)
(* undo the first k of them when the next one fails.                       *)

Parts(kinds, name, k) == {R(kinds[j], name) : j \in 1 .. k}
FbKinds == <<"handle", "fb", "map", "prime">>
WbKinds == <<"handle", "fb", "prime">>

(* Altered: the mapping is not undone. *)
ForgetsUnmap(kinds, name, k) == Parts(kinds, name, k) \ {R("map", name)}

Undone(kinds, name, k) == Parts(kinds, name, k)

modeset_create_fb(kinds, name, k) ==
    IF k = Len(kinds) THEN Holds(Parts(kinds, name, k), {})
    ELSE Holds(Parts(kinds, name, k), Undone(kinds, name, k))

modeset_destroy_fb(name) == Parts(FbKinds, name, 4)
modeset_destroy_wb_fb(name) == Parts(WbKinds, name, 3)

OsdBuf(i) == IF i = 1 THEN "osd1" ELSE "osd2"

(* modeset_setup_framebuffers(); if the second one fails the first one is  *)
(* left.  Then the two requests, and modeset_prepare() returns.            *)
SetupFramebuffers ==
    /\ At("fb")
    /\ \/ /\ Works /\ modeset_create_fb(FbKinds, OsdBuf(n), 4)
          /\ IF n = 2 THEN Goto("requests") /\ n' = 0 ELSE n' = n + 1 /\ UNCHANGED pc
       \/ /\ Fails /\ Goto("unmade") /\ n' = 0
          /\ \E k \in 0 .. 3 : modeset_create_fb(FbKinds, OsdBuf(n), k)
    /\ UNCHANGED <<conn, drm_fd, writeback, requests, stale, decoder>>

OutObj ==
    /\ At("unmade") /\ Works /\ Goto("connector")
    /\ Holds({}, Objects \cup OutBlob)
    /\ UNCHANGED <<conn, n, drm_fd, writeback, requests, stale, decoder>>

Requests ==
    /\ At("requests") /\ Works
    /\ Goto(IF display.record THEN "writeback" ELSE "osd")
    /\ Holds({R("request", "video"), R("request", "osd")}, {})
    /\ UNCHANGED <<conn, n, drm_fd, writeback, requests, stale, decoder>>

-----------------------------------------------------------------------------
(* Commits.  A request keeps what was added to it; the kernel refuses one  *)
(* that names a framebuffer that is gone, and a picky one refuses to show  *)
(* video while the writeback connector is routed.                          *)

modeset_atomic_prepare_commit(req, plane, buf, wb) ==
    [req EXCEPT ![plane] = buf, !["wb"] = IF wb THEN "crtc" ELSE @]

Names(req) == {req["video"], req["osd"], req["wb_fb"]} \ {Unset}
Gone(req, held) == {b \in Names(req) : R("fb", b) \notin held}

Routes(req) == IF req["wb"] # Unset THEN req["wb"] = "crtc" ELSE routed
Refused(req) == display.picky /\ req["video"] # Unset /\ Routes(req)

CommitOk(req, held) ==
    /\ ~Refused(req) /\ Gone(req, held) = {} /\ Works
    /\ routed' = Routes(req) /\ UNCHANGED stale
CommitFails(req, held) ==
    /\ IF Refused(req) \/ Gone(req, held) # {} THEN Works ELSE Fails
    /\ stale' = stale \cup Gone(req, held) /\ UNCHANGED routed

(* modeset_detach_writeback().  wb_enabled goes whatever the commit does.  *)
Detached == [Empty EXCEPT !["wb"] = "none"]
modeset_detach_writeback == CommitOk(Detached, live) \/ CommitFails(Detached, live)

-----------------------------------------------------------------------------
(* setup_writeback() *)

WbBufs(count) == UNION {modeset_destroy_wb_fb(wb_bufs[i]) : i \in 1 .. count}

(* modeset_find_writeback(): a connector for this CRTC that has the        *)
(* properties and offers NV12; those of the others are given back at once. *)
modeset_find_writeback ==
    /\ At("writeback")
    /\ \/ /\ display.writeback = "usable" /\ Works
          /\ wb_available' = TRUE /\ Holds({R("props", "wb_connector")}, {})
          /\ Goto("wb_fb") /\ n' = 1
       \/ /\ IF display.writeback = "usable" THEN Fails ELSE Works
          /\ UNCHANGED <<wb_available, n>> /\ Goto("osd")
          /\ IF display.writeback \in {"no properties", "no NV12"}
             THEN Holds({R("props", "wb_connector")}, {R("props", "wb_connector")})
             ELSE Holds({}, {})
    /\ UNCHANGED <<conn, drm_fd, wb_enabled, wb_bufs_ready, dvr_wb_mode, routed, requests,
                   stale, decoder>>

modeset_create_wb_fb ==
    /\ At("wb_fb")
    /\ \/ /\ Works /\ modeset_create_fb(WbKinds, wb_bufs[n], 3)
          /\ IF n = WB_BUF_COUNT THEN Goto("attach") /\ n' = 0 ELSE n' = n + 1 /\ UNCHANGED pc
       \/ /\ Fails /\ Goto("osd") /\ n' = 0
          /\ \E k \in 0 .. 2 :
                Holds(Parts(WbKinds, wb_bufs[n], k), Undone(WbKinds, wb_bufs[n], k) \cup WbBufs(n - 1))
    /\ UNCHANGED <<conn, drm_fd, writeback, requests, stale, decoder>>

(* modeset_attach_writeback(), with a request of its own. *)
modeset_attach_writeback ==
    LET req == modeset_atomic_prepare_commit(Empty, "osd", "osd1", TRUE)
    IN  /\ At("attach")
        /\ \/ CommitOk(req, live) /\ wb_enabled' = TRUE /\ Goto("check") /\ Holds({}, {})
           \/ CommitFails(req, live) /\ wb_enabled' = FALSE /\ Goto("osd") /\ Holds({}, WbBufs(WB_BUF_COUNT))
        /\ UNCHANGED <<conn, n, drm_fd, wb_available, wb_bufs_ready, dvr_wb_mode, requests,
                       decoder>>

(* Altered: the buffers are freed, but the connector is not detached. *)
CheckFailsAttached ==
    /\ At("check") /\ Fails /\ Goto("osd")
    /\ Holds({}, WbBufs(WB_BUF_COUNT))
    /\ UNCHANGED <<conn, n, drm_fd, writeback, requests, stale, decoder>>

(* modeset_check_writeback(): two commits, only tested. *)
CheckFails ==
    /\ At("check") /\ fails < MaxFailures /\ Goto("osd")
    /\ wb_enabled' = FALSE
    /\ \/ fails' = fails + 1 /\ routed' = FALSE
       \/ fails + 1 < MaxFailures /\ fails' = fails + 2 /\ UNCHANGED routed
    /\ Holds({}, WbBufs(WB_BUF_COUNT))
    /\ UNCHANGED <<conn, n, drm_fd, wb_available, wb_bufs_ready, dvr_wb_mode, requests, stale,
                   decoder>>

CheckWorks ==
    /\ At("check") /\ Works /\ Goto("osd")
    /\ wb_bufs_ready' = TRUE /\ dvr_wb_mode' = TRUE
    /\ UNCHANGED <<conn, n, drm_fd, live, misfreed, wb_available, wb_enabled, routed, requests,
                   stale, decoder>>

-----------------------------------------------------------------------------
(* Running.  OsdService::init() shows the OSD; main asserts it did. *)
OsdShown ==
    LET req == modeset_atomic_prepare_commit(osd_request, "osd", "osd1", wb_enabled)
    IN  /\ At("osd") /\ osd_request' = req
        /\ \/ CommitOk(req, live) /\ Goto("run")
           \/ CommitFails(req, live) /\ Goto("aborted")
        /\ UNCHANGED <<conn, n, drm_fd, live, misfreed, wb_available, wb_enabled, wb_bufs_ready,
                       dvr_wb_mode, video_request, decoder>>

(* The handles, framebuffers and descriptors of a group of the decoder. *)
FrameKinds == <<"group", "handle", "prime", "fb">>
Frames(g) == IF g = 0 THEN {} ELSE Parts(FrameKinds, frames[g], 4)

(* init_buffer(), at the start and whenever the resolution changes: the    *)
(* group there is, if any, is removed although the display thread may have *)
(* a frame of it yet to show; then the new one, and the modeset.           *)
init_buffer ==
    LET req == modeset_atomic_prepare_commit(video_request, "video", frames[groups + 1], wb_enabled)
        held == (live \cup Frames(groups + 1)) \ Frames(frm_grp)
    IN  /\ At("run") /\ groups < Len(frames)
        /\ groups' = groups + 1 /\ frm_grp' = groups + 1
        /\ video_request' = req /\ Holds(Frames(groups + 1), Frames(frm_grp))
        /\ \/ CommitOk(req, held) /\ UNCHANGED pc
           \/ CommitFails(req, held) /\ Goto(IF dvr_wb_mode THEN "fallback" ELSE "aborted")
        /\ UNCHANGED <<conn, n, drm_fd, wb_available, wb_enabled, wb_bufs_ready, dvr_wb_mode,
                       osd_request, video_fb_id, wb_commit_fails>>

(* A call that init_buffer() or cleanup_mpi() asserts on fails. *)
AssertFails ==
    /\ At("run") /\ Fails /\ Goto("aborted")
    /\ UNCHANGED <<conn, n, drm_fd, live, misfreed, writeback, requests, stale, decoder>>

(* The modeset failed with writeback: detach it, and try the request again *)
(* that still has the writeback connector's CRTC in it.                    *)
Detaches ==
    /\ At("fallback") /\ Goto("retry")
    /\ wb_enabled' = FALSE /\ dvr_wb_mode' = FALSE
    /\ modeset_detach_writeback
    /\ UNCHANGED <<conn, n, drm_fd, live, misfreed, wb_available, wb_bufs_ready, requests,
                   decoder>>

RetriesModeset ==
    LET req == modeset_atomic_prepare_commit(video_request, "video", frames[frm_grp], wb_enabled)
    IN  /\ At("retry") /\ video_request' = req
        /\ \/ CommitOk(req, live) /\ Goto("run")
           \/ CommitFails(req, live) /\ Goto("aborted")
        /\ UNCHANGED <<conn, n, drm_fd, live, misfreed, wb_available, wb_enabled, wb_bufs_ready,
                       dvr_wb_mode, osd_request, decoder>>

(* The FRAME thread hands over a frame, whether or not the last was shown. *)
HandOver ==
    /\ At("run") /\ frm_grp # 0 /\ video_fb_id' = frames[frm_grp] /\ Works
    /\ UNCHANGED <<pc, conn, n, drm_fd, live, misfreed, writeback, requests, stale, frm_grp,
                   groups, wb_commit_fails>>

(* A round of the display thread: a fresh request with the frame, if any,  *)
(* one of the OSD buffers, and a writeback job if a buffer is free.  The   *)
(* third commit in turn with a job that fails ends the capture.            *)
DisplayFrame ==
    \E osd \in OSD_BUFS, i \in 0 .. WB_BUF_COUNT :
        LET req == [Empty EXCEPT !["video"] = video_fb_id, !["osd"] = osd,
                                 !["wb_fb"] = IF i = 0 THEN Unset ELSE wb_bufs[i]]
        IN  /\ At("run")
            /\ (i # 0 => dvr_wb_mode /\ wb_enabled /\ video_fb_id # Unset)
            /\ video_request' = req /\ video_fb_id' = Unset
            /\ \/ /\ CommitOk(req, live) /\ UNCHANGED dvr_wb_mode
                  /\ wb_commit_fails' = IF i = 0 THEN wb_commit_fails ELSE 0
               \/ /\ CommitFails(req, live)
                  /\ wb_commit_fails' = IF i = 0 THEN wb_commit_fails ELSE wb_commit_fails + 1
                  /\ dvr_wb_mode' = (dvr_wb_mode /\ wb_commit_fails' < 3)
            /\ UNCHANGED <<pc, conn, n, drm_fd, live, misfreed, wb_available, wb_enabled,
                           wb_bufs_ready, osd_request, frm_grp, groups>>

(* cleanup_mpi() gives back a group but for the descriptors of its frames. *)
Unprimed(g) == {r \in Frames(g) : r[1] # "prime"}

(* restart_mpi(), when the codec changes. *)
restart_mpi ==
    /\ At("run") /\ Works /\ frm_grp # 0 /\ frm_grp' = 0
    /\ Holds({}, Unprimed(frm_grp))
    /\ UNCHANGED <<pc, conn, n, drm_fd, writeback, requests, stale, groups, video_fb_id,
                   wb_commit_fails>>

-----------------------------------------------------------------------------
(* The way out: cleanup_mpi(), then cleanup_drm() *)

cleanup_mpi ==
    /\ At("run") /\ Works /\ Goto("cleanup")
    /\ Holds({}, Unprimed(frm_grp)) /\ frm_grp' = 0
    /\ UNCHANGED <<conn, n, drm_fd, writeback, requests, stale, groups, video_fb_id,
                   wb_commit_fails>>

cleanup_writeback ==
    /\ At("cleanup") /\ Goto("restore")
    /\ wb_bufs_ready' = FALSE
    /\ IF wb_bufs_ready
       THEN wb_enabled' = FALSE /\ modeset_detach_writeback /\ Holds({}, WbBufs(WB_BUF_COUNT))
       ELSE Works /\ UNCHANGED <<wb_enabled, routed, stale, live, misfreed>>
    /\ UNCHANGED <<conn, n, drm_fd, wb_available, dvr_wb_mode, requests, decoder>>

(* Altered: the requests of the threads are used again. *)
RestoresUsedRequests(plane, from, to) ==
    LET used == IF plane = "osd" THEN osd_request ELSE video_request
        req == modeset_atomic_prepare_commit(used, plane, "osd1", wb_enabled)
    IN  /\ At(from) /\ Goto(to)
        /\ CommitOk(req, live) \/ CommitFails(req, live)
        /\ IF plane = "osd" THEN osd_request' = req /\ UNCHANGED video_request
                            ELSE video_request' = req /\ UNCHANGED osd_request
        /\ UNCHANGED <<conn, n, drm_fd, live, misfreed, wb_available, wb_enabled, wb_bufs_ready,
                       dvr_wb_mode, decoder>>

(* restore_planes_zpos(), with requests made anew.  A commit that fails is *)
(* only reported; a request that cannot be made or filled ends the restore.*)
restore_planes_zpos(plane, from, to) ==
    LET req == modeset_atomic_prepare_commit(Empty, plane, "osd1", wb_enabled)
    IN  /\ At(from)
        /\ \/ Goto(to) /\ (CommitOk(req, live) \/ CommitFails(req, live))
           \/ Goto("give back") /\ Fails /\ UNCHANGED <<routed, stale>>
        /\ IF plane = "osd" THEN osd_request' = req /\ UNCHANGED video_request
                            ELSE video_request' = req /\ UNCHANGED osd_request
        /\ UNCHANGED <<conn, n, drm_fd, live, misfreed, wb_available, wb_enabled, wb_bufs_ready,
                       dvr_wb_mode, decoder>>

modeset_output_destroy ==
    Objects \cup (IF wb_available THEN {R("props", "wb_connector")} ELSE {})
            \cup (UNION {modeset_destroy_fb(b) : b \in OSD_BUFS}) \cup OutBlob

(* drmModeSetCrtc() and the rest of cleanup_drm(), which ends the process  *)
(* if no CRTC was saved: saved_crtc is a null pointer.                     *)
cleanup_drm ==
    /\ At("give back") /\ Works
    /\ IF R("crtc", "saved") \in live
       THEN /\ Goto("end")
            /\ Holds({}, {R("crtc", "saved"), R("request", "video"), R("request", "osd")}
                         \cup modeset_output_destroy \cup {<<"fd", "card0", 0>>})
       ELSE Goto("aborted") /\ Holds({}, {})
    /\ UNCHANGED <<conn, n, drm_fd, writeback, requests, stale, decoder>>

-----------------------------------------------------------------------------
Next ==
    \/ modeset_open \/ modeset_prepare \/ NextConnector \/ modeset_output_create
    \/ modeset_find_crtc \/ FindPlanes \/ SetupObjects \/ SetupFramebuffers \/ OutObj \/ Requests
    \/ modeset_find_writeback \/ modeset_create_wb_fb \/ modeset_attach_writeback
    \/ CheckFails \/ CheckWorks \/ OsdShown
    \/ init_buffer \/ AssertFails \/ Detaches \/ RetriesModeset
    \/ HandOver \/ DisplayFrame \/ restart_mpi \/ cleanup_mpi \/ cleanup_writeback
    \/ restore_planes_zpos("osd", "restore", "restore video")
    \/ restore_planes_zpos("video", "restore video", "give back")
    \/ cleanup_drm

Spec == Init /\ [][Next]_vars

-----------------------------------------------------------------------------
(* Nothing is released that is not held, on any path through the error     *)
(* labels, and at the end the program holds nothing of the output it used  *)
(* but descriptors of frames, which cleanup_mpi() does not close and       *)
(* init_buffer() does; a group that was replaced has left nothing else.    *)
(* What attempts on other connectors left is known: the saved CRTC, and    *)
(* the properties of the video plane or the first OSD buffer if the next   *)
(* one could not be had.                                                   *)
ReleasedOnce ==
    /\ ~misfreed
    /\ pc = "end" => \A r \in live : r[1] # "fd" /\ (r[3] = conn => r[1] = "prime")
    /\ \A g \in 1 .. groups : g # frm_grp => \A r \in Frames(g) \cap live : r[1] = "prime"
    /\ \A r \in live : r[3] \in 1 .. conn - 1 =>
           r[1] = "crtc" \/ r[2] \in {"video_plane", "osd1"}

(* A commit names a removed framebuffer only when a resolution change or a *)
(* restart removed the decoder's while a frame was handed over and not yet *)
(* shown, and then once: no writeback buffer after a failed set-up or on   *)
(* the way out, where the requests of the threads hold the last job, and   *)
(* no frame that a request has kept.                                       *)
CommitsLive ==
    /\ stale \subseteq {frames[g] : g \in 1 .. groups} \ {frames[g] : g \in {frm_grp} \ {0}}
    /\ video_fb_id \notin stale

(* While the encoder is told to capture, the writeback connector is routed *)
(* and all its buffers exist; a set-up that failed half way leaves neither *)
(* buffers nor a program that believes the connector is attached.          *)
WritebackWhole ==
    pc \in {"osd", "run"} =>
        /\ dvr_wb_mode => wb_enabled /\ routed /\ WbBufs(WB_BUF_COUNT) \subseteq live
        /\ ~wb_bufs_ready => ~wb_enabled /\ WbBufs(WB_BUF_COUNT) \cap live = {}

(* main.cpp:251: without writeback the display is preserved.  A kernel     *)
(* that refuses the video only while writeback is routed, and nothing      *)
(* else, does not make init_buffer() fail its assertion.                   *)
DisplayPreserved == display.picky /\ fails = 0 => pc # "aborted"
=============================================================================
