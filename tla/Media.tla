------------------------------- MODULE Media --------------------------------
(***************************************************************************)
(* A photographer's photos and videos, from the upload to the gallery.     *)
(* api/app/api/v1/media.py, api/app/tasks/media_tasks.py, the Mux events of*)
(* api/v1/webhooks.py, the items of api/v1/proof_galleries.py, and the     *)
(* reading side in services/media_urls.py and api/v1/media_rights.py.      *)
(*                                                                         *)
(* A photo is uploaded to the bucket, completed, and worked on by a task   *)
(* that is queued after the commit; the task uploads the smaller copies    *)
(* under fixed keys and records two of them as media_object rows, which no *)
(* unique key protects, and four as media_derivative rows, one to a kind.  *)
(* The two object rows are written and read together: previews counts both.*)
(* Publishing a gallery asks for three derivatives once more.              *)
(***************************************************************************)
EXTENDS Integers, FiniteSets

CONSTANTS
    Photos,          \* media_asset rows of kind photo
    Videos,          \* media_asset rows of kind video
    MediaSessions,   \* requests and workers that may overlap
    MaxRuns          \* bound of the queued runs over one photo

ASSUME MediaAssumption == MaxRuns \in Nat

DerivativeKinds == {"thumbnail", "preview_watermarked", "web_res", "full_res"}
\* publish_gallery asks for these
GalleryKinds == DerivativeKinds \ {"full_res"}

VARIABLES
    photo,       \* media_asset.status of each photo, "none" before its upload
    blob,        \* photos whose original is in the bucket
    previews,    \* rows thumbnail and watermark_preview of each photo
    derived,     \* kinds of its media_derivative rows
    runsDue,     \* queued process_photo_variants tasks
    requested,       \* derivatives whose media.derivative.generate event was stored
    askedDue,    \* those that still have to be generated
    gallery,     \* photos attached to the proof gallery
    published,   \* whether it is published
    media,       \* what each session has read
    video,       \* media_asset.status of each video
    muxAsset,    \* videos whose provider_asset_id is known
    playable     \* videos with a playback_id

mediaVars == <<photo, blob, previews, derived, runsDue, requested, askedDue, gallery, published, media,
               video, muxAsset, playable>>
photoVars == <<photo, blob, previews, derived>>
askVars == <<requested, askedDue>>
galleryVars == <<gallery, published>>
videoVars == <<video, muxAsset, playable>>

\* The rows of the tables, as far as they are told apart.
MediaStatus == {"uploading", "processing", "ready", "failed"}
MediaAsset == [Photos -> MediaStatus \cup {"none"}]
MediaObject == [Photos -> Nat]
MediaDerivative == [Photos -> SUBSET DerivativeKinds]
ProofGalleryItem == SUBSET Photos

NoMedia == [op |-> "idle", photo |-> "none", seen |-> "none", previews |-> 0, derived |-> {}, kind |-> "none"]
MediaIdle(s) == media[s].op = "idle"
MediaDone(s) == media' = [media EXCEPT ![s] = NoMedia]

\* A session reads the asset and its rows shortly before it commits.
Loads(s, op, p, k) ==
    /\ MediaIdle(s)
    /\ media' = [media EXCEPT ![s] = [op |-> op, photo |-> p, seen |-> photo[p],
                                      previews |-> previews[p], derived |-> derived[p], kind |-> k]]

----------------------------------------------------------------------------
(* Upload *)

CreatePhotoUpload(p) ==
    /\ photo[p] = "none"
    /\ photo' = [photo EXCEPT ![p] = "uploading"]
    /\ UNCHANGED <<blob, previews, derived, runsDue, media, askVars, galleryVars, videoVars>>

\* The owner's PUT to the presigned URL
PutPhoto(p) ==
    /\ photo[p] # "none"
    /\ blob' = blob \cup {p}
    /\ UNCHANGED <<photo, previews, derived, runsDue, media, askVars, galleryVars, videoVars>>

\* complete_photo_upload takes the owner's word for it that the PUT was made.
BeginComplete(s, p) ==
    /\ photo[p] = "uploading" /\ Loads(s, "complete", p, "none")
    /\ UNCHANGED <<photoVars, runsDue, askVars, galleryVars, videoVars>>

CommitComplete(s) ==
    /\ media[s].op = "complete"
    /\ photo' = [photo EXCEPT ![media[s].photo] = "processing"]
    /\ media' = [media EXCEPT ![s].op = "queue"]
    /\ UNCHANGED <<blob, previews, derived, runsDue, askVars, galleryVars, videoVars>>

\* process_photo_variants.delay, after the commit
QueueRun(s) ==
    /\ media[s].op = "queue" /\ runsDue[media[s].photo] < MaxRuns
    /\ runsDue' = [runsDue EXCEPT ![media[s].photo] = @ + 1]
    /\ MediaDone(s)
    /\ UNCHANGED <<photoVars, askVars, galleryVars, videoVars>>

\* A request or a worker dies, or a failed derivative is only logged: the photo
\* of a request that had committed, or of a lost task, stays "processing".
AbortMedia(s) ==
    /\ ~MediaIdle(s) /\ MediaDone(s)
    /\ UNCHANGED <<photoVars, runsDue, askVars, galleryVars, videoVars>>

----------------------------------------------------------------------------
(* process_photo_variants *)

BeginRun(s, p) ==
    /\ runsDue[p] > 0
    /\ runsDue' = [runsDue EXCEPT ![p] = @ - 1]
    /\ Loads(s, "run", p, "none")
    /\ UNCHANGED <<photoVars, askVars, galleryVars, videoVars>>

InsertFailsMutNoKey(s, kinds) == FALSE
\* uq_media_derivative_asset_kind: a row that was not there when the session
\* looked, and is there now, makes its insert and the whole commit fail.
InsertFails(s, kinds) == kinds \cap (derived[media[s].photo] \ media[s].derived) # {}

\* _upsert_variant inserts or updates the one row it found; several raise.
\* The status is written only if it differs from the one that was read.
CommitRun(s) ==
    LET p == media[s].photo
    IN  /\ media[s].op = "run" /\ p \in blob
        /\ media[s].previews <= 1 /\ ~InsertFails(s, DerivativeKinds)
        /\ previews' = [previews EXCEPT ![p] = IF media[s].previews = 0 THEN @ + 1 ELSE @]
        /\ derived' = [derived EXCEPT ![p] = DerivativeKinds]
        /\ photo' = [photo EXCEPT ![p] = IF media[s].seen = "ready" THEN @ ELSE "ready"]
        /\ MediaDone(s)
        /\ UNCHANGED <<blob, runsDue, askVars, galleryVars, videoVars>>

\* No original to download, storage failing, a row inserted meanwhile: the
\* transaction is rolled back and another one marks the photo failed, though
\* an overlapping run may have made it ready.
FailRun(s) ==
    /\ media[s].op = "run"
    /\ photo' = [photo EXCEPT ![media[s].photo] = "failed"]
    /\ MediaDone(s)
    /\ UNCHANGED <<blob, previews, derived, runsDue, askVars, galleryVars, videoVars>>

----------------------------------------------------------------------------
(* The proof gallery *)

\* add_gallery_items: exactly one watermark_preview row, whatever the status
ReadyPreview(p) == previews[p] = 1

AddGalleryItem(p) ==
    /\ ReadyPreview(p)
    /\ gallery' = gallery \cup {p}
    /\ UNCHANGED <<photoVars, runsDue, media, askVars, published, videoVars>>

\* publish_gallery: the event of a derivative is stored once, for ever.
PublishGallery ==
    LET kinds == (gallery \X GalleryKinds) \ requested
    IN  /\ gallery # {}
        /\ published' = TRUE
        /\ requested' = requested \cup kinds
        /\ askedDue' = askedDue \cup kinds
        /\ UNCHANGED <<photoVars, runsDue, media, gallery, videoVars>>

\* generate_media_derivative_task
BeginDerive(s, p, k) ==
    /\ <<p, k>> \in askedDue
    /\ askedDue' = askedDue \ {<<p, k>>}
    /\ Loads(s, "derive", p, k)
    /\ UNCHANGED <<photoVars, runsDue, requested, galleryVars, videoVars>>

CommitDerive(s) ==
    /\ media[s].op = "derive" /\ media[s].photo \in blob
    /\ ~InsertFails(s, {media[s].kind})
    /\ derived' = [derived EXCEPT ![media[s].photo] = @ \cup {media[s].kind}]
    /\ MediaDone(s)
    /\ UNCHANGED <<photo, blob, previews, runsDue, askVars, galleryVars, videoVars>>

\* resolve_variant_urls without require_ready_asset: what get_gallery shows
Shown == {p \in gallery : previews[p] > 0}

\* _storage_key_for_kind: a derivative, or else the object row it goes back to,
\* the original ready as soon as a run has committed; two such rows raise.
Servable(p) ==
    derived[p] \cup (IF previews[p] = 1 THEN DerivativeKinds \ {"web_res"} ELSE {})

----------------------------------------------------------------------------
(* Videos *)

CreateMuxUpload(v) ==
    /\ video[v] = "none"
    /\ video' = [video EXCEPT ![v] = "uploading"]
    /\ UNCHANGED <<photoVars, runsDue, media, askVars, galleryVars, muxAsset, playable>>

\* _apply_mux_event, in whatever order the events are applied
MuxAssetCreated(v) ==
    /\ video[v] # "none"
    /\ muxAsset' = muxAsset \cup {v}
    /\ UNCHANGED <<photoVars, runsDue, media, askVars, galleryVars, video, playable>>

\* The event names the Mux asset: before it is known the event is lost.
MuxReady(v, withPlayback) ==
    /\ v \in muxAsset
    /\ video' = [video EXCEPT ![v] = "ready"]
    /\ playable' = IF withPlayback THEN playable \cup {v} ELSE playable
    /\ UNCHANGED <<photoVars, runsDue, media, askVars, galleryVars, muxAsset>>

MuxErrored(v) ==
    /\ v \in muxAsset
    /\ video' = [video EXCEPT ![v] = "failed"]
    /\ UNCHANGED <<photoVars, runsDue, media, askVars, galleryVars, muxAsset, playable>>

----------------------------------------------------------------------------
MediaInit ==
    /\ photo = [p \in Photos |-> "none"] /\ blob = {}
    /\ previews = [p \in Photos |-> 0] /\ derived = [p \in Photos |-> {}]
    /\ runsDue = [p \in Photos |-> 0] /\ requested = {} /\ askedDue = {}
    /\ gallery = {} /\ published = FALSE
    /\ media = [s \in MediaSessions |-> NoMedia]
    /\ video = [v \in Videos |-> "none"] /\ muxAsset = {} /\ playable = {}

MediaNext ==
    \/ \E p \in Photos : CreatePhotoUpload(p) \/ PutPhoto(p) \/ AddGalleryItem(p)
    \/ PublishGallery
    \/ \E s \in MediaSessions, p \in Photos :
          \/ BeginComplete(s, p) \/ BeginRun(s, p)
          \/ \E k \in GalleryKinds : BeginDerive(s, p, k)
    \/ \E s \in MediaSessions :
          CommitComplete(s) \/ QueueRun(s) \/ CommitRun(s) \/ FailRun(s) \/ CommitDerive(s) \/ AbortMedia(s)
    \/ \E v \in Videos :
          \/ CreateMuxUpload(v) \/ MuxAssetCreated(v) \/ MuxErrored(v)
          \/ \E withPlayback \in BOOLEAN : MuxReady(v, withPlayback)

MediaSpec == MediaInit /\ [][MediaNext]_mediaVars
----------------------------------------------------------------------------
MediaTypeOK ==
    /\ photo \in MediaAsset /\ previews \in MediaObject /\ derived \in MediaDerivative
    /\ \A p \in Photos : runsDue[p] \in 0..MaxRuns
    /\ askedDue \subseteq requested /\ requested \subseteq Photos \X GalleryKinds
    /\ blob \subseteq Photos /\ gallery \in ProofGalleryItem /\ published \in BOOLEAN
    /\ \A v \in Videos : video[v] \in {"none", "uploading", "ready", "failed"}
    /\ playable \subseteq muxAsset /\ muxAsset \subseteq Videos

\* A photo of a gallery is shown and every copy of it can be served, though
\* runs over it overlap, fail after another succeeded and mark it failed: the
\* client can go on choosing (media_urls.py:121-128).  No lookup that expects
\* one row finds two, which no key of media_object prevents.
GalleryStaysWhole ==
    \A p \in gallery : p \in Shown /\ previews[p] = 1 /\ Servable(p) = DerivativeKinds
=============================================================================
