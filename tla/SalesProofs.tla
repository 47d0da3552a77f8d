----------------------------- MODULE SalesProofs -----------------------------
(***************************************************************************)
(* Proofs about what is sold and delivered, for any photos, packs, vaults, *)
(* mails, messages, editors and workers: a proof gallery stays whole       *)
(* (Media), the vault is final as the client decided (LegacyShoots), the   *)
(* assistant answers a message once (Chats), a captured print is exported  *)
(* once (Prints), a pack that is sold was validated (Studioverse), and a   *)
(* mail is sent once (Notifications).                                      *)
(***************************************************************************)
EXTENDS Prints, Studioverse, LegacyShoots, Notifications, Chats, Media, TLAPS

----------------------------------------------------------------------------
(* Media.  A photo has no copy, or all of them: what a derivative task adds  *)
(* was there, and of two runs that both found nothing the unique key lets    *)
(* one commit.                                                               *)

Bare(p) == previews[p] = 0 /\ derived[p] = {}
Worked(p) == previews[p] = 1 /\ derived[p] = DerivativeKinds

Looked(s) ==
    /\ {"op", "photo"} \subseteq DOMAIN media[s]
    /\ media[s].op \in {"run", "derive", "complete", "queue"} => media[s].photo \in Photos
    /\ media[s].op = "run" =>
          (media[s].previews = 0 /\ media[s].derived = {}) \/ (media[s].previews = 1 /\ Worked(media[s].photo))
    /\ media[s].op = "derive" => Worked(media[s].photo) /\ media[s].kind \in DerivativeKinds

GalleryInv ==
    /\ previews = [p \in Photos |-> previews[p]] /\ derived = [p \in Photos |-> derived[p]]
    /\ media = [s \in MediaSessions |-> media[s]]
    /\ \A p \in Photos : Bare(p) \/ Worked(p)
    /\ gallery \subseteq Photos /\ \A p \in gallery : Worked(p)
    /\ \A ask \in askedDue : ask[1] \in gallery /\ ask[2] \in DerivativeKinds
    /\ \A s \in MediaSessions : Looked(s)

\* A step that leaves the copies alone
LEMMA CopiesStay ==
    ASSUME GalleryInv, UNCHANGED <<previews, derived>>,
           gallery' \subseteq Photos, \A p \in gallery' : Worked(p),
           \A ask \in askedDue' : ask[1] \in gallery' /\ ask[2] \in DerivativeKinds,
           media' = [s \in MediaSessions |-> media'[s]],
           \A s \in MediaSessions : media'[s] = media[s] \/ Looked(s)'
    PROVE  GalleryInv'
<1>1. \A p : Worked(p)' = Worked(p) /\ Bare(p)' = Bare(p)
    BY DEF Worked, Bare
<1>2. ASSUME NEW s \in MediaSessions, media'[s] = media[s] PROVE Looked(s)'
    BY <1>1, <1>2 DEF GalleryInv, Looked, Worked
<1> QED BY <1>1, <1>2 DEF GalleryInv

\* A session starts with what it read, ends, or goes on to queue its run.
LEMMA OneSession ==
    ASSUME GalleryInv, NEW s \in MediaSessions, NEW row, media' = [media EXCEPT ![s] = row],
           {"op", "photo"} \subseteq DOMAIN row,
           row.op \in {"run", "derive", "complete", "queue"} => row.photo \in Photos,
           row.op = "run" => (row.previews = 0 /\ row.derived = {}) \/ (row.previews = 1 /\ Worked(row.photo)'),
           row.op = "derive" => Worked(row.photo)' /\ row.kind \in DerivativeKinds
    PROVE  media' = [x \in MediaSessions |-> media'[x]] /\ \A x \in MediaSessions : media'[x] = media[x] \/ Looked(x)'
<1>1. media'[s] = row /\ \A x \in MediaSessions \ {s} : media'[x] = media[x]
    BY DEF GalleryInv
<1>2. Looked(s)'
    BY <1>1 DEF Looked, Worked
<1> QED BY <1>1, <1>2 DEF GalleryInv

LEMMA DoneSession ==
    ASSUME GalleryInv, NEW s \in MediaSessions, MediaDone(s)
    PROVE  media' = [x \in MediaSessions |-> media'[x]] /\ \A x \in MediaSessions : media'[x] = media[x] \/ Looked(x)'
<1>1. NoMedia.op = "idle" /\ {"op", "photo"} \subseteq DOMAIN NoMedia /\ media' = [media EXCEPT ![s] = NoMedia]
    BY DEF NoMedia, MediaDone
<1> HIDE DEF NoMedia
<1> QED BY <1>1, OneSession

LEMMA LoadsSession ==
    ASSUME GalleryInv, NEW s \in MediaSessions, NEW p \in Photos, NEW op, NEW k, Loads(s, op, p, k),
           UNCHANGED <<previews, derived>>, op = "derive" => Worked(p) /\ k \in DerivativeKinds
    PROVE  media' = [x \in MediaSessions |-> media'[x]] /\ \A x \in MediaSessions : media'[x] = media[x] \/ Looked(x)'
<1>0. PICK row : row = [op |-> op, photo |-> p, seen |-> photo[p], previews |-> previews[p],
                        derived |-> derived[p], kind |-> k]
    OBVIOUS
<1>1. /\ row.op = op /\ row.photo = p /\ row.previews = previews[p] /\ row.derived = derived[p] /\ row.kind = k
      /\ media' = [media EXCEPT ![s] = row] /\ {"op", "photo"} \subseteq DOMAIN row
    BY <1>0 DEF Loads
<1>2. Bare(p) \/ Worked(p)
    BY DEF GalleryInv
<1>4. Worked(p)' = Worked(p)
    BY DEF Worked
<1>3. (row.previews = 0 /\ row.derived = {}) \/ (row.previews = 1 /\ Worked(row.photo)')
    BY <1>1, <1>2, <1>4 DEF Bare, Worked
<1>5. row.op = "derive" => Worked(row.photo)' /\ row.kind \in DerivativeKinds
    <2>1. ASSUME row.op = "derive" PROVE Worked(row.photo)' /\ row.kind \in DerivativeKinds
        <3>1. row.photo = p /\ row.kind = k
            BY <1>1
        <3>2. Worked(p)' /\ k \in DerivativeKinds
            BY <1>1, <1>4, <2>1
        <3> QED BY <3>1, <3>2 DEF Worked
    <2> QED BY <2>1
<1> QED BY <1>1, <1>3, <1>5, OneSession

\* A step that makes bare photos whole, and no other difference to the copies
LEMMA CopiesGrow ==
    ASSUME GalleryInv, NEW s \in MediaSessions, MediaDone(s), UNCHANGED <<askedDue, gallery>>,
           previews' = [p \in Photos |-> previews'[p]], derived' = [p \in Photos |-> derived'[p]],
           \A p \in Photos : (Bare(p) /\ Bare(p)') \/ Worked(p)', \A p \in Photos : Worked(p) => Worked(p)'
    PROVE  GalleryInv'
<1>1. /\ media' = [x \in MediaSessions |-> media'[x]]
      /\ \A x \in MediaSessions : media'[x] = media[x] \/ Looked(x)'
    BY DoneSession
<1>2. ASSUME NEW x \in MediaSessions, media'[x] = media[x] PROVE Looked(x)'
    <2>1. PICK q : q = media[x].photo
        OBVIOUS
    <2>2. q = media'[x].photo
        BY <1>2, <2>1
    <2>3. media[x].op \in {"run", "derive"} => q \in Photos /\ (Worked(q) => Worked(q)')
        BY <2>1 DEF GalleryInv, Looked
    <2>4. /\ Worked(media[x].photo) = Worked(q)
          /\ (Worked(media[x].photo))' = Worked(q)'
        BY <2>1, <2>2 DEF Worked
    <2> QED BY <1>2, <2>3, <2>4 DEF GalleryInv, Looked
<1> QED BY <1>1, <1>2 DEF GalleryInv

\* A run writes every copy, and only over a photo that has none or all.
LEMMA RunStep == ASSUME GalleryInv, NEW s \in MediaSessions, CommitRun(s) PROVE GalleryInv'
<1>0. PICK p : p = media[s].photo
    OBVIOUS
<1>1. /\ p \in Photos /\ Looked(s) /\ media[s].op = "run" /\ ~InsertFails(s, DerivativeKinds)
      /\ derived' = [derived EXCEPT ![p] = DerivativeKinds]
      /\ previews' = [previews EXCEPT ![p] = IF media[s].previews = 0 THEN previews[p] + 1 ELSE previews[p]]
      /\ MediaDone(s) /\ UNCHANGED <<askedDue, gallery>>
    BY <1>0 DEF CommitRun, GalleryInv, Looked, askVars, galleryVars
<1>2. Bare(p) \/ Worked(p)
    BY <1>1 DEF GalleryInv
<1>3. media[s].previews = 0 => Bare(p)
    <2>1. ASSUME media[s].previews = 0, Worked(p) PROVE FALSE
        <3>1. media[s].derived = {} /\ derived[media[s].photo] = DerivativeKinds
            BY <1>0, <1>1, <2>1 DEF Looked, Worked
        <3>2. DerivativeKinds \cap (DerivativeKinds \ {}) # {}
            BY DEF DerivativeKinds
        <3> QED BY <1>1, <3>1, <3>2 DEF InsertFails
    <2> QED BY <1>2, <2>1
<1>4. media[s].previews # 0 => Worked(p)
    BY <1>0, <1>1 DEF Looked
<1>5. /\ previews' = [q \in Photos |-> previews'[q]] /\ derived' = [q \in Photos |-> derived'[q]]
      /\ derived'[p] = DerivativeKinds
      /\ previews'[p] = IF media[s].previews = 0 THEN previews[p] + 1 ELSE previews[p]
      /\ \A q \in Photos \ {p} : derived'[q] = derived[q] /\ previews'[q] = previews[q]
    BY <1>1 DEF GalleryInv
<1>6. previews'[p] = 1
    BY <1>3, <1>4, <1>5 DEF Bare, Worked
<1>7. Worked(p)' /\ \A q \in Photos \ {p} : Worked(q)' = Worked(q) /\ Bare(q)' = Bare(q)
    BY <1>5, <1>6 DEF Worked, Bare
<1>8. \A q \in Photos : (Bare(q) /\ Bare(q)') \/ Worked(q)'
    BY <1>7 DEF GalleryInv
<1> QED BY <1>1, <1>5, <1>7, <1>8, CopiesGrow

\* A derivative of a photo of the gallery was there.
LEMMA DeriveStep == ASSUME GalleryInv, NEW s \in MediaSessions, CommitDerive(s) PROVE GalleryInv'
<1>0. PICK p, k : p = media[s].photo /\ k = media[s].kind
    OBVIOUS
<1>1. /\ p \in Photos /\ Worked(p) /\ k \in DerivativeKinds /\ MediaDone(s)
      /\ derived' = [derived EXCEPT ![p] = derived[p] \cup {k}] /\ UNCHANGED <<previews, askedDue, gallery>>
    BY <1>0 DEF CommitDerive, GalleryInv, Looked, askVars, galleryVars
<1>2. derived'[p] = derived[p] /\ \A q \in Photos \ {p} : derived'[q] = derived[q]
    BY <1>1 DEF GalleryInv, Worked
<1>3. derived' = [q \in Photos |-> derived'[q]]
    BY <1>1 DEF GalleryInv
<1>4. \A q \in Photos : Worked(q)' = Worked(q) /\ Bare(q)' = Bare(q)
    BY <1>1, <1>2 DEF Worked, Bare
<1> QED BY <1>1, <1>3, <1>4, CopiesGrow DEF GalleryInv

LEMMA CompleteStep == ASSUME GalleryInv, NEW s \in MediaSessions, CommitComplete(s) PROVE GalleryInv'
<1>0. PICK row : row = [media[s] EXCEPT !.op = "queue"]
    OBVIOUS
<1>1. media[s].photo \in Photos /\ media' = [media EXCEPT ![s] = row]
      /\ UNCHANGED <<previews, derived, askedDue, gallery>>
    BY <1>0 DEF CommitComplete, GalleryInv, Looked, askVars, galleryVars
<1>2. {"op", "photo"} \subseteq DOMAIN media[s]
    BY DEF GalleryInv, Looked
<1>3. DOMAIN row = DOMAIN media[s] /\ row.op = "queue" /\ row.photo = media[s].photo
    <2>1. "op" \in DOMAIN media[s] /\ "photo" \in DOMAIN media[s] /\ "op" # "photo"
        BY <1>2
    <2>2. PICK x : x = media[s]
        OBVIOUS
    <2>3. row = [x EXCEPT !.op = "queue"] /\ "op" \in DOMAIN x /\ "photo" \in DOMAIN x
        BY <1>0, <2>1, <2>2
    <2>4. DOMAIN row = DOMAIN x /\ row.op = "queue" /\ row.photo = x.photo
        BY <2>3
    <2> QED BY <2>2, <2>4
<1> QED BY <1>1, <1>2, <1>3, OneSession, CopiesStay DEF GalleryInv

LEMMA MediaStep == ASSUME GalleryInv, [MediaNext]_mediaVars PROVE GalleryInv'
<1>1. CASE UNCHANGED mediaVars
    BY <1>1, CopiesStay DEF mediaVars, GalleryInv
<1>2. ASSUME NEW p \in Photos, CreatePhotoUpload(p) \/ PutPhoto(p) PROVE GalleryInv'
    BY <1>2, CopiesStay DEF CreatePhotoUpload, PutPhoto, GalleryInv, askVars, galleryVars
<1>3. ASSUME NEW p \in Photos, AddGalleryItem(p) PROVE GalleryInv'
    <2>1. Worked(p) /\ gallery' = gallery \cup {p} /\ UNCHANGED <<previews, derived, media, askedDue>>
        BY <1>3 DEF AddGalleryItem, ReadyPreview, GalleryInv, Bare, photoVars, askVars
    <2> QED BY <2>1, CopiesStay DEF GalleryInv
<1>4. CASE PublishGallery
    <2>1. /\ askedDue' = askedDue \cup ((gallery \X GalleryKinds) \ requested)
          /\ UNCHANGED <<previews, derived, media, gallery>>
        BY <1>4 DEF PublishGallery, photoVars
    <2>2. \A ask \in gallery \X GalleryKinds : ask[1] \in gallery /\ ask[2] \in DerivativeKinds
        BY DEF GalleryKinds
    <2> QED BY <2>1, <2>2, CopiesStay DEF GalleryInv
<1>5. ASSUME NEW s \in MediaSessions, NEW p \in Photos, BeginComplete(s, p) \/ BeginRun(s, p) PROVE GalleryInv'
    <2>1. \E op \in {"complete", "run"} : \E k : Loads(s, op, p, k)
        BY <1>5 DEF BeginComplete, BeginRun
    <2>2. UNCHANGED <<previews, derived, askedDue, gallery>>
        BY <1>5 DEF BeginComplete, BeginRun, photoVars, askVars, galleryVars
    <2>3. media' = [x \in MediaSessions |-> media'[x]] /\ \A x \in MediaSessions : media'[x] = media[x] \/ Looked(x)'
        BY <2>1, <2>2, LoadsSession
    <2> QED BY <2>2, <2>3, CopiesStay DEF GalleryInv
<1>6. ASSUME NEW s \in MediaSessions, NEW p \in Photos, NEW k \in GalleryKinds, BeginDerive(s, p, k) PROVE GalleryInv'
    <2>1. /\ <<p, k>> \in askedDue /\ askedDue' \subseteq askedDue /\ Loads(s, "derive", p, k)
          /\ UNCHANGED <<previews, derived, gallery>>
        BY <1>6 DEF BeginDerive, photoVars, galleryVars
    <2>2. Worked(p) /\ k \in DerivativeKinds
        <3>1. <<p, k>>[1] \in gallery /\ <<p, k>>[2] \in DerivativeKinds
            BY <2>1 DEF GalleryInv
        <3> QED BY <3>1 DEF GalleryInv
    <2>3. media' = [x \in MediaSessions |-> media'[x]] /\ \A x \in MediaSessions : media'[x] = media[x] \/ Looked(x)'
        BY <2>1, <2>2, LoadsSession
    <2> QED BY <2>1, <2>3, CopiesStay DEF GalleryInv
<1>7. ASSUME NEW s \in MediaSessions, QueueRun(s) \/ FailRun(s) \/ AbortMedia(s) PROVE GalleryInv'
    <2>1. MediaDone(s) /\ UNCHANGED <<previews, derived, askedDue, gallery>>
        BY <1>7 DEF QueueRun, FailRun, AbortMedia, photoVars, askVars, galleryVars
    <2>2. media' = [x \in MediaSessions |-> media'[x]] /\ \A x \in MediaSessions : media'[x] = media[x] \/ Looked(x)'
        BY <2>1, DoneSession
    <2> QED BY <2>1, <2>2, CopiesStay DEF GalleryInv
<1>8. ASSUME NEW v \in Videos, \/ CreateMuxUpload(v) \/ MuxAssetCreated(v) \/ MuxErrored(v)
                               \/ \E withPlayback \in BOOLEAN : MuxReady(v, withPlayback)
      PROVE  GalleryInv'
    <2>1. UNCHANGED <<previews, derived, askedDue, gallery, media>>
        BY <1>8 DEF CreateMuxUpload, MuxAssetCreated, MuxErrored, MuxReady, photoVars, askVars, galleryVars
    <2> QED BY <2>1, CopiesStay DEF GalleryInv
<1> QED BY <1>1, <1>2, <1>3, <1>4, <1>5, <1>6, <1>7, <1>8, RunStep, DeriveStep, CompleteStep DEF MediaNext

\* A gallery stays whole: what the client was shown is there in every copy,
\* however runs over its photos overlap, fail and come again.
THEOREM GalleriesStayWhole == MediaSpec => []GalleryStaysWhole
<1>1. ASSUME MediaInit PROVE GalleryInv
    <2>1. NoMedia.op = "idle" /\ {"op", "photo"} \subseteq DOMAIN NoMedia
        BY DEF NoMedia
    <2>2. \A s \in MediaSessions : Looked(s)
        BY <1>1, <2>1 DEF MediaInit, Looked
    <2>3. \A p \in Photos : Bare(p)
        BY <1>1 DEF MediaInit, Bare
    <2> QED BY <1>1, <2>2, <2>3 DEF MediaInit, GalleryInv
<1>2. GalleryInv /\ [MediaNext]_mediaVars => GalleryInv'
    BY MediaStep
<1>3. ASSUME GalleryInv PROVE GalleryStaysWhole
    <2>1. ASSUME NEW p \in gallery PROVE previews[p] = 1 /\ derived[p] = DerivativeKinds
        BY <1>3 DEF GalleryInv, Worked
    <2>2. ASSUME NEW p \in gallery PROVE p \in Shown /\ Servable(p) = DerivativeKinds
        BY <2>1 DEF Shown, Servable
    <2> QED BY <2>1, <2>2 DEF GalleryStaysWhole
<1> QED BY <1>1, <1>2, <1>3, PTL DEF MediaSpec

----------------------------------------------------------------------------
(* The assistant.  The messages two sessions hold are different, those of a  *)
(* request are not written yet and those of a dispatcher wait for a reply.   *)

Holds(s) ==
    /\ chatting[s].op \in {"append", "post"} => chatting[s].messages \cap written = {}
    /\ chatting[s].op = "dispatch" => chatting[s].messages \subseteq dueReply
    /\ chatting[s].op \notin {"append", "post", "dispatch"} => chatting[s].messages = {}

ChatInv ==
    /\ chatting = [s \in ChatSessions |-> chatting[s]] /\ replies \in [ChatMessages -> Nat]
    /\ \A m \in dueReply : m \in written /\ (m \in ChatMessages => replies[m] = 0)
    /\ \A m \in ChatMessages : replies[m] <= 1 /\ (m \notin written => replies[m] = 0)
    /\ \A s \in ChatSessions : Holds(s)
    /\ \A s, t \in ChatSessions : s # t => chatting[s].messages \cap chatting[t].messages = {}

\* A step that keeps what sessions hold, or ends one
LEMMA NothingSaid ==
    ASSUME ChatInv, UNCHANGED <<written, dueReply, replies>>,
           chatting' = chatting \/ \E s \in ChatSessions : Done(s)
    PROVE  ChatInv'
<1>1. CASE chatting' = chatting
    BY <1>1 DEF ChatInv, Holds
<1>2. ASSUME NEW s \in ChatSessions, Done(s) PROVE ChatInv'
    <2>1. NotChatting.op = "idle" /\ NotChatting.messages = {}
        BY DEF NotChatting
    <2>2. chatting'[s] = NotChatting /\ \A t \in ChatSessions \ {s} : chatting'[t] = chatting[t]
        BY <1>2 DEF Done, ChatInv
    <2>3. chatting' = [t \in ChatSessions |-> chatting'[t]]
        BY <1>2 DEF Done, ChatInv
    <2>4. \A t \in ChatSessions : Holds(t)'
        BY <2>1, <2>2 DEF ChatInv, Holds
    <2>5. \A t, u \in ChatSessions : t # u => chatting'[t].messages \cap chatting'[u].messages = {}
        BY <2>1, <2>2 DEF ChatInv
    <2> QED BY <2>3, <2>4, <2>5 DEF ChatInv
<1> QED BY <1>1, <1>2

\* A session begins with messages nobody holds.
LEMMA BeginsChat ==
    ASSUME ChatInv, NEW s \in ChatSessions, NEW op, NEW S, Reads(s, op, S),
           op \in {"append", "post"} => S \cap written = {},
           op = "dispatch" => S \subseteq dueReply,
           op \notin {"append", "post", "dispatch"} => S = {},
           \A t \in ChatSessions \ {s} : S \cap chatting[t].messages = {}
    PROVE  ChatInv'
<1> DEFINE row == [op |-> op, messages |-> S, seen |-> thread, used |-> used]
<1>1. row.op = op /\ row.messages = S /\ chatting' = [chatting EXCEPT ![s] = row] /\ UNCHANGED <<written, dueReply, replies>>
    BY DEF Reads
<1> HIDE DEF row
<1>2. chatting'[s] = row /\ \A t \in ChatSessions \ {s} : chatting'[t] = chatting[t]
    BY <1>1 DEF ChatInv
<1>3. chatting' = [t \in ChatSessions |-> chatting'[t]]
    BY <1>1 DEF ChatInv
<1>4. \A t \in ChatSessions : Holds(t)'
    BY <1>1, <1>2 DEF ChatInv, Holds
<1>5. \A t, u \in ChatSessions : t # u => chatting'[t].messages \cap chatting'[u].messages = {}
    BY <1>1, <1>2 DEF ChatInv
<1> QED BY <1>1, <1>3, <1>4, <1>5 DEF ChatInv

\* A request writes its message, which is answered with it, asked to be
\* answered, or neither.
LEMMA WritesMessage ==
    ASSUME ChatInv, NEW s \in ChatSessions, chatting[s].op \in {"append", "post"},
           written' = written \cup chatting[s].messages, Done(s),
           \/ replies' = replies /\ dueReply' \in {dueReply, dueReply \cup chatting[s].messages}
           \/ replies' = Answered(chatting[s].messages) /\ dueReply' = dueReply
    PROVE  ChatInv'
<1>0. PICK S : S = chatting[s].messages
    OBVIOUS
<1>1. S \cap written = {} /\ \A t \in ChatSessions \ {s} : S \cap chatting[t].messages = {}
    BY <1>0 DEF ChatInv, Holds
<1>2. NotChatting.op = "idle" /\ NotChatting.messages = {}
    BY DEF NotChatting
<1>3. chatting'[s] = NotChatting /\ \A t \in ChatSessions \ {s} : chatting'[t] = chatting[t]
    BY DEF Done, ChatInv
<1>4. chatting' = [t \in ChatSessions |-> chatting'[t]]
    BY DEF Done, ChatInv
<1>5. written' = written \cup S /\ dueReply \subseteq dueReply' /\ dueReply' \subseteq dueReply \cup S
    BY <1>0
<1>6. \A t \in ChatSessions : Holds(t)'
    <2>1. ASSUME NEW t \in ChatSessions \ {s} PROVE Holds(t)'
        <3>1. Holds(t) /\ chatting'[t] = chatting[t] /\ S \cap chatting[t].messages = {}
            BY <1>1, <1>3 DEF ChatInv
        <3> QED BY <1>5, <3>1 DEF Holds
    <2>2. Holds(s)'
        BY <1>2, <1>3 DEF Holds
    <2> QED BY <2>1, <2>2
<1>7. \A t, u \in ChatSessions : t # u => chatting'[t].messages \cap chatting'[u].messages = {}
    BY <1>2, <1>3 DEF ChatInv
<1>8. replies' = replies \/ (dueReply' = dueReply /\ replies' = [m \in ChatMessages |-> IF m \in S THEN replies[m] + 1 ELSE replies[m]])
    BY <1>0 DEF Answered
<1>9. replies' \in [ChatMessages -> Nat] /\ \A m \in ChatMessages : replies'[m] = replies[m] \/ (m \in S /\ replies'[m] = 1)
    BY <1>1, <1>8 DEF ChatInv
<1>10. \A m \in ChatMessages : replies'[m] <= 1 /\ (m \notin written' => replies'[m] = 0)
    BY <1>1, <1>5, <1>9 DEF ChatInv
<1>11. \A m \in dueReply' : m \in written' /\ (m \in ChatMessages => replies'[m] = 0)
    BY <1>1, <1>5, <1>8 DEF ChatInv
<1> QED BY <1>4, <1>6, <1>7, <1>9, <1>10, <1>11 DEF ChatInv

\* A dispatcher takes what waited.
LEMMA RepliesStep ==
    ASSUME ChatInv, NEW s \in ChatSessions, NEW draft, CommitReply(s, draft)
    PROVE  ChatInv'
<1>0. PICK S : S = chatting[s].messages
    OBVIOUS
<1>1. S \subseteq dueReply /\ \A t \in ChatSessions \ {s} : S \cap chatting[t].messages = {}
    BY <1>0 DEF CommitReply, ChatInv, Holds
<1>2. NotChatting.op = "idle" /\ NotChatting.messages = {}
    BY DEF NotChatting
<1>3. chatting'[s] = NotChatting /\ \A t \in ChatSessions \ {s} : chatting'[t] = chatting[t]
    BY DEF CommitReply, Done, ChatInv
<1>4. chatting' = [t \in ChatSessions |-> chatting'[t]]
    BY DEF CommitReply, Done, ChatInv
<1>5. written' = written /\ dueReply' = dueReply \ S
    BY <1>0 DEF CommitReply
<1>6. \A t \in ChatSessions : Holds(t)'
    <2>1. ASSUME NEW t \in ChatSessions \ {s} PROVE Holds(t)'
        <3>1. Holds(t) /\ chatting'[t] = chatting[t] /\ S \cap chatting[t].messages = {}
            BY <1>1, <1>3 DEF ChatInv
        <3> QED BY <1>5, <3>1 DEF Holds
    <2>2. Holds(s)'
        BY <1>2, <1>3 DEF Holds
    <2> QED BY <2>1, <2>2
<1>7. \A t, u \in ChatSessions : t # u => chatting'[t].messages \cap chatting'[u].messages = {}
    BY <1>2, <1>3 DEF ChatInv
<1>8. replies' = replies \/ replies' = [m \in ChatMessages |-> IF m \in S THEN replies[m] + 1 ELSE replies[m]]
    BY <1>0 DEF CommitReply, Answered
<1>9. replies' \in [ChatMessages -> Nat] /\ \A m \in ChatMessages : replies'[m] = replies[m] \/ (m \in S /\ replies'[m] = 1)
    BY <1>1, <1>8 DEF ChatInv
<1>10. \A m \in ChatMessages : replies'[m] <= 1 /\ (m \notin written' => replies'[m] = 0)
    BY <1>1, <1>5, <1>9 DEF ChatInv
<1>11. \A m \in dueReply' : m \in written' /\ (m \in ChatMessages => replies'[m] = 0)
    BY <1>5, <1>9 DEF ChatInv
<1> QED BY <1>4, <1>6, <1>7, <1>9, <1>10, <1>11 DEF ChatInv

LEMMA ChatStep == ASSUME ChatInv, [ChatsNext]_chatVars PROVE ChatInv'
<1>1. CASE UNCHANGED chatVars
    BY <1>1, NothingSaid DEF chatVars
<1>2. CASE OpenThread \/ SwitchAi \/ CloseThread \/ BookFromDraft \/ \E draft \in {"partial", "complete"} : DraftForPro(draft)
    BY <1>2, NothingSaid DEF OpenThread, SwitchAi, CloseThread, BookFromDraft, DraftForPro
<1>3. ASSUME NEW s \in ChatSessions, NEW m \in ChatMessages, BeginAppend(s, m) \/ BeginPost(s, m) PROVE ChatInv'
    <2>1. PICK op \in {"append", "post"} : Reads(s, op, {m})
        BY <1>3 DEF BeginAppend, BeginPost
    <2>2. m \notin written /\ \A t \in ChatSessions : m \notin chatting[t].messages
        BY <1>3 DEF BeginAppend, BeginPost, Unwritten
    <2>3. {m} \cap written = {} /\ \A t \in ChatSessions \ {s} : {m} \cap chatting[t].messages = {}
        BY <2>2
    <2> QED BY <2>1, <2>3, BeginsChat
<1>4. ASSUME NEW s \in ChatSessions, CommitAppend(s) \/ CommitHandoff(s) \/ CommitPost(s) PROVE ChatInv'
    BY <1>4, WritesMessage DEF CommitAppend, CommitHandoff, CommitPost
<1>5. ASSUME NEW s \in ChatSessions, NEW draft, CommitAnswer(s, draft) PROVE ChatInv'
    BY <1>5, WritesMessage DEF CommitAnswer
<1>6. ASSUME NEW s \in ChatSessions, BeginReply(s) PROVE ChatInv'
    <2>1. PICK S \in SUBSET (dueReply \ ClaimedReplies) : Reads(s, "dispatch", S)
        BY <1>6 DEF BeginReply
    <2>2. ASSUME NEW t \in ChatSessions \ {s} PROVE S \cap chatting[t].messages = {}
        <3>1. CASE chatting[t].op = "dispatch"
            BY <2>1, <3>1 DEF ClaimedReplies
        <3>2. CASE chatting[t].op \in {"append", "post"}
            <4>1. chatting[t].messages \cap written = {}
                BY <3>2 DEF ChatInv, Holds
            <4>2. S \subseteq written
                BY <2>1 DEF ChatInv
            <4> QED BY <4>1, <4>2
        <3>3. CASE chatting[t].op \notin {"append", "post", "dispatch"}
            BY <3>3 DEF ChatInv, Holds
        <3> QED BY <3>1, <3>2, <3>3
    <2> QED BY <2>1, <2>2, BeginsChat
<1>7. ASSUME NEW s \in ChatSessions, NEW op, BeginPro(s, op) PROVE ChatInv'
    <2>1. op \in {"pro_takeover", "pro_active"} /\ Reads(s, op, {})
        BY <1>7 DEF BeginPro
    <2>2. op \notin {"append", "post", "dispatch"}
        BY <2>1
    <2> QED BY <2>1, <2>2, BeginsChat
<1>8. ASSUME NEW s \in ChatSessions, CommitPro(s) \/ AbortChat(s) PROVE ChatInv'
    BY <1>8, NothingSaid DEF CommitPro, AbortChat
<1> QED BY <1>1, <1>2, <1>3, <1>4, <1>5, <1>6, <1>7, <1>8, RepliesStep DEF ChatsNext

\* A message of the client is answered once at most, and none that was not
\* committed, by however many requests and dispatchers.
THEOREM MessagesAreAnsweredOnce == ChatsSpec => []AnsweredOnce
<1>1. ChatsInit => ChatInv
    BY DEF ChatsInit, ChatInv, Holds, NotChatting
<1>2. ChatInv /\ [ChatsNext]_chatVars => ChatInv'
    BY ChatStep
<1>3. ChatInv => AnsweredOnce
    BY DEF ChatInv, AnsweredOnce
<1> QED BY <1>1, <1>2, <1>3, PTL DEF ChatsSpec

----------------------------------------------------------------------------
(* Content packs.  While a submission waits for its review nobody edits the  *)
(* pack, as long as one request of the creator and one of an admin are       *)
(* handled at a time; two of either break it.                                *)

OneAtATime ==
    /\ \A a, b \in PackEditors : a = b
    /\ \A a, b \in PackAdmins : a = b

WorkOf(a) ==
    /\ packWork[a].op \in {"edit", "submit"} => a \in PackEditors /\ pack.status \notin {"submitted", "approved"}
    /\ packWork[a].op = "submit" => packWork[a].content = pack.content
    /\ packWork[a].op = "review" =>
          /\ a \in PackAdmins /\ packWork[a].to \in {"approved", "rejected", "delisted"}
          /\ packWork[a].to = "approved" => pack.status = "submitted"

PackInv ==
    /\ pack = [status |-> pack.status, content |-> pack.content]
    /\ packWork = [a \in PackActors |-> packWork[a]]
    /\ \A a \in PackActors : WorkOf(a)
    /\ pack.status \in {"submitted", "approved"} => pack.content \in cleared

\* A step that leaves the pack alone
LEMMA PackStays ==
    ASSUME PackInv, UNCHANGED pack, cleared \subseteq cleared', packWork' = [a \in PackActors |-> packWork'[a]],
           \A a \in PackActors : packWork'[a] = packWork[a] \/ WorkOf(a)'
    PROVE  PackInv'
<1>1. ASSUME NEW a \in PackActors, packWork'[a] = packWork[a] PROVE WorkOf(a)'
    BY <1>1 DEF PackInv, WorkOf
<1> QED BY <1>1 DEF PackInv

LEMMA WorkBegins ==
    ASSUME PackInv, NEW a \in PackActors, NEW t, BeginPackWork(a, t),
           t.op \in {"edit", "submit"} => a \in PackEditors /\ pack.status \notin {"submitted", "approved"},
           t.op = "submit" => t.content = pack.content,
           t.op = "review" => /\ a \in PackAdmins /\ t.to \in {"approved", "rejected", "delisted"}
                              /\ t.to = "approved" => pack.status = "submitted"
    PROVE  PackInv'
<1>1. packWork' = [packWork EXCEPT ![a] = t] /\ UNCHANGED <<pack, cleared>>
    BY DEF BeginPackWork, packRow
<1>2. packWork'[a] = t /\ \A b \in PackActors \ {a} : packWork'[b] = packWork[b]
    BY <1>1 DEF PackInv
<1>3. WorkOf(a)'
    BY <1>1, <1>2 DEF WorkOf
<1>4. packWork' = [b \in PackActors |-> packWork'[b]]
    BY <1>1 DEF PackInv
<1> QED BY <1>1, <1>2, <1>3, <1>4, PackStays

LEMMA WorkEnds ==
    ASSUME PackInv, NEW a \in PackActors, EndPackWork(a)
    PROVE  /\ packWork' = [b \in PackActors |-> packWork'[b]] /\ packWork'[a].op = "idle"
           /\ \A b \in PackActors \ {a} : packWork'[b] = packWork[b]
<1>1. NotWorking.op = "idle" /\ packWork' = [packWork EXCEPT ![a] = NotWorking]
    BY DEF NotWorking, EndPackWork
<1> HIDE DEF NotWorking
<1> QED BY <1>1 DEF PackInv

LEMMA EndingStays ==
    ASSUME PackInv, NEW a \in PackActors, EndPackWork(a), UNCHANGED <<pack, cleared>>
    PROVE  PackInv'
<1>1. /\ packWork' = [b \in PackActors |-> packWork'[b]] /\ packWork'[a].op = "idle"
      /\ \A b \in PackActors \ {a} : packWork'[b] = packWork[b]
    BY WorkEnds
<1>2. WorkOf(a)'
    BY <1>1 DEF WorkOf
<1> QED BY <1>1, <1>2, PackStays

\* The commit of the creator's request: no other request of the creator is under
\* way, and no approval, since the pack is not submitted.
LEMMA EditorCommits ==
    ASSUME PackInv, OneAtATime, NEW a \in PackEditors, CommitEditPack(a) \/ CommitSubmitPack(a)
    PROVE  PackInv'
<1>1. a \in PackActors /\ WorkOf(a) /\ packWork[a].op \in {"edit", "submit"}
    BY DEF PackActors, PackInv, CommitEditPack, CommitSubmitPack
<1>2. EndPackWork(a)
    BY DEF CommitEditPack, CommitSubmitPack
<1>3. /\ packWork' = [b \in PackActors |-> packWork'[b]] /\ packWork'[a].op = "idle"
      /\ \A b \in PackActors \ {a} : packWork'[b] = packWork[b]
    BY <1>1, <1>2, WorkEnds
<1>4. ASSUME NEW b \in PackActors \ {a}
      PROVE  packWork[b].op \notin {"edit", "submit"} /\ (packWork[b].op = "review" => packWork[b].to # "approved")
    <2>1. WorkOf(b)
        BY DEF PackInv
    <2>2. pack.status \notin {"submitted", "approved"}
        BY <1>1 DEF WorkOf
    <2> QED BY <2>1, <2>2 DEF WorkOf, OneAtATime
<1>5. \A b \in PackActors : WorkOf(b)'
    <2>1. WorkOf(a)'
        BY <1>3 DEF WorkOf
    <2>2. ASSUME NEW b \in PackActors \ {a} PROVE WorkOf(b)'
        BY <1>3, <1>4 DEF WorkOf, PackInv
    <2> QED BY <2>1, <2>2
<1>6. CASE CommitEditPack(a)
    <2>1. PICK c : c = packWork[a].content /\ pack' = [pack EXCEPT !.content = c] /\ cleared' = cleared
        BY <1>6 DEF CommitEditPack
    <2>2. pack' = [status |-> pack.status, content |-> c]
        BY <2>1 DEF PackInv
    <2>3. pack'.status = pack.status /\ pack' = [status |-> pack'.status, content |-> pack'.content]
        BY <2>2
    <2> QED BY <1>1, <1>3, <1>5, <2>3 DEF PackInv, WorkOf
<1>7. CASE CommitSubmitPack(a)
    <2>1. pack' = [pack EXCEPT !.status = "submitted"] /\ cleared' = cleared \cup {pack.content}
        BY <1>1, <1>7 DEF CommitSubmitPack, WorkOf
    <2>2. pack' = [status |-> "submitted", content |-> pack.content]
        BY <2>1 DEF PackInv
    <2>3. pack'.content = pack.content /\ pack' = [status |-> pack'.status, content |-> pack'.content]
        BY <2>2
    <2> QED BY <1>3, <1>5, <2>1, <2>3 DEF PackInv
<1> QED BY <1>6, <1>7

\* The commit of a review: an approval finds the pack submitted.
LEMMA ReviewCommits ==
    ASSUME PackInv, OneAtATime, NEW a \in PackAdmins, CommitReview(a)
    PROVE  PackInv'
<1>1. a \in PackActors /\ WorkOf(a) /\ packWork[a].op = "review" /\ EndPackWork(a) /\ cleared' = cleared
    BY DEF PackActors, PackInv, CommitReview
<1>2. /\ packWork' = [b \in PackActors |-> packWork'[b]] /\ packWork'[a].op = "idle"
      /\ \A b \in PackActors \ {a} : packWork'[b] = packWork[b]
    BY <1>1, WorkEnds
<1>3. PICK to : to = packWork[a].to /\ pack' = [pack EXCEPT !.status = to]
    BY DEF CommitReview
<1>4. pack' = [status |-> to, content |-> pack.content]
    BY <1>3 DEF PackInv
<1>5. pack'.status = to /\ pack'.content = pack.content /\ pack' = [status |-> pack'.status, content |-> pack'.content]
    BY <1>4
<1>6. to \in {"approved", "rejected", "delisted"} /\ (to = "approved" => pack.status = "submitted")
    BY <1>1, <1>3 DEF WorkOf
<1>7. ASSUME NEW b \in PackActors \ {a} PROVE WorkOf(b)'
    <2>1. WorkOf(b) /\ packWork'[b] = packWork[b]
        BY <1>2 DEF PackInv
    <2>2. packWork[b].op # "review"
        BY <2>1 DEF WorkOf, OneAtATime
    <2>3. packWork[b].op \in {"edit", "submit"} => pack'.status \notin {"submitted", "approved"}
        BY <1>5, <1>6, <2>1 DEF WorkOf
    <2> QED BY <1>5, <2>1, <2>2, <2>3 DEF WorkOf
<1>8. WorkOf(a)'
    BY <1>2 DEF WorkOf
<1> QED BY <1>1, <1>2, <1>5, <1>6, <1>7, <1>8 DEF PackInv

LEMMA PackBegins ==
    ASSUME PackInv, NEW a \in PackActors,
           \/ a \in PackEditors /\ ((\E c \in Contents : BeginEditPack(a, c)) \/ BeginSubmitPack(a))
           \/ a \in PackAdmins /\ ((\E d \in {"approved", "rejected"} : BeginReview(a, d)) \/ BeginTakedown(a))
           \/ \E b \in Buyers, m \in PayMethods : BeginPackCheckout(a, b, m)
    PROVE  PackInv'
<1>1. ASSUME NEW c, a \in PackEditors, BeginEditPack(a, c) PROVE PackInv'
    <2> DEFINE t == [op |-> "edit", content |-> c]
    <2>1. t.op = "edit" /\ BeginPackWork(a, t) /\ pack.status \notin {"submitted", "approved"}
        BY <1>1 DEF BeginEditPack, Editable
    <2> HIDE DEF t
    <2> QED BY <1>1, <2>1, WorkBegins
<1>2. ASSUME a \in PackEditors, BeginSubmitPack(a) PROVE PackInv'
    <2>1. PICK t : t = [op |-> "submit", content |-> pack.content]
        OBVIOUS
    <2>2. /\ t.op = "submit" /\ t.content = pack.content /\ BeginPackWork(a, t)
          /\ pack.status \notin {"submitted", "approved"}
        BY <1>2, <2>1 DEF BeginSubmitPack, Editable
    <2> QED BY <1>2, <2>2, WorkBegins
<1>3. ASSUME NEW d \in {"approved", "rejected", "delisted"}, a \in PackAdmins, d = "approved" => pack.status = "submitted",
             BeginPackWork(a, [op |-> "review", to |-> d])
      PROVE  PackInv'
    <2> DEFINE t == [op |-> "review", to |-> d]
    <2>1. t.op = "review" /\ t.to = d /\ BeginPackWork(a, t)
        BY <1>3
    <2> HIDE DEF t
    <2> QED BY <1>3, <2>1, WorkBegins
<1>4. ASSUME NEW d \in {"approved", "rejected"}, a \in PackAdmins, BeginReview(a, d) PROVE PackInv'
    BY <1>3, <1>4 DEF BeginReview
<1>5. ASSUME a \in PackAdmins, BeginTakedown(a) PROVE PackInv'
    BY <1>3, <1>5 DEF BeginTakedown
<1>6. ASSUME NEW b, NEW m, BeginPackCheckout(a, b, m) PROVE PackInv'
    <2>1. PICK answer, pays, credits, t : /\ t = [op |-> "checkout", answer |-> answer, pays |-> pays,
                                                  buyer |-> b, method |-> m, credits |-> credits]
                                         /\ BeginPackWork(a, t)
        BY <1>6 DEF BeginPackCheckout
    <2>2. t.op = "checkout"
        BY <2>1
    <2> QED BY <2>1, <2>2, WorkBegins
<1> QED BY <1>1, <1>2, <1>4, <1>5, <1>6

LEMMA PackStep == ASSUME PackInv, OneAtATime, [StudioNext]_studioVars PROVE PackInv'
<1>0. PackEditors \subseteq PackActors /\ PackAdmins \subseteq PackActors /\ PackOrders \subseteq PackActors
    BY DEF PackActors
<1>1. CASE UNCHANGED studioVars
    BY <1>1, PackStays DEF studioVars, packRow, PackInv
<1>2. ASSUME NEW a \in PackEditors,
             (\E c \in Contents : BeginEditPack(a, c)) \/ BeginSubmitPack(a) PROVE PackInv'
    BY <1>0, <1>2, PackBegins
<1>3. ASSUME NEW a \in PackAdmins,
             (\E d \in {"approved", "rejected"} : BeginReview(a, d)) \/ BeginTakedown(a) PROVE PackInv'
    BY <1>0, <1>3, PackBegins
<1>4. ASSUME NEW o \in PackOrders, \E b \in Buyers, m \in PayMethods : BeginPackCheckout(o, b, m) PROVE PackInv'
    BY <1>0, <1>4, PackBegins
<1>5. ASSUME NEW a \in PackActors, (a \in PackOrders /\ CommitPackCheckout(a)) \/ AbortPackWork(a) PROVE PackInv'
    <2>1. EndPackWork(a) /\ UNCHANGED <<pack, cleared>>
        BY <1>5 DEF CommitPackCheckout, AbortPackWork, packRow
    <2> QED BY <2>1, EndingStays
<1>6. ASSUME NEW o \in PackOrders, CapturePack(o) \/ Download(o) PROVE PackInv'
    BY <1>6, PackStays DEF CapturePack, Download, packRow, PackInv
<1>7. ASSUME NEW level, ChangeConsent(level) PROVE PackInv'
    BY <1>7, PackStays DEF ChangeConsent, PackInv
<1>8. CASE FreezeCreator
    BY <1>8, PackStays DEF FreezeCreator, packRow, PackInv
<1> QED BY <1>0, <1>1, <1>2, <1>3, <1>4, <1>5, <1>6, <1>7, <1>8, EditorCommits, ReviewCommits DEF StudioNext

\* What is sold was validated when it was submitted, if the requests of the
\* creator come one at a time, and so do those of admins.
THEOREM SoldPacksAreCleared == ASSUME OneAtATime PROVE StudioSpec => []SoldIsCleared
<1>1. ASSUME StudioInit PROVE PackInv
    <2>1. PICK c : pack = [status |-> "draft", content |-> c]
        BY <1>1 DEF StudioInit
    <2>2. pack.status = "draft" /\ pack = [status |-> pack.status, content |-> pack.content]
        BY <2>1
    <2>3. NotWorking.op = "idle" /\ packWork = [a \in PackActors |-> NotWorking]
        BY <1>1 DEF StudioInit, NotWorking
    <2> HIDE DEF NotWorking
    <2> QED BY <2>2, <2>3 DEF PackInv, WorkOf
<1>2. ASSUME OneAtATime, PackInv, [StudioNext]_studioVars PROVE PackInv'
    BY <1>2, PackStep
<1>3. PackInv => SoldIsCleared
    BY DEF PackInv, SoldIsCleared
<1> QED BY <1>1, <1>2, <1>3, PTL DEF StudioSpec

----------------------------------------------------------------------------
(* The vault.  An answer that is under way is about a review that exists,    *)
(* and makes of its items what its stage says; the booking follows.          *)

Present(r) == reviews[r] # NoReview

Waiting(s) ==
    LET q == request[s]
    IN  /\ q.op = "submit" =>
              /\ q.review \in LegacyReviews /\ ~Present(q.review) /\ q.items # {}
              /\ q.stage \in Stages /\ q.writes \subseteq q.items /\ q.becomes \in {"none", "client_review"}
        /\ q.op = "respond" =>
              /\ q.review \in LegacyReviews /\ Present(q.review) /\ q.answer \in Answers
              /\ q.to = ItemAfter(q.review, q.answer) /\ q.writes \subseteq Items(q.review)
              /\ q.becomes \in {"none", BookingAfter(q.review, q.answer)}

VaultInv ==
    /\ vault = [i \in VaultItems |-> vault[i]] /\ request = [s \in LegacyRequests |-> request[s]]
    /\ reviews = [r \in LegacyReviews |-> reviews[r]]
    /\ \A r \in LegacyReviews : Present(r) => Items(r) # {} /\ reviews[r].stage \in Stages
    /\ accepted \subseteq LegacyReviews /\ \A r \in accepted : Present(r)
    /\ \A s \in LegacyRequests : Waiting(s)
    /\ \A s, t \in LegacyRequests :
          request[s].op = "submit" /\ request[t].op = "submit" /\ request[s].review = request[t].review => s = t
    /\ FinalIsAccepted

\* A step that neither answers nor files a review, and does not make an item
\* one that can be downloaded.
LEMMA VaultStays ==
    ASSUME VaultInv, UNCHANGED <<reviews, accepted>>, byHand => byHand', booking' = "delivered" => booking = "delivered" \/ byHand',
           vault' = [i \in VaultItems |-> vault'[i]],
           \A i \in VaultItems : vault'[i] = vault[i] \/ vault'[i] = "draft",
           request' = [s \in LegacyRequests |-> request'[s]],
           \A s \in LegacyRequests : request'[s] = request[s] \/ Waiting(s)',
           \A s, t \in LegacyRequests : request'[s].op = "submit" /\ request'[t].op = "submit"
                                        /\ request'[s].review = request'[t].review => s = t
    PROVE  VaultInv'
<1>1. FinalByClient' = FinalByClient /\ \A r : Items(r)' = Items(r) /\ Present(r)' = Present(r)
    BY DEF FinalByClient, Items, Present
<1>2. FinalIsAccepted'
    <2>1. Downloads' \subseteq Downloads
        BY DEF Downloads
    <2>2. \A i \in VaultItems : vault'[i] = "final" => vault[i] = "final"
        OBVIOUS
    <2> QED BY <1>1, <2>1, <2>2 DEF VaultInv, FinalIsAccepted
<1>3. ASSUME NEW s \in LegacyRequests, request'[s] = request[s] PROVE Waiting(s)'
    <2>1. Waiting(s)
        BY DEF VaultInv
    <2>2. \A x, y : ItemAfter(x, y)' = ItemAfter(x, y) /\ BookingAfter(x, y)' = BookingAfter(x, y)
        BY DEF ItemAfter, BookingAfter, Granted
    <2> QED BY <1>1, <1>3, <2>1, <2>2 DEF Waiting
<1> QED BY <1>1, <1>2, <1>3 DEF VaultInv

\* The vault and the requests as they are
LEMMA BookingMoves ==
    ASSUME VaultInv, UNCHANGED <<vaultVars, request>>, byHand => byHand', booking' = "delivered" => booking = "delivered" \/ byHand'
    PROVE  VaultInv'
BY VaultStays DEF vaultVars, VaultInv

LEMMA RequestOpens ==
    ASSUME VaultInv, NEW s \in LegacyRequests, NEW q, request' = [request EXCEPT ![s] = q],
           UNCHANGED <<booking, vaultVars, byHand>>,
           q.op = "submit" =>
              /\ q.review \in LegacyReviews /\ ~Present(q.review) /\ q.items # {}
              /\ q.stage \in Stages /\ q.writes \subseteq q.items /\ q.becomes \in {"none", "client_review"}
              /\ \A t \in LegacyRequests : request[t].op = "submit" => request[t].review # q.review,
           q.op = "respond" =>
              /\ q.review \in LegacyReviews /\ Present(q.review) /\ q.answer \in Answers
              /\ q.to = ItemAfter(q.review, q.answer) /\ q.writes \subseteq Items(q.review)
              /\ q.becomes \in {"none", BookingAfter(q.review, q.answer)}
    PROVE  VaultInv'
<1>1. request'[s] = q /\ \A t \in LegacyRequests \ {s} : request'[t] = request[t]
    BY DEF VaultInv
<1>2. request' = [t \in LegacyRequests |-> request'[t]]
    BY DEF VaultInv
<1>3. Waiting(s)'
    BY <1>1 DEF Waiting, vaultVars, Items, Present, ItemAfter, BookingAfter, Granted
<1>4. \A x, y \in LegacyRequests : request'[x].op = "submit" /\ request'[y].op = "submit"
                                   /\ request'[x].review = request'[y].review => x = y
    BY <1>1 DEF VaultInv
<1>5. UNCHANGED <<reviews, accepted, vault>>
    BY DEF vaultVars
<1> QED BY <1>1, <1>2, <1>3, <1>4, <1>5, VaultStays DEF VaultInv

LEMMA SubmitOpens ==
    ASSUME VaultInv, NEW s \in LegacyRequests, NEW r \in LegacyReviews, NEW stage \in Stages, NEW items,
           BeginSubmitReview(s, r, stage, items)
    PROVE  VaultInv'
<1>1. PICK w, b, q :
          /\ w = Differing(items, "submitted") /\ b = News("client_review")
          /\ q = [op |-> "submit", review |-> r, stage |-> stage, items |-> items, writes |-> w, becomes |-> b]
    OBVIOUS
<1>2. w \subseteq items /\ b \in {"none", "client_review"}
    BY <1>1 DEF Differing, News
<1>3. /\ q.op = "submit" /\ q.review = r /\ q.stage = stage /\ q.items = items /\ q.writes = w /\ q.becomes = b
      /\ request' = [request EXCEPT ![s] = q] /\ UNCHANGED <<booking, vaultVars, byHand>>
    BY <1>1 DEF BeginSubmitReview
<1>4. ~Present(r) /\ items # {} /\ \A t \in LegacyRequests : request[t].op = "submit" => request[t].review # r
    BY DEF BeginSubmitReview, Present
<1> QED BY <1>2, <1>3, <1>4, RequestOpens

LEMMA RespondOpens ==
    ASSUME VaultInv, NEW s \in LegacyRequests, NEW r \in LegacyReviews, NEW answer \in Answers,
           BeginRespond(s, r, answer)
    PROVE  VaultInv'
<1>1. PICK w, b, to, q :
          /\ w = Differing(Items(r), ItemAfter(r, answer)) /\ b = News(BookingAfter(r, answer)) /\ to = ItemAfter(r, answer)
          /\ q = [op |-> "respond", review |-> r, answer |-> answer, to |-> to, writes |-> w, becomes |-> b]
    OBVIOUS
<1>2. w \subseteq Items(r) /\ b \in {"none", BookingAfter(r, answer)}
    BY <1>1 DEF Differing, News
<1>3. /\ q.op = "respond" /\ q.review = r /\ q.answer = answer /\ q.to = to /\ q.writes = w /\ q.becomes = b
      /\ request' = [request EXCEPT ![s] = q] /\ UNCHANGED <<booking, vaultVars, byHand>>
    BY <1>1 DEF BeginRespond
<1>4. Present(r) /\ to = ItemAfter(r, answer)
    BY <1>1 DEF BeginRespond, Present
<1> QED BY <1>2, <1>3, <1>4, RequestOpens

LEMMA RequestCloses ==
    ASSUME VaultInv, NEW s \in LegacyRequests, LegacyDone(s)
    PROVE  /\ request' = [t \in LegacyRequests |-> request'[t]] /\ request'[s].op = "idle"
           /\ \A t \in LegacyRequests \ {s} : request'[t] = request[t]
<1>1. NoLegacyRequest.op = "idle" /\ request' = [request EXCEPT ![s] = NoLegacyRequest]
    BY DEF NoLegacyRequest, LegacyDone
<1> HIDE DEF NoLegacyRequest
<1> QED BY <1>1 DEF VaultInv

\* A review is filed: it names the items that become submitted.
LEMMA SubmitFiles ==
    ASSUME VaultInv, NEW s \in LegacyRequests, CommitSubmitReview(s)
    PROVE  VaultInv'
<1>1. PICK q : q = request[s]
    OBVIOUS
<1>2. /\ q.review \in LegacyReviews /\ ~Present(q.review) /\ q.items # {} /\ q.stage \in Stages
      /\ q.writes \subseteq q.items /\ q.becomes \in {"none", "client_review"} /\ q.op = "submit"
    BY <1>1 DEF CommitSubmitReview, VaultInv, Waiting
<1>3. PICK r, row : r = q.review /\ row = [stage |-> q.stage, items |-> q.items]
    OBVIOUS
<1>4. /\ vault' = [i \in VaultItems |-> IF i \in q.writes THEN "submitted" ELSE vault[i]]
      /\ reviews' = [reviews EXCEPT ![r] = row]
      /\ booking' = (IF q.becomes = "none" THEN booking ELSE q.becomes)
      /\ LegacyDone(s) /\ UNCHANGED <<accepted, byHand>>
    BY <1>1, <1>3 DEF CommitSubmitReview, BookingWritten
<1>5. row.items = q.items /\ row.stage = q.stage /\ row # NoReview
    BY <1>2, <1>3 DEF NoReview
<1>6. reviews'[r] = row /\ reviews' = [x \in LegacyReviews |-> reviews'[x]]
      /\ \A x \in LegacyReviews \ {r} : reviews'[x] = reviews[x]
    BY <1>2, <1>3, <1>4 DEF VaultInv
<1>7. r \in LegacyReviews /\ r \notin accepted /\ Items(r) = {}
    <2>1. NoReview.items = {}
        BY DEF NoReview
    <2> QED BY <1>2, <1>3, <2>1 DEF VaultInv, Present, Items
<1>8. FinalByClient' = FinalByClient
    <2>1. \A x \in accepted : x \in LegacyReviews \ {r}
        BY <1>7 DEF VaultInv
    <2> QED BY <1>4, <1>6, <2>1 DEF FinalByClient, Items
<1>9. (UNION {Items(x) : x \in LegacyReviews}) \cup q.items \subseteq UNION {Items(x)' : x \in LegacyReviews}
    <2>1. \A x \in LegacyReviews : Items(x) \subseteq Items(x)'
        BY <1>6, <1>7 DEF Items
    <2>2. q.items = Items(r)'
        BY <1>5, <1>6 DEF Items
    <2> QED BY <1>7, <2>1, <2>2
<1>10. FinalIsAccepted'
    <2>1. \A i \in VaultItems : vault'[i] = "final" => vault[i] = "final"
        BY <1>4
    <2>2. Downloads' \subseteq Downloads \cup q.items
        BY <1>2, <1>4 DEF Downloads
    <2>3. booking' = "delivered" => booking = "delivered"
        BY <1>2, <1>4
    <2> QED BY <1>4, <1>8, <1>9, <2>1, <2>2, <2>3 DEF VaultInv, FinalIsAccepted
<1>11. /\ request' = [t \in LegacyRequests |-> request'[t]] /\ request'[s].op = "idle"
       /\ \A t \in LegacyRequests \ {s} : request'[t] = request[t]
    BY <1>4, RequestCloses
<1>12. ASSUME NEW t \in LegacyRequests PROVE Waiting(t)'
    <2>1. CASE t = s
        BY <1>11, <2>1 DEF Waiting
    <2>2. CASE t # s
        <3>1. PICK p : p = request[t] /\ p = request'[t]
            BY <1>11, <2>2
        <3>2. p.op \in {"submit", "respond"} => p.review \in LegacyReviews \ {r}
            BY <1>1, <1>2, <1>3, <2>2, <3>1 DEF VaultInv, Waiting
        <3>3. p.op \in {"submit", "respond"} => reviews'[p.review] = reviews[p.review]
            BY <1>6, <3>2
        <3> QED BY <3>1, <3>3 DEF VaultInv, Waiting, Present, Items, ItemAfter, BookingAfter, Granted
    <2> QED BY <2>1, <2>2
<1>13. \A x, y \in LegacyRequests : request'[x].op = "submit" /\ request'[y].op = "submit"
                                    /\ request'[x].review = request'[y].review => x = y
    BY <1>11 DEF VaultInv
<1>14. \A x \in LegacyReviews : Present(x)' => Items(x)' # {} /\ reviews'[x].stage \in Stages
    BY <1>2, <1>5, <1>6 DEF VaultInv, Present, Items
<1>15. \A x \in accepted' : Present(x)'
    BY <1>4, <1>6, <1>7 DEF VaultInv, Present
<1> QED BY <1>4, <1>6, <1>10, <1>11, <1>12, <1>13, <1>14, <1>15 DEF VaultInv

\* An answer makes final only what a final delivery names.
LEMMA RespondFiles ==
    ASSUME VaultInv, NEW s \in LegacyRequests, CommitRespond(s)
    PROVE  VaultInv'
<1>1. PICK q, r, to : q = request[s] /\ r = q.review /\ to = q.to
    OBVIOUS
<1>2. /\ r \in LegacyReviews /\ Present(r) /\ q.answer \in Answers
      /\ to = ItemAfter(r, q.answer) /\ q.writes \subseteq Items(r)
      /\ q.becomes \in {"none", BookingAfter(r, q.answer)}
    BY <1>1 DEF CommitRespond, VaultInv, Waiting
<1>3. /\ vault' = [i \in VaultItems |-> IF i \in q.writes THEN to ELSE vault[i]]
      /\ accepted' = IF q.answer = "approved" THEN accepted \cup {r} ELSE accepted
      /\ booking' = (IF q.becomes = "none" THEN booking ELSE q.becomes)
      /\ LegacyDone(s) /\ UNCHANGED <<reviews, byHand>>
    BY <1>1 DEF CommitRespond, BookingWritten
<1>4. FinalByClient \subseteq FinalByClient'
    <2>1. accepted \subseteq accepted'
        BY <1>3
    <2> QED BY <1>3, <2>1 DEF FinalByClient, Items
<1>5. q.answer = "approved" /\ reviews[r].stage = "final_delivery" => Items(r) \subseteq FinalByClient' /\ Items(r) # {}
    BY <1>2, <1>3 DEF FinalByClient, Items, VaultInv
<1>6. to = "final" => q.answer = "approved" /\ reviews[r].stage = "final_delivery"
    BY <1>2 DEF ItemAfter, Granted
<1>7. q.becomes = "delivered" => q.answer = "approved" /\ reviews[r].stage = "final_delivery"
    BY <1>2 DEF BookingAfter
<1>8. FinalIsAccepted'
    <2>1. ASSUME NEW i \in VaultItems, vault'[i] = "final" PROVE i \in FinalByClient'
        <3>1. CASE i \in q.writes
            BY <1>2, <1>3, <1>5, <1>6, <2>1, <3>1
        <3>2. CASE i \notin q.writes
            BY <1>3, <1>4, <2>1, <3>2 DEF VaultInv, FinalIsAccepted
        <3> QED BY <3>1, <3>2
    <2>2. booking' = "delivered" => byHand' \/ FinalByClient' # {}
        BY <1>3, <1>4, <1>5, <1>7 DEF VaultInv, FinalIsAccepted
    <2>3. Downloads' \subseteq Downloads \cup Items(r)
        BY <1>2, <1>3 DEF Downloads
    <2>4. Downloads' \subseteq UNION {Items(x)' : x \in LegacyReviews}
        <3>1. \A x \in LegacyReviews : Items(x)' = Items(x)
            BY <1>3 DEF Items
        <3> QED BY <1>2, <2>3, <3>1 DEF VaultInv, FinalIsAccepted
    <2> QED BY <2>1, <2>2, <2>4 DEF FinalIsAccepted
<1>9. /\ request' = [t \in LegacyRequests |-> request'[t]] /\ request'[s].op = "idle"
      /\ \A t \in LegacyRequests \ {s} : request'[t] = request[t]
    BY <1>3, RequestCloses
<1>10. ASSUME NEW t \in LegacyRequests PROVE Waiting(t)'
    <2>1. CASE t = s
        BY <1>9, <2>1 DEF Waiting
    <2>2. CASE t # s
        <3>1. Waiting(t) /\ request'[t] = request[t] /\ reviews' = reviews
            BY <1>3, <1>9, <2>2 DEF VaultInv
        <3>2. /\ \A x : Present(x)' = Present(x) /\ Items(x)' = Items(x)
              /\ \A x, y : ItemAfter(x, y)' = ItemAfter(x, y) /\ BookingAfter(x, y)' = BookingAfter(x, y)
            BY <3>1 DEF Present, Items, ItemAfter, BookingAfter, Granted
        <3> QED BY <3>1, <3>2 DEF Waiting
    <2> QED BY <2>1, <2>2
<1>11. \A x, y \in LegacyRequests : request'[x].op = "submit" /\ request'[y].op = "submit"
                                    /\ request'[x].review = request'[y].review => x = y
    BY <1>9 DEF VaultInv
<1> QED BY <1>2, <1>3, <1>8, <1>9, <1>10, <1>11 DEF VaultInv, Present, Items

LEMMA LegacyStep == ASSUME VaultInv, [LegacyNext]_legacyVars PROVE VaultInv'
<1>1. CASE UNCHANGED legacyVars
    BY <1>1, BookingMoves DEF legacyVars, vaultVars
<1>2. CASE CheckoutShoot \/ ShootIsPaid \/ PutBrief \/ AssignPro \/ SlotIsConfirmed
    BY <1>2, BookingMoves DEF CheckoutShoot, ShootIsPaid, PutBrief, AssignPro, SlotIsConfirmed
<1>3. ASSUME NEW to, SetBooking(to) PROVE VaultInv'
    BY <1>3, BookingMoves DEF SetBooking
<1>4. CASE MarkShootDone
    BY <1>3, <1>4 DEF MarkShootDone
<1>5. ASSUME NEW i \in VaultItems, Upload(i) PROVE VaultInv'
    <2>1. vault' = [vault EXCEPT ![i] = "draft"] /\ UNCHANGED <<booking, reviews, accepted, byHand, request>>
        BY <1>5 DEF Upload
    <2>2. vault' = [x \in VaultItems |-> vault'[x]] /\ \A x \in VaultItems : vault'[x] = vault[x] \/ vault'[x] = "draft"
        BY <2>1 DEF VaultInv
    <2> QED BY <2>1, <2>2, VaultStays DEF VaultInv
<1>6. ASSUME NEW s \in LegacyRequests, LoseLegacyRequest(s) PROVE VaultInv'
    <2>1. LegacyDone(s) /\ UNCHANGED <<booking, reviews, accepted, vault, byHand>>
        BY <1>6 DEF LoseLegacyRequest, vaultVars
    <2>2. /\ request' = [t \in LegacyRequests |-> request'[t]] /\ request'[s].op = "idle"
          /\ \A t \in LegacyRequests \ {s} : request'[t] = request[t]
        BY <2>1, RequestCloses
    <2>3. Waiting(s)'
        BY <2>2 DEF Waiting
    <2>4. \A x, y \in LegacyRequests : request'[x].op = "submit" /\ request'[y].op = "submit"
                                       /\ request'[x].review = request'[y].review => x = y
        BY <2>2 DEF VaultInv
    <2> QED BY <2>1, <2>2, <2>3, <2>4, VaultStays DEF VaultInv
<1> QED BY <1>1, <1>2, <1>3, <1>4, <1>5, <1>6, SubmitOpens, RespondOpens, SubmitFiles, RespondFiles DEF LegacyNext

\* The client decides what is final and what was delivered, however answers and
\* submissions overlap and whatever is answered again.
THEOREM FinalVaultsAreAccepted == LegacySpec => []FinalIsAccepted
<1>1. ASSUME LegacyInit PROVE VaultInv
    <2>1. NoLegacyRequest.op = "idle" /\ request = [s \in LegacyRequests |-> NoLegacyRequest]
        BY <1>1 DEF LegacyInit, NoLegacyRequest
    <2>2. \A s \in LegacyRequests : Waiting(s) /\ request[s].op = "idle"
        BY <2>1 DEF Waiting
    <2>3. \A r \in LegacyReviews : ~Present(r)
        BY <1>1 DEF LegacyInit, Present
    <2> HIDE DEF NoLegacyRequest
    <2> QED BY <1>1, <2>1, <2>2, <2>3 DEF LegacyInit, VaultInv, FinalIsAccepted, Downloads
<1>2. VaultInv /\ [LegacyNext]_legacyVars => VaultInv'
    BY LegacyStep
<1>3. VaultInv => FinalIsAccepted
    BY DEF VaultInv
<1> QED BY <1>1, <1>2, <1>3, PTL DEF LegacySpec

----------------------------------------------------------------------------
(* Print orders.  A capture has one event, and that event one export, each   *)
(* in the hands of one worker until the worker commits.                      *)

Paid == [type |-> "succeeded", number |-> 0]
Exporting == [type |-> "export", number |-> 1]
Captured == charge.state \in {"captured", "refunded"}

Handling(w) ==
    /\ printing[w].op \in {"succeeded", "export"} => printing[w].on \in notices
    /\ printing[w].op \notin {"idle", "update", "pay"} => printing[w].on.type = printing[w].op

ExportInv ==
    /\ printing = [a \in Clients \cup Printers |-> printing[a]]
    /\ \A n \in notices : (n.type = "succeeded" => n = Paid) /\ (n.type = "export" => n = Exporting)
    /\ \A w \in Printers : Handling(w)
    /\ \A v, w \in Printers : printing[v].op \in {"succeeded", "export"} /\ printing[v].on = printing[w].on
                              /\ printing[w].op \in {"succeeded", "export"} => v = w
    /\ charge = [state |-> charge.state, amount |-> charge.amount, failures |-> charge.failures]
    /\ Paid \in notices => Captured
    /\ Exporting \in notices => Captured /\ Paid \notin notices
    /\ CaptureIsExportedOnce

\* Of the events only these two matter.
LEMMA WaitsFor ==
    ASSUME ExportInv
    PROVE  (Waits("succeeded") <=> Paid \in notices) /\ (Waits("export") <=> Exporting \in notices)
BY DEF ExportInv, Waits, Paid, Exporting

\* No worker takes one of the two.
NoneTaken ==
    /\ printing' = [a \in Clients \cup Printers |-> printing'[a]]
    /\ \A w \in Printers : printing'[w] = printing[w] \/ printing'[w].op \in {"idle", "update", "pay"}

\* A step after which the same of the two wait
LEMMA NothingExported ==
    ASSUME ExportInv, UNCHANGED jobs,
           charge' = [state |-> charge'.state, amount |-> charge'.amount, failures |-> charge'.failures],
           Captured' <=> Captured,
           Paid \in notices' <=> Paid \in notices, Exporting \in notices' <=> Exporting \in notices,
           \A n \in notices' : n \in notices \/ n.type \notin {"succeeded", "export"},
           NoneTaken
    PROVE  ExportInv'
<1>1. Waits("succeeded")' = Waits("succeeded") /\ Waits("export")' = Waits("export")
    BY DEF ExportInv, Waits, Paid, Exporting
<1>2. CaptureIsExportedOnce'
    BY <1>1 DEF ExportInv, CaptureIsExportedOnce, Captured, NoneTaken
<1>3. ASSUME NEW w \in Printers PROVE Handling(w)'
    <2>1. CASE printing'[w] = printing[w]
        <3>1. PICK n : n = printing[w].on
            OBVIOUS
        <3>2. printing[w].op \in {"succeeded", "export"} => n \in notices /\ n \in {Paid, Exporting} /\ n.type = printing[w].op
            BY <3>1 DEF ExportInv, Handling
        <3> QED BY <2>1, <3>1, <3>2 DEF Handling, ExportInv
    <2>2. CASE printing'[w].op \in {"idle", "update", "pay"}
        BY <2>2 DEF Handling
    <2> QED BY <2>1, <2>2 DEF NoneTaken
<1>4. \A n \in notices' : (n.type = "succeeded" => n = Paid) /\ (n.type = "export" => n = Exporting)
    BY DEF ExportInv
<1>5. \A v, w \in Printers : printing'[v].op \in {"succeeded", "export"} /\ printing'[v].on = printing'[w].on
                             /\ printing'[w].op \in {"succeeded", "export"} => v = w
    BY DEF ExportInv, NoneTaken
<1>6. /\ Paid \in notices' => Captured'
      /\ Exporting \in notices' => Captured' /\ Paid \notin notices'
    BY DEF ExportInv
<1> QED BY <1>2, <1>3, <1>4, <1>5, <1>6 DEF ExportInv, NoneTaken

LEMMA PrintCloses ==
    ASSUME ExportInv, NEW a \in Clients \cup Printers, ClosePrint(a)
    PROVE  /\ printing' = [b \in Clients \cup Printers |-> printing'[b]]
           /\ printing'[a].op = "idle" /\ \A b \in (Clients \cup Printers) \ {a} : printing'[b] = printing[b]
<1>1. NotPrinting.op = "idle" /\ printing' = [printing EXCEPT ![a] = NotPrinting]
    BY DEF NotPrinting, ClosePrint
<1> HIDE DEF NotPrinting
<1> QED BY <1>1 DEF ExportInv

LEMMA PrintOpens ==
    ASSUME ExportInv, NEW a \in Clients \cup Printers, NEW op, NEW on, NEW edit, OpenPrint(a, op, on, edit)
    PROVE  /\ printing' = [b \in Clients \cup Printers |-> printing'[b]]
           /\ printing'[a].op = op /\ printing'[a].on = on
           /\ \A b \in (Clients \cup Printers) \ {a} : printing'[b] = printing[b]
<1> DEFINE row == [op |-> op, on |-> on, row |-> print, edit |-> edit]
<1>1. row.op = op /\ row.on = on /\ printing' = [printing EXCEPT ![a] = row]
    BY DEF OpenPrint
<1> HIDE DEF row
<1> QED BY <1>1 DEF ExportInv

LEMMA NoneIsTaken ==
    ASSUME ExportInv,
           \/ printing' = printing
           \/ \E a \in Clients \cup Printers : ClosePrint(a)
           \/ \E a \in Clients \cup Printers : \E op, on, edit : op \in {"idle", "update", "pay"} /\ OpenPrint(a, op, on, edit)
    PROVE  NoneTaken
<1>1. CASE printing' = printing
    BY <1>1 DEF ExportInv, NoneTaken
<1>2. ASSUME NEW a \in Clients \cup Printers, ClosePrint(a) PROVE NoneTaken
    <2>1. /\ printing' = [b \in Clients \cup Printers |-> printing'[b]]
          /\ printing'[a].op = "idle" /\ \A b \in (Clients \cup Printers) \ {a} : printing'[b] = printing[b]
        BY <1>2, PrintCloses
    <2> QED BY <2>1 DEF NoneTaken
<1>3. ASSUME NEW a \in Clients \cup Printers, NEW op, NEW on, NEW edit, op \in {"idle", "update", "pay"},
             OpenPrint(a, op, on, edit) PROVE NoneTaken
    <2>1. /\ printing' = [b \in Clients \cup Printers |-> printing'[b]]
          /\ printing'[a].op = op /\ \A b \in (Clients \cup Printers) \ {a} : printing'[b] = printing[b]
        BY <1>3, PrintOpens
    <2> QED BY <1>3, <2>1 DEF NoneTaken
<1> QED BY <1>1, <1>2, <1>3

\* The client's and the admin's steps, and a crash
LEMMA NoticesStay ==
    ASSUME ExportInv, UNCHANGED <<jobs, notices>>, NoneTaken,
           charge' = charge \/ (charge.state = "none" /\ \E m, f : charge' = [state |-> "open", amount |-> m, failures |-> f])
    PROVE  ExportInv'
<1>1. /\ charge' = [state |-> charge'.state, amount |-> charge'.amount, failures |-> charge'.failures]
      /\ charge' = charge \/ (charge.state = "none" /\ charge'.state = "open")
    BY DEF ExportInv
<1>2. Captured' <=> Captured
    BY <1>1 DEF Captured
<1> QED BY <1>1, <1>2, NothingExported

\* Stripe's events other than a capture
LEMMA StripeTells ==
    ASSUME ExportInv, FailCharge \/ CancelCharge \/ RefundCharge
    PROVE  ExportInv'
<1>0. PICK t \in {"payment_failed", "canceled", "refunded"} : \E n : Tell(t, n)
    BY DEF FailCharge, CancelCharge, RefundCharge
<1>1. PICK n : Tell(t, n)
    BY <1>0
<1>2. PICK e : e = [type |-> t, number |-> n]
    OBVIOUS
<1>3. e.type = t /\ notices' = notices \cup {e}
    BY <1>1, <1>2 DEF Tell
<1>4. Paid.type = "succeeded" /\ Exporting.type = "export"
    BY DEF Paid, Exporting
<1>5. UNCHANGED <<jobs, printing>>
    BY DEF FailCharge, CancelCharge, RefundCharge
<1>6. NoneTaken
    BY <1>5, NoneIsTaken
<1>7. \E state, amount, failures :
          /\ charge' = [state |-> state, amount |-> amount, failures |-> failures]
          /\ state \in {"captured", "refunded"} <=> Captured
    <2>1. PICK c : c = charge /\ c = [state |-> c.state, amount |-> c.amount, failures |-> c.failures]
        BY DEF ExportInv
    <2>2. CASE FailCharge
        <3>1. PICK k : charge' = [c EXCEPT !.failures = k]
            BY <2>1, <2>2 DEF FailCharge
        <3>2. charge' = [state |-> c.state, amount |-> c.amount, failures |-> k]
            BY <2>1, <3>1
        <3> QED BY <2>1, <3>2 DEF Captured
    <2>3. CASE CancelCharge
        <3>1. charge' = [c EXCEPT !.state = "canceled"] /\ c.state = "open"
            BY <2>1, <2>3 DEF CancelCharge
        <3>2. charge' = [state |-> "canceled", amount |-> c.amount, failures |-> c.failures]
            BY <2>1, <3>1
        <3> QED BY <2>1, <3>1, <3>2 DEF Captured
    <2>4. CASE RefundCharge
        <3>1. charge' = [c EXCEPT !.state = "refunded"] /\ c.state = "captured"
            BY <2>1, <2>4 DEF RefundCharge
        <3>2. charge' = [state |-> "refunded", amount |-> c.amount, failures |-> c.failures]
            BY <2>1, <3>1
        <3> QED BY <2>1, <3>1, <3>2 DEF Captured
    <2> QED BY <2>2, <2>3, <2>4
<1>8. charge' = [state |-> charge'.state, amount |-> charge'.amount, failures |-> charge'.failures] /\ (Captured' <=> Captured)
    BY <1>7 DEF Captured
<1> QED BY <1>3, <1>4, <1>5, <1>6, <1>8, NothingExported

LEMMA CaptureTold == ASSUME ExportInv, Capture PROVE ExportInv'
<1>1. notices' = notices \cup {Paid} /\ UNCHANGED <<jobs, printing>> /\ charge.state = "open"
      /\ charge' = [charge EXCEPT !.state = "captured"]
    BY DEF Capture, Tell, Paid
<1>2. charge' = [state |-> "captured", amount |-> charge.amount, failures |-> charge.failures]
    BY <1>1 DEF ExportInv
<1>3. charge'.state = "captured" /\ charge' = [state |-> charge'.state, amount |-> charge'.amount, failures |-> charge'.failures]
    BY <1>2
<1>4. Paid.type = "succeeded"
    BY DEF Paid
<1>5. Paid \notin notices /\ Exporting \notin notices /\ jobs = <<>>
    BY <1>1 DEF ExportInv, Captured, CaptureIsExportedOnce
<1>6. Waits("succeeded")'
    BY <1>1, <1>4 DEF Waits
<1>7. CaptureIsExportedOnce'
    BY <1>1, <1>5, <1>6 DEF CaptureIsExportedOnce
<1>8. \A w \in Printers : Handling(w)'
    BY <1>1 DEF ExportInv, Handling
<1>9. Exporting # Paid
    BY DEF Exporting, Paid
<1>10. \A n \in notices' : (n.type = "succeeded" => n = Paid) /\ (n.type = "export" => n = Exporting)
    BY <1>1, <1>4 DEF ExportInv
<1> QED BY <1>1, <1>3, <1>5, <1>7, <1>8, <1>9, <1>10 DEF ExportInv, Captured

\* A worker takes an event that no other has.
LEMMA NoticeTaken ==
    ASSUME ExportInv, NEW w \in Printers, NEW n \in notices, BeginNotice(w, n)
    PROVE  ExportInv'
<1>1. /\ printing' = [b \in Clients \cup Printers |-> printing'[b]]
      /\ printing'[w].op = n.type /\ printing'[w].on = n
      /\ \A b \in (Clients \cup Printers) \ {w} : printing'[b] = printing[b]
    BY PrintOpens DEF BeginNotice
<1>2. UNCHANGED <<charge, notices, jobs>> /\ \A v \in Printers : printing[v].on # n
    BY DEF BeginNotice
<1>3. ASSUME NEW v \in Printers PROVE Handling(v)'
    <2>1. CASE v = w
        BY <1>1, <1>2, <2>1 DEF Handling
    <2>2. CASE v # w
        BY <1>1, <1>2, <2>2 DEF Handling, ExportInv
    <2> QED BY <2>1, <2>2
<1>4. \A v, x \in Printers : printing'[v].op \in {"succeeded", "export"} /\ printing'[v].on = printing'[x].on
                             /\ printing'[x].op \in {"succeeded", "export"} => v = x
    BY <1>1, <1>2 DEF ExportInv
<1>5. CaptureIsExportedOnce'
    BY <1>2 DEF ExportInv, CaptureIsExportedOnce, Waits
<1> QED BY <1>1, <1>2, <1>3, <1>4, <1>5 DEF ExportInv, Captured

\* The event of a capture becomes the export job and its event.
LEMMA CaptureApplied ==
    ASSUME ExportInv, NEW w \in Printers, Succeeded(w)
    PROVE  ExportInv'
<1>1. printing[w].op = "succeeded" /\ printing[w].on = Paid /\ Paid \in notices
    BY DEF Succeeded, ExportInv, Handling
<1>2. Captured /\ jobs = <<>> /\ Exporting \notin notices
    BY <1>1, WaitsFor DEF ExportInv, Captured, CaptureIsExportedOnce
<1>3. Len(jobs) + 1 = 1
    BY <1>2
<1>4. PICK job : job = [status |-> "queued", lines |-> {}] /\ jobs' = Append(jobs, job)
    BY DEF Succeeded
<1>5. jobs' = <<job>> /\ job.status = "queued"
    BY <1>2, <1>4
<1>6. notices' = (notices \ {Paid}) \cup {Exporting} /\ ClosePrint(w) /\ charge' = charge
    BY <1>1, <1>3 DEF Succeeded, Deliver, Exporting
<1>7. /\ printing' = [b \in Clients \cup Printers |-> printing'[b]]
      /\ printing'[w].op = "idle" /\ \A b \in (Clients \cup Printers) \ {w} : printing'[b] = printing[b]
    BY <1>6, PrintCloses
<1>8. Exporting # Paid /\ Exporting.type = "export" /\ Paid.type = "succeeded"
    BY DEF Exporting, Paid
<1>9. ~Waits("succeeded")' /\ Waits("export")'
    BY <1>6, <1>8 DEF Waits, ExportInv
<1>10. CaptureIsExportedOnce'
    <2>1. Len(jobs') = 1 /\ jobs'[1].status = "queued"
        BY <1>5
    <2> QED BY <1>2, <1>6, <1>9, <2>1 DEF CaptureIsExportedOnce, Captured
<1>11. ASSUME NEW v \in Printers PROVE Handling(v)'
    <2>1. CASE v = w
        BY <1>7, <2>1 DEF Handling
    <2>2. CASE v # w
        <3>1. printing[v].op \in {"succeeded", "export"} => printing[v].on # Paid
            BY <1>1, <2>2 DEF ExportInv
        <3> QED BY <1>6, <1>7, <2>2, <3>1 DEF Handling, ExportInv
    <2> QED BY <2>1, <2>2
<1>12. \A v, x \in Printers : printing'[v].op \in {"succeeded", "export"} /\ printing'[v].on = printing'[x].on
                              /\ printing'[x].op \in {"succeeded", "export"} => v = x
    BY <1>7 DEF ExportInv
<1>13. \A n \in notices' : (n.type = "succeeded" => n = Paid) /\ (n.type = "export" => n = Exporting)
    BY <1>6, <1>8 DEF ExportInv
<1> QED BY <1>2, <1>6, <1>7, <1>8, <1>10, <1>11, <1>12, <1>13 DEF ExportInv, Captured

\* The export runs, and its event is done.
LEMMA ExportRuns ==
    ASSUME ExportInv, NEW w \in Printers, Export(w)
    PROVE  ExportInv'
<1>1. printing[w].op = "export" /\ printing[w].on = Exporting /\ Exporting \in notices
    BY DEF Export, ExportInv, Handling
<1>2. Captured /\ Paid \notin notices
    BY <1>1 DEF ExportInv
<1>3. Len(jobs) = 1 /\ jobs[1].status = "queued"
    BY <1>1, <1>2, WaitsFor DEF ExportInv, Captured, CaptureIsExportedOnce
<1>4. Exporting # Paid /\ Exporting.type = "export" /\ Exporting.number = 1 /\ Paid.type = "succeeded"
    BY DEF Exporting, Paid
<1>5. Len(jobs') = 1 /\ jobs'[1].status # "queued"
    <2>1. PICK done \in BOOLEAN :
              \E job : /\ jobs' = [jobs EXCEPT ![printing[w].on.number] = job]
                       /\ job = [status |-> IF done THEN "done" ELSE "failed",
                                 lines |-> IF done THEN print.lines ELSE {}]
        BY Zenon DEF Export
    <2>2. PICK job : /\ jobs' = [jobs EXCEPT ![printing[w].on.number] = job]
                     /\ job = [status |-> IF done THEN "done" ELSE "failed",
                               lines |-> IF done THEN print.lines ELSE {}]
        BY <2>1
    <2>3. job.status \in {"done", "failed"}
        BY <2>2
    <2>4. printing[w].on.number = 1
        BY <1>1, <1>4
    <2>5. jobs' = [jobs EXCEPT ![1] = job]
        BY <2>2, <2>4
    <2>6. Len(jobs') = 1 /\ jobs'[1] = job
        BY <1>3, <2>5
    <2> QED BY <2>3, <2>6
<1>6. notices' = notices \ {Exporting} /\ ClosePrint(w) /\ charge' = charge
    BY <1>1 DEF Export, Deliver
<1>7. /\ printing' = [b \in Clients \cup Printers |-> printing'[b]]
      /\ printing'[w].op = "idle" /\ \A b \in (Clients \cup Printers) \ {w} : printing'[b] = printing[b]
    BY <1>6, PrintCloses
<1>8. ~Waits("succeeded")' /\ ~Waits("export")'
    BY <1>2, <1>6 DEF Waits, ExportInv
<1>9. CaptureIsExportedOnce'
    BY <1>2, <1>5, <1>6, <1>8 DEF CaptureIsExportedOnce, Captured
<1>10. ASSUME NEW v \in Printers PROVE Handling(v)'
    <2>1. CASE v = w
        BY <1>7, <2>1 DEF Handling
    <2>2. CASE v # w
        <3>1. printing[v].op \in {"succeeded", "export"} => printing[v].on # Exporting
            BY <1>1, <2>2 DEF ExportInv
        <3> QED BY <1>6, <1>7, <2>2, <3>1 DEF Handling, ExportInv
    <2> QED BY <2>1, <2>2
<1>11. \A v, x \in Printers : printing'[v].op \in {"succeeded", "export"} /\ printing'[v].on = printing'[x].on
                              /\ printing'[x].op \in {"succeeded", "export"} => v = x
    BY <1>7 DEF ExportInv
<1> QED BY <1>2, <1>4, <1>6, <1>7, <1>9, <1>10, <1>11 DEF ExportInv, Captured

\* Events of failures and refunds
LEMMA FailureApplied ==
    ASSUME ExportInv, NEW w \in Printers, Failed(w) \/ Refunded(w)
    PROVE  ExportInv'
<1>1. /\ printing[w].op \in {"payment_failed", "canceled", "refunded"} /\ notices' = notices \ {printing[w].on}
      /\ ClosePrint(w) /\ UNCHANGED <<charge, jobs>>
    BY DEF Failed, Refunded, Deliver
<1>2. printing[w].on.type \in {"payment_failed", "canceled", "refunded"}
    BY <1>1 DEF ExportInv, Handling
<1>3. Paid.type = "succeeded" /\ Exporting.type = "export"
    BY DEF Paid, Exporting
<1>4. (Paid \in notices' <=> Paid \in notices) /\ (Exporting \in notices' <=> Exporting \in notices) /\ notices' \subseteq notices
    BY <1>1, <1>2, <1>3
<1>5. NoneTaken
    BY <1>1, NoneIsTaken
<1>6. Captured' <=> Captured
    BY <1>1 DEF Captured
<1> QED BY <1>1, <1>4, <1>5, <1>6, NothingExported DEF ExportInv

LEMMA PrintStep == ASSUME ExportInv, [PrintsNext]_printVars PROVE ExportInv'
<1>1. CASE UNCHANGED printVars \/ AdminSetTracking \/ TakeOffSale \/ (\E status \in SetStatuses : AdminSetStatus(status))
                              \/ \E e \in Edits : CreatePrintOrder(e)
    <2>1. UNCHANGED <<charge, jobs, notices, printing>>
        BY <1>1 DEF printVars, AdminSetTracking, TakeOffSale, AdminSetStatus, CreatePrintOrder
    <2> QED BY <2>1, NoneIsTaken, NoticesStay
<1>2. ASSUME NEW c \in Clients, NEW e \in Edits, BeginUpdate(c, e) PROVE ExportInv'
    <2>1. OpenPrint(c, "update", NotPrinting.on, {e}) /\ UNCHANGED <<charge, jobs, notices>>
        BY <1>2 DEF BeginUpdate
    <2> QED BY <2>1, NoneIsTaken, NoticesStay
<1>3. ASSUME NEW c \in Clients, BeginPay(c) PROVE ExportInv'
    <2>1. /\ OpenPrint(c, "pay", NotPrinting.on, {}) /\ UNCHANGED <<jobs, notices>>
          /\ charge' = charge \/ (charge.state = "none" /\ \E m, f : charge' = [state |-> "open", amount |-> m, failures |-> f])
        BY <1>3 DEF BeginPay
    <2> QED BY <2>1, NoneIsTaken, NoticesStay
<1>4. ASSUME NEW c \in Clients \cup Printers, CommitUpdate(c) \/ CommitPay(c) \/ CrashPrinting(c) PROVE ExportInv'
    <2>1. ClosePrint(c) /\ UNCHANGED <<charge, jobs, notices>>
        BY <1>4 DEF CommitUpdate, CommitPay, CrashPrinting
    <2> QED BY <2>1, NoneIsTaken, NoticesStay
<1> QED BY <1>1, <1>2, <1>3, <1>4, StripeTells, CaptureTold, NoticeTaken, CaptureApplied, FailureApplied, ExportRuns DEF PrintsNext

\* A captured payment of a print order is exported once, and nothing is that was
\* not paid, by however many requests of the client and workers.
THEOREM CapturesAreExportedOnce == PrintsSpec => []CaptureIsExportedOnce
<1>1. ASSUME PrintsInit PROVE ExportInv
    <2>1. NotPrinting.op = "idle" /\ printing = [a \in Clients \cup Printers |-> NotPrinting]
        BY <1>1 DEF PrintsInit, NotPrinting
    <2>2. charge.state = "none" /\ charge = [state |-> charge.state, amount |-> charge.amount, failures |-> charge.failures]
        BY <1>1 DEF PrintsInit, NoCharge
    <2> HIDE DEF NotPrinting
    <2> QED BY <1>1, <2>1, <2>2 DEF PrintsInit, ExportInv, Handling, CaptureIsExportedOnce
<1>2. ExportInv /\ [PrintsNext]_printVars => ExportInv'
    BY PrintStep
<1>3. ExportInv => CaptureIsExportedOnce
    BY DEF ExportInv
<1> QED BY <1>1, <1>2, <1>3, PTL DEF PrintsSpec

----------------------------------------------------------------------------
(* Mails.  A mail of which nothing failed was handed over by one transaction *)
(* at most, which holds its key or has committed it as sent.                 *)

Transaction(d) ==
    LET t == mailing[d]
    IN  /\ {"op", "todo", "reading", "was", "inserted", "sent", "failed", "done", "deferred"} \subseteq DOMAIN t
        /\ t.todo \cap t.sent = {} /\ t.todo \cap t.reading = {} /\ t.reading \cap t.sent = {}
        /\ \A m \in t.reading : t.was = "none" \/ m \in troubled
        /\ t.failed \subseteq troubled
        /\ \A m \in t.sent : m \in troubled \/ m \in t.inserted

Handed(m) == handed[m] = 0 \/ (handed[m] = 1 /\ (mail[m] = "sent" \/ \E d \in Mailers : m \in mailing[d].sent))

MailInv ==
    /\ mailing = [d \in Mailers |-> mailing[d]]
    /\ handed \in [Mails -> Nat] /\ posted \in [Mails -> Nat]
    /\ \A m \in Mails : posted[m] = IF m \in logged THEN 1 ELSE 0
    /\ \A m \in Mails : mail[m] \in {"none", "sent"} \/ m \in troubled
    /\ \A d \in Mailers : Transaction(d)
    /\ \A m \in Mails : m \in troubled \/ Handed(m)

LEMMA Handing ==
    ASSUME MailInv, NEW d \in Mailers, NEW t, mailing' = [mailing EXCEPT ![d] = t]
    PROVE  /\ mailing' = [e \in Mailers |-> mailing'[e]] /\ mailing'[d] = t
           /\ \A e \in Mailers \ {d} : mailing'[e] = mailing[e]
BY DEF MailInv

\* A step that hands no mail over
LEMMA NothingHanded ==
    ASSUME MailInv, UNCHANGED <<mail, logged, handed, posted, troubled>>,
           mailing' = [d \in Mailers |-> mailing'[d]],
           \A d \in Mailers : mailing'[d] = mailing[d] \/ (Transaction(d)' /\ mailing[d].sent \subseteq mailing'[d].sent)
    PROVE  MailInv'
<1>1. ASSUME NEW d \in Mailers PROVE Transaction(d)'
    <2>1. CASE mailing'[d] = mailing[d]
        BY <2>1 DEF MailInv, Transaction
    <2> QED BY <2>1
<1>2. \A d \in Mailers : mailing[d].sent \subseteq mailing'[d].sent
    OBVIOUS
<1>3. \A m \in Mails : m \in troubled' \/ Handed(m)'
    BY <1>2 DEF MailInv, Handed
<1> QED BY <1>1, <1>3 DEF MailInv

\* A worker claims events or scheduled mails.
LEMMA WorkIsTaken ==
    ASSUME MailInv, NEW d \in Mailers, NEW S, ClaimMails(d, S) \/ Sweep(d, S)
    PROVE  MailInv'
<1>1. PICK op, t : t = [NotMailing EXCEPT !.op = op, !.todo = S] /\ mailing' = [mailing EXCEPT ![d] = t]
    BY DEF ClaimMails, Sweep
<1>2. {"op", "todo", "reading", "was", "inserted", "sent", "failed", "done", "deferred"} \subseteq DOMAIN t
    BY <1>1 DEF NotMailing
<1>3. t.reading = {} /\ t.sent = {} /\ t.failed = {}
    BY <1>1 DEF NotMailing
<1>4. UNCHANGED <<mail, logged, handed, posted, troubled>> /\ mailing[d] = NotMailing
    BY DEF ClaimMails, Sweep
<1>5. NotMailing.sent = {}
    BY DEF NotMailing
<1>6. mailing' = [e \in Mailers |-> mailing'[e]] /\ mailing'[d] = t /\ \A e \in Mailers \ {d} : mailing'[e] = mailing[e]
    BY <1>1, Handing
<1>7. Transaction(d)' /\ mailing[d].sent \subseteq mailing'[d].sent
    BY <1>2, <1>3, <1>4, <1>5, <1>6 DEF Transaction
<1> QED BY <1>4, <1>6, <1>7, NothingHanded

\* A mail is looked at: it is sent only if it was not.
LEMMA MailIsRead ==
    ASSUME MailInv, NEW d \in Mailers, NEW m \in Mails, NEW limited, Look(d, m, limited)
    PROVE  MailInv'
<1> DEFINE x == mailing[d]
           verdict == Verdict(d, m, limited)
           over == verdict = "duplicate" \/ (verdict # "send" /\ x.op = "batch")
<1>1. PICK r, was, de, don, t :
          /\ r = (IF verdict = "send" THEN {m} ELSE {}) /\ was = mail[m]
          /\ t = [x EXCEPT !.todo = x.todo \ {m}, !.reading = r, !.was = was, !.deferred = de, !.done = don]
          /\ mailing' = [mailing EXCEPT ![d] = t]
    BY Zenon DEF Look
<1> HIDE DEF x, verdict
<1>2. {"op", "todo", "reading", "was", "inserted", "sent", "failed", "done", "deferred"} \subseteq DOMAIN x
    BY DEF x, MailInv, Transaction
<1>3. /\ DOMAIN t = DOMAIN x /\ t.todo = x.todo \ {m} /\ t.reading = r /\ t.was = was
      /\ t.inserted = x.inserted /\ t.sent = x.sent /\ t.failed = x.failed
    BY <1>1, <1>2
<1>4. UNCHANGED <<mail, logged, handed, posted, troubled>> /\ m \in x.todo
    BY DEF Look, x
<1>5. mailing' = [e \in Mailers |-> mailing'[e]] /\ mailing'[d] = t /\ \A e \in Mailers \ {d} : mailing'[e] = mailing[e]
    BY <1>1, Handing
<1>6. r \subseteq {m} /\ (m \in r => mail[m] # "sent")
    BY <1>1 DEF Verdict, verdict
<1>7. m \in r => was = "none" \/ m \in troubled
    BY <1>1, <1>6 DEF MailInv
<1>8. /\ x.todo \cap x.sent = {} /\ x.failed \subseteq troubled
      /\ \A n \in x.sent : n \in troubled \/ n \in x.inserted
    BY DEF x, MailInv, Transaction
<1>9. Transaction(d)'
    BY <1>2, <1>3, <1>4, <1>5, <1>6, <1>7, <1>8 DEF Transaction
<1>10. mailing[d].sent \subseteq mailing'[d].sent
    BY <1>3, <1>5 DEF x
<1> QED BY <1>4, <1>5, <1>9, <1>10, NothingHanded

\* A mail is handed over, or the provider fails.
LEMMA MailIsHanded ==
    ASSUME MailInv, NEW d \in Mailers, NEW m \in Mails, NEW taken \in BOOLEAN, Send(d, m, taken)
    PROVE  MailInv'
<1> DEFINE x == mailing[d]
<1>1. PICK ins, se, fa, don, t :
          /\ ins = (IF x.was = "none" THEN x.inserted \cup {m} ELSE x.inserted)
          /\ se = (IF taken THEN x.sent \cup {m} ELSE x.sent)
          /\ fa = (IF taken THEN x.failed ELSE x.failed \cup {m})
          /\ t = [x EXCEPT !.reading = {}, !.inserted = ins, !.sent = se, !.failed = fa, !.done = don]
          /\ mailing' = [mailing EXCEPT ![d] = t]
    BY Zenon DEF Send
<1>2. /\ {"op", "todo", "reading", "was", "inserted", "sent", "failed", "done", "deferred"} \subseteq DOMAIN x
      /\ m \in x.reading /\ FreeKey(d, m) /\ UNCHANGED <<mail, logged, posted>>
    BY DEF MailInv, Transaction, Send
<1>3. /\ handed' = [handed EXCEPT ![m] = handed[m] + IF taken THEN 1 ELSE 0]
      /\ troubled' = IF taken THEN troubled ELSE troubled \cup {m}
    BY DEF Send
<1>4. /\ x.todo \cap x.sent = {} /\ x.todo \cap x.reading = {} /\ x.failed \subseteq troubled
      /\ x.was = "none" \/ m \in troubled
      /\ \A n \in x.sent : n \in troubled \/ n \in x.inserted
    BY <1>2 DEF MailInv, Transaction
<1>5. m \notin x.sent
    BY <1>2 DEF MailInv, Transaction
<1> HIDE DEF x
<1>6. /\ DOMAIN t = DOMAIN x /\ t.todo = x.todo /\ t.reading = {}
      /\ t.inserted = ins /\ t.sent = se /\ t.failed = fa
    BY <1>1, <1>2
<1>7. mailing' = [e \in Mailers |-> mailing'[e]] /\ mailing'[d] = t /\ \A e \in Mailers \ {d} : mailing'[e] = mailing[e]
    BY <1>1, Handing
<1>8. troubled \subseteq troubled'
    BY <1>3
<1>9. ASSUME NEW e \in Mailers PROVE Transaction(e)'
    <2>1. CASE e # d
        BY <1>7, <1>8, <2>1 DEF MailInv, Transaction
    <2>2. CASE e = d /\ taken = TRUE
        <3>1. se = x.sent \cup {m} /\ fa = x.failed /\ (m \in ins \/ m \in troubled) /\ x.inserted \subseteq ins
            BY <1>1, <1>4, <2>2
        <3> QED BY <1>2, <1>4, <1>6, <1>7, <1>8, <2>2, <3>1 DEF Transaction
    <2>3. CASE e = d /\ taken = FALSE
        <3>1. se = x.sent /\ fa = x.failed \cup {m} /\ x.inserted \subseteq ins /\ m \in troubled'
            BY <1>1, <1>3, <2>3
        <3> QED BY <1>2, <1>4, <1>6, <1>7, <1>8, <2>3, <3>1 DEF Transaction
    <2> QED BY <2>1, <2>2, <2>3
<1>10. \A e \in Mailers : mailing[e].sent \subseteq mailing'[e].sent
    BY <1>1, <1>6, <1>7 DEF x
<1>11. ASSUME m \notin troubled PROVE handed[m] = 0
    <2>1. x.was = "none"
        BY <1>4, <1>11
    <2>2. mail[m] = "none" /\ \A e \in Mailers \ {d} : m \notin mailing[e].inserted
        BY <1>2, <2>1 DEF FreeKey, x
    <2>3. \A e \in Mailers : m \notin mailing[e].sent
        BY <1>5, <1>11, <2>2 DEF MailInv, Transaction, x
    <2> QED BY <1>11, <2>2, <2>3 DEF MailInv, Handed
<1>12. \A n \in Mails \ {m} : handed'[n] = handed[n]
    BY <1>3 DEF MailInv
<1>13. ASSUME NEW n \in Mails, n \notin troubled' PROVE Handed(n)'
    <2>1. CASE n # m
        <3>1. Handed(n) /\ handed'[n] = handed[n] /\ mail'[n] = mail[n]
            BY <1>2, <1>8, <1>12, <1>13, <2>1 DEF MailInv
        <3> QED BY <1>10, <3>1 DEF Handed
    <2>2. CASE n = m /\ taken = TRUE
        <3>1. handed[m] = 0 /\ handed'[m] = 1
            BY <1>3, <1>8, <1>11, <1>13, <2>2 DEF MailInv
        <3>2. se = x.sent \cup {m}
            BY <1>1, <2>2
        <3>3. m \in mailing'[d].sent
            BY <1>6, <1>7, <3>2
        <3> QED BY <2>2, <3>1, <3>3 DEF Handed
    <2>3. CASE n = m /\ taken = FALSE
        BY <1>3, <1>13, <2>3
    <2> QED BY <2>1, <2>2, <2>3
<1>14. handed' \in [Mails -> Nat]
    <2>1. CASE taken = TRUE
        BY <1>3, <2>1 DEF MailInv
    <2>2. CASE taken = FALSE
        BY <1>3, <2>2 DEF MailInv
    <2> QED BY <2>1, <2>2
<1> QED BY <1>2, <1>7, <1>8, <1>9, <1>13, <1>14 DEF MailInv

\* A transaction ends, with or without what it sent.
LEMMA MailIsCommitted ==
    ASSUME MailInv, NEW d \in Mailers, CommitMails(d)
    PROVE  MailInv'
<1>1. PICK x : x = mailing[d]
    OBVIOUS
<1>2. /\ x.sent \cap logged = {} /\ logged' = logged \cup x.sent /\ UNCHANGED <<handed, troubled>>
      /\ mail' = [m \in Mails |-> IF m \in x.sent THEN "sent" ELSE IF m \in x.failed THEN "failed" ELSE mail[m]]
      /\ posted' = [m \in Mails |-> posted[m] + IF m \in x.sent THEN 1 ELSE 0]
      /\ mailing' = [mailing EXCEPT ![d] = NotMailing]
    BY <1>1 DEF CommitMails, Unlogged
<1>3. x.failed \subseteq troubled
    BY <1>1 DEF MailInv, Transaction
<1>4. mailing' = [e \in Mailers |-> mailing'[e]] /\ mailing'[d] = NotMailing /\ \A e \in Mailers \ {d} : mailing'[e] = mailing[e]
    BY <1>2, Handing
<1>5. ASSUME NEW e \in Mailers PROVE Transaction(e)'
    <2>1. CASE e = d
        BY <1>4, <2>1 DEF Transaction, NotMailing
    <2>2. CASE e # d
        BY <1>2, <1>4, <2>2 DEF MailInv, Transaction
    <2> QED BY <2>1, <2>2
<1>6. \A m \in Mails : mail'[m] \in {"none", "sent"} \/ m \in troubled
    BY <1>2, <1>3 DEF MailInv
<1>7. posted' \in [Mails -> Nat] /\ \A m \in Mails : posted'[m] = IF m \in logged' THEN 1 ELSE 0
    BY <1>2 DEF MailInv
<1>8. ASSUME NEW m \in Mails, m \notin troubled PROVE Handed(m)'
    <2>1. Handed(m) /\ handed'[m] = handed[m]
        BY <1>2, <1>8 DEF MailInv
    <2>2. mail[m] = "sent" \/ m \in x.sent => mail'[m] = "sent"
        BY <1>2, <1>3, <1>8
    <2>3. \A e \in Mailers : m \in mailing[e].sent => m \in x.sent \/ m \in mailing'[e].sent
        BY <1>1, <1>4
    <2> QED BY <2>1, <2>2, <2>3 DEF Handed
<1> QED BY <1>2, <1>4, <1>5, <1>6, <1>7, <1>8 DEF MailInv

LEMMA MailIsRolledBack ==
    ASSUME MailInv, NEW d \in Mailers, RollBack(d)
    PROVE  MailInv'
<1>1. PICK x : x = mailing[d]
    OBVIOUS
<1>2. /\ UNCHANGED <<handed, mail, logged, posted>> /\ troubled' = troubled \cup x.sent
      /\ mailing' = [mailing EXCEPT ![d] = NotMailing]
    BY <1>1 DEF RollBack
<1>3. mailing' = [e \in Mailers |-> mailing'[e]] /\ mailing'[d] = NotMailing /\ \A e \in Mailers \ {d} : mailing'[e] = mailing[e]
    BY <1>2, Handing
<1>4. ASSUME NEW e \in Mailers PROVE Transaction(e)'
    <2>1. CASE e = d
        BY <1>3, <2>1 DEF Transaction, NotMailing
    <2>2. CASE e # d
        BY <1>2, <1>3, <2>2 DEF MailInv, Transaction
    <2> QED BY <2>1, <2>2
<1>5. ASSUME NEW m \in Mails, m \notin troubled' PROVE Handed(m)'
    <2>1. Handed(m) /\ m \notin x.sent
        BY <1>2, <1>5 DEF MailInv
    <2>2. \A e \in Mailers : m \in mailing[e].sent => m \in mailing'[e].sent
        BY <1>1, <1>3, <2>1
    <2> QED BY <1>2, <2>1, <2>2 DEF Handed
<1> QED BY <1>2, <1>3, <1>4, <1>5 DEF MailInv

LEMMA NoticeStep == ASSUME MailInv, [NoticeNext]_noticeVars PROVE MailInv'
<1>1. ASSUME UNCHANGED <<mail, logged, handed, posted, troubled, mailing>> PROVE MailInv'
    BY <1>1, NothingHanded DEF MailInv
<1>2. CASE UNCHANGED noticeVars
    BY <1>1, <1>2 DEF noticeVars
<1>3. CASE \/ \E m \in Mails : (\E again \in Copies : Resend(m, again)) \/ (\E shown \in BOOLEAN : CreateInapp(m, shown))
           \/ \E m \in Notices : Notify(m)
           \/ \E S \in SUBSET Notices : FlagStuck(S) \/ MarkRead(S)
           \/ \E now \in Wants : SetWants(now)
    BY <1>1, <1>3 DEF Resend, CreateInapp, Notify, FlagStuck, Enqueue, MarkRead, SetWants
<1> QED BY <1>2, <1>3, WorkIsTaken, MailIsRead, MailIsHanded, MailIsCommitted, MailIsRolledBack DEF NoticeNext

\* One transaction at most commits a mail as sent, and the provider takes a mail
\* twice only if something failed, by however many workers and sweeps.
THEOREM MailsAreSentOnce == NoticeSpec => []MailIsSentOnce
<1>1. ASSUME NoticeInit PROVE MailInv
    <2>1. \A d \in Mailers : Transaction(d)
        BY <1>1 DEF NoticeInit, Transaction, NotMailing
    <2>2. \A m \in Mails : Handed(m)
        BY <1>1 DEF NoticeInit, Handed
    <2> QED BY <1>1, <2>1, <2>2 DEF NoticeInit, MailInv
<1>2. MailInv /\ [NoticeNext]_noticeVars => MailInv'
    BY NoticeStep
<1>3. MailInv => MailIsSentOnce
    BY DEF MailInv, MailIsSentOnce, Handed
<1> QED BY <1>1, <1>2, <1>3, PTL DEF NoticeSpec
=============================================================================
