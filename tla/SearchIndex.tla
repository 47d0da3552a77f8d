---------------------------- MODULE SearchIndex ----------------------------
(***************************************************************************)
(* The search index kept beside the database:                              *)
(* api/app/services/search_indexing.py, the provider of search_provider.py *)
(* and the rebuild and purge of api/v1/search.py.                          *)
(*                                                                         *)
(* A change asks for indexing with an outbox event whose idempotency key   *)
(* is never free again; keys that name the time of the change are always   *)
(* new, others are not.  A worker builds the document of an event from the *)
(* rows it finds, then sends it, and the event goes with its commit.       *)
(***************************************************************************)
EXTENDS Integers, FiniteSets

CONSTANTS
    Indexed,        \* pros, courses, products, content packs and repair partners
    RepairPartners, \* those of them that are repair partners
    Indexers,       \* outbox workers
    FixedTags,      \* suffixes that name no time: sync, approved, admin_override...
    MaxVersion,     \* bound on the changes of a row
    MaxRebuilds     \* bound on the rebuilds

ASSUME SearchAssumption == RepairPartners \subseteq Indexed /\ {MaxVersion, MaxRebuilds} \subseteq Nat

VARIABLES
    row,        \* the rows a document is built from: how often changed, listed or not
    document,   \* the search provider: the version a document shows, if any
    announced,  \* the last change of each row that an event was made for
    indexQueue, \* index.* events that wait
    indexKeys,  \* idempotency keys of the search_indexing scope
    indexing,   \* the event each worker handles and the document it has built
    rebuilds    \* rebuilds in the admin's audit log

indexVars == <<row, document, announced, indexQueue, indexKeys, indexing, rebuilds>>

RowVersion == 0..MaxVersion
Rows == [version : RowVersion, listed : BOOLEAN]
Nowhere == [version |-> 0, listed |-> FALSE]
IndexEvents == [of : Indexed, tag : FixedTags \cup {"rebuild", "delete", "updated_at"}, at : RowVersion]
NotIndexing == [task |-> {}, built |-> Nowhere]

IndexEvent(e, tag, at) == [of |-> e, tag |-> tag, at |-> at]

\* enqueue_index_event: nothing when the key was used before
Announce(event) ==
    /\ indexQueue' = indexQueue \cup ({event} \ indexKeys)
    /\ indexKeys' = indexKeys \cup {event}
    /\ announced' = IF event \in indexKeys THEN announced
                    ELSE [announced EXCEPT ![event.of] = row'[event.of].version]

Write(e, listed) ==
    /\ row[e].version < MaxVersion
    /\ row' = [row EXCEPT ![e] = [version |-> @.version + 1, listed |-> listed]]

----------------------------------------------------------------------------
\* a product, course, partner, score, skill or listing: the key is updated_at
TimedChange(e, listed) ==
    /\ Write(e, listed)
    /\ Announce(IndexEvent(e, "updated_at", row'[e].version))
    /\ UNCHANGED <<document, indexing, rebuilds>>

\* a feed's sync, a course's approval, an override of a skill, a review
FixedChange(e, tag, listed) ==
    /\ Write(e, listed)
    /\ Announce(IndexEvent(e, tag, 0))
    /\ UNCHANGED <<document, indexing, rebuilds>>

\* a product's partner is switched off: no event
QuietChange(e, listed) ==
    /\ Write(e, listed)
    /\ UNCHANGED <<document, announced, indexQueue, indexKeys, indexing, rebuilds>>

\* admin_takedown_studioverse_pack
TakeDown(e) ==
    /\ Write(e, FALSE)
    /\ Announce(IndexEvent(e, "delete", row'[e].version))
    /\ UNCHANGED <<document, indexing, rebuilds>>

----------------------------------------------------------------------------
(* The worker *)

\* the build_*_document functions; build_repair_partner_document returns nothing
Built(e) ==
    IF e \in RepairPartners \/ ~row[e].listed THEN [row[e] EXCEPT !.listed = FALSE] ELSE row[e]

BeginIndexing(w, event) ==
    /\ indexing[w] = NotIndexing
    /\ \A v \in Indexers : event \notin indexing[v].task
    /\ indexing' = [indexing EXCEPT ![w] =
           [task |-> {event},
            built |-> IF event.tag = "delete" THEN [row[event.of] EXCEPT !.listed = FALSE]
                      ELSE Built(event.of)]]
    /\ UNCHANGED <<row, document, announced, indexQueue, indexKeys, rebuilds>>

\* upsert_documents or delete_documents; the worker may die before the event is delivered
SendDocument(w) ==
    \E event \in indexing[w].task :
        /\ document' = [document EXCEPT ![event.of] = indexing[w].built]
        /\ indexing' = [indexing EXCEPT ![w] = NotIndexing]
        /\ indexQueue' \in {indexQueue \ {event}, indexQueue}
        /\ UNCHANGED <<row, announced, indexKeys, rebuilds>>

\* the provider does not answer, or the worker dies first
FailIndexingMutSwallowed(w) ==
    /\ indexing[w] # NotIndexing
    /\ indexing' = [indexing EXCEPT ![w] = NotIndexing]
    /\ indexQueue' = indexQueue \ indexing[w].task
    /\ UNCHANGED <<row, document, announced, indexKeys, rebuilds>>
FailIndexing(w) ==
    /\ indexing[w] # NotIndexing
    /\ indexing' = [indexing EXCEPT ![w] = NotIndexing]
    /\ UNCHANGED <<row, document, announced, indexQueue, indexKeys, rebuilds>>

----------------------------------------------------------------------------
(* The admin *)

\* admin_search_rebuild: no content packs among the indexes
Rebuild ==
    LET asked == {IndexEvent(e, "rebuild", 0) : e \in {x \in Indexed : row[x] # Nowhere}} \ indexKeys
    IN  /\ rebuilds < MaxRebuilds /\ rebuilds' = rebuilds + 1
        /\ indexQueue' = indexQueue \cup asked
        /\ indexKeys' = indexKeys \cup asked
        /\ announced' = [e \in Indexed |-> IF \E q \in asked : q.of = e THEN row[e].version
                                           ELSE announced[e]]
        /\ UNCHANGED <<row, document, indexing>>

\* admin_search_purge deletes every document
Purge ==
    /\ document' = [e \in Indexed |-> Nowhere]
    /\ announced' = [e \in Indexed |-> 0]
    /\ UNCHANGED <<row, indexQueue, indexKeys, indexing, rebuilds>>

----------------------------------------------------------------------------
SearchInit ==
    /\ row = [e \in Indexed |-> Nowhere]
    /\ document = [e \in Indexed |-> Nowhere]
    /\ announced = [e \in Indexed |-> 0]
    /\ indexQueue = {} /\ indexKeys = {}
    /\ indexing = [w \in Indexers |-> NotIndexing] /\ rebuilds = 0

SearchNext ==
    \/ \E e \in Indexed, listed \in BOOLEAN :
           \/ TimedChange(e, listed) \/ QuietChange(e, listed)
           \/ \E tag \in FixedTags : FixedChange(e, tag, listed)
    \/ \E e \in Indexed \ RepairPartners : TakeDown(e)
    \/ \E w \in Indexers : SendDocument(w) \/ FailIndexing(w) \/ \E event \in indexQueue : BeginIndexing(w, event)
    \/ Rebuild \/ Purge

SearchSpec == SearchInit /\ [][SearchNext]_indexVars

----------------------------------------------------------------------------
SearchTypeOK ==
    /\ row \in [Indexed -> Rows] /\ document \in [Indexed -> Rows]
    /\ announced \in [Indexed -> RowVersion]
    /\ indexQueue \subseteq IndexEvents /\ indexKeys \subseteq IndexEvents /\ indexQueue \subseteq indexKeys
    /\ indexing \in [Indexers -> [task : SUBSET indexQueue, built : Rows]]
    /\ rebuilds \in 0..MaxRebuilds

\* Once no event of a row waits, its document shows the last change that was
\* announced or a later one, whatever was retried in between: workers build
\* documents from the rows and not from what the event said.
IndexCatchesUp ==
    \A e \in Indexed : (\A q \in indexQueue : q.of # e) => document[e].version >= announced[e]
=============================================================================
