----------------------------- MODULE MapStream -----------------------------
(***************************************************************************)
(* One map WebSocket of docker/pointcloud-gateway/app.py (handle_ws,       *)
(* flush_map_stream, MapStreamCursor) over the TileMap: the viewer is sent *)
(* the visible tiles and then their changes, in bursts, by a coroutine     *)
(* that waits for the client's messages between two bursts and for an      *)
(* executor while it builds a tile's packets.  Viewers do not affect one   *)
(* another.  A tile queued twice for removal counts once, and the queues   *)
(* of removals and of snapshot tiles are served in any order.              *)
(***************************************************************************)
EXTENDS Integers, FiniteSets

CONSTANTS Tiles, Poses, VisibleRadius, VisibleLimit, RetentionRadius,
          RetentionLimit, HistoryLimit, DenseInterval, MaxSequence, MaxMoves,
          SnapshotBurst, DeltaBurst,   \* messages of one flush
          Chunks,                      \* packets of one tile
          NoTile

\* the map, see TileMap
VARIABLES pose, tiles, sequence, removed, mapSequence, slots, working, sinceDense, judged, moves
VARIABLES
    pc,             \* "closed", "receive", "flush", "scan" or "build"
    left,           \* burst_limit - sent_messages
    text,           \* pending_text_messages: tiles whose removal is queued
    packets,        \* pending_binary_packets: those of one tile at most
    snapshot,       \* snapshot_pending_tiles
    building,       \* the tile of the build that is awaited
    known,          \* known_tile_sequences, 0 for no entry
    knownRemoved,   \* known_removed_sequences, 0 for no entry
    visible,        \* visible_tile_keys
    shown,          \* at the viewer: the sequence it shows a tile at, 0 for not at all
    overtaken       \* tiles whose removal was queued ahead of their last packets (history)

Map == INSTANCE TileMap
map == <<pose, tiles, sequence, removed, mapSequence, slots, working, sinceDense, judged, moves>>
viewer == <<shown, overtaken>>
cursor == <<text, packets, snapshot, known, knownRemoved, visible>>
stream == <<pc, left, building, cursor, viewer>>
vars == <<map, stream>>

ASSUME StreamAssumption ==
    /\ Map!MapAssumption
    /\ SnapshotBurst \in Nat \ {0} /\ DeltaBurst \in Nat \ {0} /\ Chunks \in Nat \ {0}
    /\ NoTile \notin Tiles

Zero == [t \in Tiles |-> 0]
NoPackets == [tile |-> NoTile, sequence |-> 0, count |-> 0]

Init ==
    /\ Map!Init
    /\ pc = "closed" /\ left = 0 /\ building = NoTile
    /\ text = {} /\ packets = NoPackets /\ snapshot = {}
    /\ known = Zero /\ knownRemoved = Zero /\ visible = {}
    /\ shown = Zero /\ overtaken = {}

----------------------------------------------------------------------------
\* A connection begins with a fresh cursor and a map_reset; it ends when the
\* client goes or a send fails.
Connect ==
    /\ pc = "closed" /\ pc' = "receive"
    /\ snapshot' = Map!Visible
    /\ text' = {} /\ packets' = NoPackets
    /\ known' = Zero /\ knownRemoved' = Zero /\ visible' = {}
    /\ shown' = Zero /\ overtaken' = {}
    /\ UNCHANGED <<map, left, building>>

Close ==
    /\ pc # "closed" /\ pc' = "closed"
    /\ left' = 0 /\ building' = NoTile
    /\ UNCHANGED <<map, cursor, viewer>>

----------------------------------------------------------------------------
\* sync_cursor_visibility and the start of a flush.
NextVisible ==
    LET want == Map!Visible
        stay == Map!Within(visible \cap tiles, RetentionRadius) \ want
    IN want \cup Map!Nearest(stay, RetentionLimit - Cardinality(want))

\* Mutant: the cursor forgets every tile it does not want, retained or not.
KnownWanted(leaving) == [t \in Tiles |-> IF t \in Map!Visible THEN known[t] ELSE 0]

KnownAfter(leaving) == [t \in Tiles |-> IF t \in leaving THEN 0 ELSE known[t]]

Sync ==
    LET stays == NextVisible
        leaving == visible \ stays
    IN /\ pc = "receive" /\ pc' = "flush"
       /\ visible' = stays
       /\ snapshot' = (snapshot \cap stays) \cup (Map!Visible \ visible)
       /\ text' = text \cup leaving
       /\ known' = KnownAfter(leaving)
       /\ knownRemoved' = [t \in Tiles |->
              IF t \in leaving THEN mapSequence ELSE knownRemoved[t]]
       /\ overtaken' = overtaken \cup (leaving \cap {packets.tile})
       /\ left' = IF snapshot' = {} /\ packets = NoPackets /\ text' = {}
                  THEN DeltaBurst ELSE SnapshotBurst
       /\ UNCHANGED <<map, packets, building, shown>>

\* The loop of a flush: removals first, then packets, then the snapshot, then
\* what the map has changed.
SendRemoval ==
    /\ pc = "flush" /\ left > 0
    /\ \E t \in text :
        /\ text' = text \ {t}
        /\ shown' = [shown EXCEPT ![t] = 0]
        /\ overtaken' = IF t = packets.tile THEN overtaken ELSE overtaken \ {t}
    /\ left' = left - 1
    /\ UNCHANGED <<map, pc, building, packets, snapshot, known, knownRemoved, visible>>

\* Mutant: one packet too many.
RestOffByOne ==
    IF packets.count = 0 THEN NoPackets ELSE [packets EXCEPT !.count = @ - 1]

Rest ==
    IF packets.count = 1 THEN NoPackets ELSE [packets EXCEPT !.count = @ - 1]

SendPacket ==
    /\ pc = "flush" /\ left > 0
    /\ text = {} /\ packets # NoPackets
    /\ packets' = Rest
    /\ shown' = [shown EXCEPT ![packets.tile] = packets.sequence]
    /\ left' = left - 1
    /\ UNCHANGED <<map, pc, building, text, snapshot, known, knownRemoved, visible, overtaken>>

SnapshotTile ==
    /\ pc = "flush" /\ left > 0
    /\ text = {} /\ packets = NoPackets
    /\ \E t \in snapshot : snapshot' = snapshot \ {t} /\ building' = t
    /\ pc' = "build"
    /\ UNCHANGED <<map, left, text, packets, known, knownRemoved, visible, viewer>>

NewRemovals ==
    {t \in Tiles : removed[t] > known[t] /\ removed[t] > knownRemoved[t]}

FindRemoved ==
    /\ pc = "flush" /\ left > 0
    /\ text = {} /\ packets = NoPackets /\ snapshot = {}
    /\ IF NewRemovals = {}
       THEN pc' = "scan" /\ UNCHANGED <<text, knownRemoved>>
       ELSE \E t \in NewRemovals :
              /\ text' = {t}
              /\ knownRemoved' = [knownRemoved EXCEPT ![t] = removed[t]]
              /\ UNCHANGED pc
    /\ UNCHANGED <<map, left, building, packets, snapshot, known, visible, viewer>>

\* Mutant: the sequence the cursor knows counts as new.
NewOrSame == {t \in visible \cap tiles : sequence[t] >= known[t]}

NewUpdates == {t \in visible \cap tiles : sequence[t] > known[t]}

FirstUpdate(t) ==   \* nearest, then latest
    \A u \in NewUpdates \ {t} :
        \/ Map!Distance(t) < Map!Distance(u)
        \/ /\ Map!Distance(t) = Map!Distance(u)
           /\ sequence[t] > sequence[u] \/ (sequence[t] = sequence[u] /\ t < u)

FindUpdated ==
    /\ pc = "scan"
    /\ IF NewUpdates = {}
       THEN pc' = "receive" /\ left' = 0 /\ UNCHANGED building
       ELSE /\ \E t \in NewUpdates : FirstUpdate(t) /\ building' = t
            /\ pc' = "build" /\ UNCHANGED left
    /\ UNCHANGED <<map, cursor, viewer>>

\* build_map_tile_packets: nothing for a tile without points or sequence, or
\* outside the visible tiles, for only those have a point budget.
Buildable(t) == t \in Map!Visible /\ sequence[t] > 0

\* Mutant: the cursor notes the map's sequence, not that of the packets.
KnownAtMap(t) == IF Buildable(t) THEN [known EXCEPT ![t] = mapSequence] ELSE known

\* Mutant: the cursor notes a tile of which nothing was built.
KnownAnyway(t) == [known EXCEPT ![t] = sequence[t]]

KnownBuilt(t) == IF Buildable(t) THEN [known EXCEPT ![t] = sequence[t]] ELSE known

Build ==
    /\ pc = "build" /\ pc' = "flush"
    /\ building' = NoTile
    /\ known' = KnownBuilt(building)
    /\ IF Buildable(building)
       THEN /\ packets' = [tile |-> building, sequence |-> sequence[building], count |-> Chunks]
            /\ overtaken' = overtaken \ {building}
       ELSE UNCHANGED <<packets, overtaken>>
    /\ UNCHANGED <<map, left, text, snapshot, knownRemoved, visible, shown>>

EndFlush ==
    /\ pc = "flush" /\ left = 0 /\ pc' = "receive"
    /\ UNCHANGED <<map, left, building, cursor, viewer>>

Stream ==
    \/ Sync \/ SendRemoval \/ SendPacket \/ SnapshotTile
    \/ FindRemoved \/ FindUpdated \/ Build \/ EndFlush

MapStep == Map!Next /\ UNCHANGED stream

Next == Connect \/ Close \/ Stream \/ MapStep

Spec == Init /\ [][Next]_vars
FairSpec == Spec /\ WF_vars(Stream)

----------------------------------------------------------------------------
\* Properties

\* Type invariant.
TypeOK ==
    /\ Map!MapTypeOK
    /\ pc \in {"closed", "receive", "flush", "scan", "build"}
    /\ left \in Nat /\ building \in Tiles \cup {NoTile}
    /\ pc = "build" => building \in Tiles
    /\ text \subseteq Tiles /\ snapshot \subseteq Tiles
    /\ visible \subseteq Tiles /\ overtaken \subseteq Tiles
    /\ packets \in [tile : Tiles \cup {NoTile}, sequence : Nat, count : Nat]
    /\ packets # NoPackets => packets.tile \in Tiles /\ packets.count > 0
    /\ known \in [Tiles -> Nat] /\ knownRemoved \in [Tiles -> Nat]
    /\ shown \in [Tiles -> Nat]

\* _merge_points_into_map_locked, _mark_map_changes_locked: what the streams compare their
\* cursors against is one consistent history of updates and removals.
SequencesAgree == Map!SequencesAgree

(***************************************************************************)
(* A cursor never believes more than the viewer gets: where it holds an    *)
(* update newer than the last removal, that very update is what the viewer *)
(* shows, or its packets are queued and no removal is.  The builds it      *)
(* waits for, and the removals it queues between two bursts of a tile's    *)
(* packets, do not break this.                                             *)
(***************************************************************************)
CursorHonest ==
    \A t \in Tiles : known[t] > knownRemoved[t] =>
        /\ t \notin text
        /\ known[t] = IF packets.tile = t THEN packets.sequence ELSE shown[t]

(***************************************************************************)
(* A tile the viewer shows is one the cursor still accounts for, or its    *)
(* removal is queued, or (the hazard) that removal overtook its packets.   *)
(***************************************************************************)
ShownIsAccounted ==
    \A t \in Tiles : shown[t] > 0 =>
        t \in text \cup overtaken \cup {packets.tile} \/ known[t] > 0

(***************************************************************************)
(* When the map has come to rest and the client is being listened to       *)
(* again and again, the viewer ends up with every visible tile at its      *)
(* latest sequence, and without tiles the map no longer has, save those    *)
(* whose removal overtook their packets.                                   *)
(***************************************************************************)
UpToDate ==
    /\ \A t \in Map!Visible : sequence[t] > 0 => shown[t] = sequence[t]
    /\ \A t \in Tiles \ overtaken : shown[t] > 0 => t \in tiles

ViewerConverges ==
    (<>[](pc # "closed") /\ []<>(pc = "receive")) => <>[]UpToDate

(***************************************************************************)
(* A stream that never returns to its client is spinning on a tile that    *)
(* the viewer keeps, the map has updated, and the visible set leaves out.  *)
(***************************************************************************)
HiddenUpdate == NewUpdates \ Map!Visible # {}

SpinsOnHiddenOnly ==
    <>[](pc \notin {"closed", "receive"}) => <>[]HiddenUpdate

(***************************************************************************)
(* A viewer never goes back: what it shows a tile at grows, up to the      *)
(* map's own sequence, until the tile is removed or the connection is      *)
(* begun anew.  Packets sent in several bursts, builds awaited while the   *)
(* map goes on, and tiles that are emptied and filled again do not bring   *)
(* an older picture after a newer one.                                     *)
(***************************************************************************)
ViewerNeverGoesBack ==
    [][\A t \in Tiles : shown'[t] = 0 \/ shown'[t] \in shown[t]..mapSequence']_vars

(***************************************************************************)
(* What ViewerConverges and SpinsOnHiddenOnly rest on: whatever the map    *)
(* does meanwhile, each turn of a flush uses up its burst, or the tiles of *)
(* the snapshot, or goes on to the next stage of the turn, until the       *)
(* client is listened to again; all but the build of a tile that the       *)
(* visible set leaves out.                                                 *)
(***************************************************************************)
Stage ==
    CASE pc = "flush" -> IF text = {} /\ packets = NoPackets THEN 3 ELSE 0
      [] pc = "scan" -> 2
      [] OTHER -> 1

Advances ==
    /\ snapshot' \subseteq snapshot
    /\ \/ left' < left
       \/ left' = left /\ (snapshot' # snapshot \/ Stage' < Stage)

Flushing == pc \notin {"closed", "receive"}

FlushAdvances ==
    [][Flushing /\ Flushing' /\ (pc = "build" => Buildable(building)) => Advances]_stream

(***************************************************************************)
(* Neither the map nor a cursor outgrows the limit: no more tiles are      *)
(* kept, wanted by a viewer or noted in its cursor than retentionTileLimit,*)
(* however long the vehicle flies.                                         *)
(***************************************************************************)
WithinLimits ==
    /\ Cardinality(tiles) <= RetentionLimit
    /\ Cardinality(visible) <= RetentionLimit
    /\ Cardinality({t \in Tiles : known[t] > 0}) <= RetentionLimit
=============================================================================
