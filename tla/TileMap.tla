------------------------------ MODULE TileMap ------------------------------
(***************************************************************************)
(* The local point map of docker/pointcloud-gateway/app.py and the worker  *)
(* that feeds it: PointCloudStore.map_tiles, tile_sequences,               *)
(* removed_tile_sequences and map_sequence, and MapIngestWorker's two      *)
(* slots.  Points and voxels are abstracted to what a merge does to a      *)
(* tile: leave points in it, or empty it.  Tiles lie on one axis, each     *)
(* named by its index; the pose is the tile the vehicle is in.             *)
(***************************************************************************)
EXTENDS Integers, FiniteSets

CONSTANTS
    Tiles,            \* indices of the tiles the clouds can reach
    Poses,            \* tiles the vehicle can be in
    VisibleRadius, VisibleLimit,       \* what a viewer is shown
    RetentionRadius, RetentionLimit,   \* what the store keeps
    HistoryLimit,     \* removedTileHistoryLimit
    DenseInterval,    \* denseToMapMinIntervalSec, in ticks
    MaxSequence,      \* bound: merges explored
    MaxMoves          \* bound: pose changes explored

MapAssumption ==
    /\ Tiles \subseteq Int /\ IsFiniteSet(Tiles)
    /\ Poses \subseteq Int /\ Poses # {}
    /\ VisibleRadius \in Nat /\ RetentionRadius \in Nat
    /\ VisibleLimit \in Nat \ {0} /\ RetentionLimit \in Nat \ {0}
    /\ VisibleRadius <= RetentionRadius /\ VisibleLimit <= RetentionLimit
    /\ HistoryLimit \in Nat \ {0} /\ DenseInterval \in Nat
    /\ MaxSequence \in Nat /\ MaxMoves \in Nat

VARIABLES
    pose,         \* tile of current_pose
    tiles,        \* keys of map_tiles: the tiles with points
    sequence,     \* tile_sequences, 0 for no entry
    removed,      \* removed_tile_sequences, 0 for no entry
    mapSequence,
    slots,        \* the clouds waiting: "keyframe" and "live"
    working,      \* the cloud the worker has taken; "dense" once it may be merged
    sinceDense,   \* time since last_dense_map_merge_at, up to DenseInterval
    judged,       \* time since the dense cloud was judged, up to DenseInterval
    moves

map == <<tiles, sequence, removed, mapSequence>>
worker == <<slots, working, sinceDense, judged>>
vars == <<pose, map, worker, moves>>

Clouds == {"keyframe", "live"}

Init ==
    /\ pose \in Poses /\ moves = 0
    /\ tiles = {}
    /\ sequence = [t \in Tiles |-> 0]
    /\ removed = [t \in Tiles |-> 0]
    /\ mapSequence = 0
    /\ slots = {} /\ working = "none"
    /\ sinceDense = DenseInterval /\ judged = 0

----------------------------------------------------------------------------
\* Which tiles are near: order by distance, then by index.

Distance(t) == IF t < pose THEN pose - t ELSE t - pose

Before(t, u) ==
    \/ Distance(t) < Distance(u)
    \/ Distance(t) = Distance(u) /\ t < u

Nearest(S, n) == {t \in S : Cardinality({u \in S : Before(u, t)}) < n}

Within(S, radius) == {t \in S : Distance(t) <= radius}

\* What a viewer should see: the nearest tiles in the radius, or, when it is
\* empty, the nearest of all.
Visible ==
    LET near == Within(tiles, VisibleRadius)
    IN Nearest(IF near = {} THEN tiles ELSE near, VisibleLimit)

----------------------------------------------------------------------------
\* A merge leaves points in the tiles of `filled` and empties those of
\* `emptied`: the cache limit evicts old points, and a point that shares its
\* voxel's key with one of another tile takes it from there.  A tile can be
\* emptied first and filled later in one merge.

Kept(filled, emptied) == (tiles \ emptied) \cup filled

Retained(S) == Nearest(Within(S, RetentionRadius), RetentionLimit)

\* Mutant: a tile removed and refilled in one merge keeps both marks.
UpdatedThoughRemoved(filled, gone) == filled

Updated(filled, gone) == filled \ gone

\* Mutant: an update leaves the tile in the removal history.
HistoryKept(updated, gone, n) ==
    [t \in Tiles |-> IF t \in gone THEN n ELSE removed[t]]

History(updated, gone, n) ==
    [t \in Tiles |->
        IF t \in updated THEN 0 ELSE IF t \in gone THEN n ELSE removed[t]]

\* The history forgets its oldest entries first; entries of one merge are in
\* an order the model leaves open.
Trimmed(h) ==
    LET Listed(g) == {t \in Tiles : g[t] > 0}
    IN {g \in [Tiles -> {0} \cup {h[t] : t \in Tiles}] :
          /\ \A t \in Tiles : g[t] \in {0, h[t]}
          /\ Cardinality(Listed(g)) =
               (IF Cardinality(Listed(h)) <= HistoryLimit
                THEN Cardinality(Listed(h)) ELSE HistoryLimit)
          /\ \A t \in Listed(h) \ Listed(g), u \in Listed(g) : h[t] <= h[u]}

Changes(updated, gone) ==
    IF updated = {} /\ gone = {} /\ mapSequence # 0
    THEN UNCHANGED <<sequence, removed, mapSequence>>
    ELSE /\ mapSequence' = mapSequence + 1
         /\ sequence' = [t \in Tiles |->
               IF t \in updated THEN mapSequence + 1
               ELSE IF t \in gone THEN 0 ELSE sequence[t]]
         /\ removed' \in Trimmed(History(updated, gone, mapSequence + 1))

Merge ==
    \E filled, emptied \in SUBSET Tiles :
        LET kept == Kept(filled, emptied)
            gone == emptied \cup (kept \ Retained(kept))
        IN /\ filled = {} => emptied = {}
           /\ tiles' = Retained(kept)
           /\ Changes(Updated(filled, gone), gone)

----------------------------------------------------------------------------
\* MapIngestWorker: one slot for each kind of cloud, keyframes first.

IntervalPassed == sinceDense = DenseInterval

Room ==   \* bound: every cloud on its way can still be merged
    mapSequence + Cardinality(slots) + (IF working = "none" THEN 0 ELSE 1) < MaxSequence

Submit(cloud) ==
    /\ cloud = "live" => IntervalPassed
    /\ cloud \in slots \/ Room
    /\ slots' = slots \cup {cloud}
    /\ UNCHANGED <<pose, map, working, sinceDense, judged, moves>>

Take ==
    /\ working = "none" /\ slots # {}
    /\ working' = IF "keyframe" \in slots THEN "keyframe" ELSE "live"
    /\ slots' = slots \ {working'}
    /\ UNCHANGED <<pose, map, sinceDense, judged, moves>>

\* _process_keyframe: the points are extracted, then merged under the lock.
ProcessKeyframe ==
    /\ working = "keyframe" /\ working' = "none"
    /\ Merge
    /\ UNCHANGED <<pose, slots, sinceDense, judged, moves>>

\* _process_live reads the clock and the time of the last merge, and judges the cloud by them.
JudgeLive ==
    /\ working = "live"
    /\ working' = IF IntervalPassed THEN "dense" ELSE "none"
    /\ judged' = 0
    /\ UNCHANGED <<pose, map, slots, sinceDense, moves>>

\* Then it extracts the points, without the lock, and merges them under it.  The time it
\* notes for the merge is the one it judged by.
MergeDense ==
    /\ working = "dense" /\ working' = "none"
    /\ Merge
    /\ sinceDense' = judged /\ judged' = 0
    /\ UNCHANGED <<pose, slots, moves>>

\* The extraction raises: the cloud is dropped, and the worker goes on.
Fail ==
    /\ working \in {"keyframe", "dense"} /\ working' = "none"
    /\ judged' = 0
    /\ UNCHANGED <<pose, map, slots, sinceDense, moves>>

Move ==
    /\ moves < MaxMoves /\ moves' = moves + 1
    /\ pose' \in Poses \ {pose}
    /\ UNCHANGED <<map, worker>>

Later(t) == IF t < DenseInterval THEN t + 1 ELSE t

Tick ==
    /\ sinceDense' = Later(sinceDense)
    /\ judged' = IF working = "dense" THEN Later(judged) ELSE judged
    /\ UNCHANGED <<pose, map, slots, working, moves>>

Work == Take \/ ProcessKeyframe \/ JudgeLive \/ MergeDense \/ Fail

Next ==
    \/ \E cloud \in Clouds : Submit(cloud)
    \/ Work \/ Move \/ Tick

Spec == Init /\ [][Next]_vars

----------------------------------------------------------------------------
\* Properties

\* Type invariant.
MapTypeOK ==
    /\ pose \in Int /\ moves \in 0..MaxMoves
    /\ tiles \subseteq Tiles
    /\ mapSequence \in Nat
    /\ sequence \in [Tiles -> Nat] /\ removed \in [Tiles -> Nat]
    /\ slots \subseteq Clouds /\ working \in Clouds \cup {"none", "dense"}
    /\ sinceDense \in 0..DenseInterval /\ judged \in 0..DenseInterval

(***************************************************************************)
(* A tile that has an update sequence is in the map and is not listed as   *)
(* removed, no sequence is ahead of the map's, and no more removals are    *)
(* remembered than the limit: what the streams compare against is one      *)
(* consistent history, also when a merge empties a tile and fills it again.*)
(***************************************************************************)
SequencesAgree ==
    /\ \A t \in Tiles :
        /\ sequence[t] > 0 => t \in tiles /\ removed[t] = 0
        /\ sequence[t] <= mapSequence /\ removed[t] <= mapSequence
    /\ Cardinality({t \in Tiles : removed[t] > 0}) <= HistoryLimit
=============================================================================
