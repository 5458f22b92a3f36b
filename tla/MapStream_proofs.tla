-------------------------- MODULE MapStream_proofs --------------------------
(* Proofs about MapStream and the TileMap it serves.                         *)
EXTENDS MapStream, FiniteSetTheorems, TLAPS

----------------------------------------------------------------------------
\* The map.  Its inductive invariant is its type and SequencesAgree.

MapInv == Map!MapTypeOK /\ Map!SequencesAgree

LEMMA MapConstants ==
    /\ Tiles \subseteq Int /\ Poses \subseteq Int
    /\ HistoryLimit \in Nat \ {0} /\ DenseInterval \in Nat /\ MaxMoves \in Nat
BY StreamAssumption DEF Map!MapAssumption

\* The map counts as this module does.
LEMMA SameCardinality == \A S : Map!Cardinality(S) = Cardinality(S)
BY Zenon DEF Map!Cardinality, Cardinality

\* What is retained of a set of tiles is among them.
LEMMA RetainedInside ==
    ASSUME NEW S PROVE Map!Retained(S) \subseteq S
BY Zenon DEF Map!Retained, Map!Nearest, Map!Within

LEMMA VisibleInside == Map!Visible \subseteq tiles
<1>1. \A S, n : Map!Nearest(S, n) \subseteq S
  BY Zenon DEF Map!Nearest
<1>2. Map!Within(tiles, VisibleRadius) \subseteq tiles
  BY Zenon DEF Map!Within
<1>3. QED BY <1>1, <1>2 DEF Map!Visible

\* Trimming a history only forgets entries, and leaves no more than the limit.
LEMMA TrimmedHistory ==
    ASSUME NEW h \in [Tiles -> Nat], NEW g \in Map!Trimmed(h)
    PROVE  /\ g \in [Tiles -> Nat]
           /\ \A t \in Tiles : g[t] \in {0, h[t]}
           /\ Cardinality({t \in Tiles : g[t] > 0}) <= HistoryLimit
<1> DEFINE Listed(f) == {t \in Tiles : f[t] > 0}
<1>1. /\ g \in [Tiles -> {0} \cup {h[t] : t \in Tiles}]
      /\ \A t \in Tiles : g[t] \in {0, h[t]}
      /\ Cardinality(Listed(g)) =
           (IF Cardinality(Listed(h)) <= HistoryLimit
            THEN Cardinality(Listed(h)) ELSE HistoryLimit)
  BY Zenon, SameCardinality DEF Map!Trimmed
<1>2. {0} \cup {h[t] : t \in Tiles} \subseteq Nat
  OBVIOUS
<1>3. g \in [Tiles -> Nat]
  BY <1>1, <1>2
<1>4. Cardinality(Listed(g)) <= HistoryLimit
  BY <1>1, MapConstants
<1>5. QED BY <1>1, <1>3, <1>4

\* What a change of the map leaves behind, for the tiles it updated and removed.
LEMMA ChangesKeep ==
    ASSUME MapInv, NEW updated \in SUBSET Tiles, NEW gone \in SUBSET Tiles,
           updated \cap gone = {},
           tiles' \subseteq Tiles,
           updated \subseteq tiles', tiles \ gone \subseteq tiles',
           Map!Changes(updated, gone), UNCHANGED <<pose, moves>>
    PROVE  /\ mapSequence' \in Nat
           /\ sequence' \in [Tiles -> Nat] /\ removed' \in [Tiles -> Nat]
           /\ Map!SequencesAgree'
<1> USE DEF MapInv, Map!MapTypeOK
<1>1. CASE UNCHANGED <<sequence, removed, mapSequence>>
  <2>1. ASSUME NEW t \in Tiles, sequence[t] > 0 PROVE t \in tiles'
    <3>1. CASE updated = {} /\ gone = {}
      BY <2>1, <3>1 DEF Map!SequencesAgree
    <3>2. CASE ~(updated = {} /\ gone = {})
      BY <1>1, <3>2 DEF Map!Changes
    <3>3. QED BY <3>1, <3>2
  <2>2. QED BY <1>1, <2>1 DEF Map!SequencesAgree
<1>2. CASE ~(UNCHANGED <<sequence, removed, mapSequence>>)
  <2> DEFINE n == mapSequence + 1
             h == Map!History(updated, gone, n)
  <2>1. /\ mapSequence' = n
        /\ sequence' = [t \in Tiles |-> IF t \in updated THEN n
                         ELSE IF t \in gone THEN 0 ELSE sequence[t]]
        /\ removed' \in Map!Trimmed(h)
    BY <1>2 DEF Map!Changes
  <2>2. n \in Nat /\ n > mapSequence
    OBVIOUS
  <2>3. /\ h \in [Tiles -> Nat]
        /\ \A t \in Tiles : h[t] =
             IF t \in updated THEN 0 ELSE IF t \in gone THEN n ELSE removed[t]
    BY <2>2 DEF Map!History
  <2>5. /\ removed' \in [Tiles -> Nat]
        /\ \A t \in Tiles : removed'[t] \in {0, h[t]}
        /\ Cardinality({t \in Tiles : removed'[t] > 0}) <= HistoryLimit
    <3> HIDE DEF h
    <3> QED BY <2>1, <2>3, TrimmedHistory
  <2>6. sequence' \in [Tiles -> Nat]
    BY <2>1, <2>2
  <2>7. ASSUME NEW t \in Tiles
        PROVE  /\ sequence'[t] > 0 => t \in tiles' /\ removed'[t] = 0
               /\ sequence'[t] <= mapSequence' /\ removed'[t] <= mapSequence'
    <3> HIDE DEF h, n
    <3>1. /\ sequence[t] > 0 => t \in tiles /\ removed[t] = 0
          /\ sequence[t] <= mapSequence /\ removed[t] <= mapSequence
      BY DEF Map!SequencesAgree
    <3>2. sequence'[t] = IF t \in updated THEN n
                         ELSE IF t \in gone THEN 0 ELSE sequence[t]
      BY <2>1
    <3>3. CASE t \in updated
      BY <3>1, <3>2, <3>3, <2>1, <2>2, <2>3, <2>5
    <3>4. CASE t \in gone \ updated
      BY <3>1, <3>2, <3>4, <2>1, <2>2, <2>3, <2>5
    <3>5. CASE t \notin gone /\ t \notin updated
      BY <3>1, <3>2, <3>5, <2>1, <2>2, <2>3, <2>5
    <3>6. QED BY <3>3, <3>4, <3>5
  <2>8. QED BY <2>1, <2>2, <2>5, <2>6, <2>7, SameCardinality DEF Map!SequencesAgree
<1>3. QED BY <1>1, <1>2

LEMMA MergeKeeps ==
    ASSUME MapInv, Map!Merge, UNCHANGED <<pose, moves>>
    PROVE  /\ tiles' \subseteq Tiles /\ mapSequence' \in Nat
           /\ sequence' \in [Tiles -> Nat] /\ removed' \in [Tiles -> Nat]
           /\ Map!SequencesAgree'
<1>1. PICK filled \in SUBSET Tiles, emptied \in SUBSET Tiles :
        LET kept == Map!Kept(filled, emptied)
            gone == emptied \cup (kept \ Map!Retained(kept))
        IN /\ tiles' = Map!Retained(kept)
           /\ Map!Changes(Map!Updated(filled, gone), gone)
  BY Zenon DEF Map!Merge
<1> DEFINE kept == Map!Kept(filled, emptied)
           rest == Map!Retained(kept)
           gone == emptied \cup (kept \ rest)
           updated == Map!Updated(filled, gone)
<1>2. kept = (tiles \ emptied) \cup filled /\ updated = filled \ gone
  BY DEF Map!Kept, Map!Updated
<1>3. rest \subseteq kept
  BY RetainedInside
<1>4. tiles' = rest /\ Map!Changes(updated, gone)
  BY <1>1
<1>5. tiles \subseteq Tiles
  BY DEF MapInv, Map!MapTypeOK
<1> HIDE DEF kept, rest, updated
<1>6. /\ gone \in SUBSET Tiles /\ updated \in SUBSET Tiles /\ updated \cap gone = {}
      /\ tiles' \subseteq Tiles
      /\ updated \subseteq tiles' /\ tiles \ gone \subseteq tiles'
  BY <1>2, <1>3, <1>4, <1>5
<1> HIDE DEF gone
<1>7. QED BY <1>4, <1>6, ChangesKeep

LEMMA MapStepKeeps == MapInv /\ [Map!Next]_(Map!vars) => MapInv'
<1> SUFFICES ASSUME MapInv, Map!Next \/ UNCHANGED Map!vars PROVE MapInv'
  BY DEF Map!vars
<1> USE MapConstants
<1>1. ASSUME NEW cloud \in Map!Clouds, Map!Submit(cloud) PROVE MapInv'
  BY <1>1 DEF MapInv, Map!Submit, Map!MapTypeOK, Map!SequencesAgree, Map!map
<1>2. CASE Map!Take
  BY <1>2 DEF MapInv, Map!Take, Map!MapTypeOK, Map!SequencesAgree, Map!map, Map!Clouds
<1>3. CASE Map!ProcessKeyframe
  BY <1>3, MergeKeeps DEF MapInv, Map!ProcessKeyframe, Map!MapTypeOK
<1>4. CASE Map!MergeDense
  BY <1>4, MergeKeeps DEF MapInv, Map!MergeDense, Map!MapTypeOK
<1>9. CASE Map!JudgeLive \/ Map!Fail
  <2>1. /\ UNCHANGED <<pose, tiles, sequence, removed, mapSequence, slots, sinceDense, moves>>
        /\ working' \in Map!Clouds \cup {"none", "dense"} /\ judged' = 0
    BY <1>9 DEF Map!JudgeLive, Map!Fail, Map!map
  <2>2. QED BY <2>1 DEF MapInv, Map!MapTypeOK, Map!SequencesAgree
<1>5. CASE Map!Move
  BY <1>5 DEF MapInv, Map!Move, Map!MapTypeOK, Map!SequencesAgree, Map!map, Map!worker
<1>6. CASE Map!Tick
  BY <1>6 DEF MapInv, Map!Tick, Map!Later, Map!MapTypeOK, Map!SequencesAgree, Map!map
<1>7. CASE UNCHANGED Map!vars
  BY <1>7 DEF MapInv, Map!vars, Map!MapTypeOK, Map!SequencesAgree, Map!map, Map!worker
<1>8. QED BY <1>1, <1>2, <1>3, <1>4, <1>5, <1>6, <1>7, <1>9 DEF Map!Next, Map!Work

LEMMA MapInitially == Map!Init => MapInv
<1> SUFFICES ASSUME Map!Init PROVE MapInv
  OBVIOUS
<1>1. Map!MapTypeOK
  BY MapConstants DEF Map!Init, Map!MapTypeOK
<1>2. \A t \in Tiles : sequence[t] = 0 /\ removed[t] = 0 /\ mapSequence = 0
  BY DEF Map!Init
<1>3. {t \in Tiles : removed[t] > 0} = {}
  BY <1>2
<1>4. Map!Cardinality({t \in Tiles : removed[t] > 0}) <= HistoryLimit
  BY <1>3, SameCardinality, FS_EmptySet, MapConstants
<1>5. QED BY <1>1, <1>2, <1>4 DEF MapInv, Map!SequencesAgree

----------------------------------------------------------------------------
\* The stream and the map: every step of the one leaves the other alone.

LEMMA StreamLeavesMap ==
    Connect \/ Close \/ Stream => UNCHANGED Map!vars
<1> SUFFICES ASSUME Connect \/ Close \/ Stream PROVE UNCHANGED map
  BY DEF map, Map!vars, Map!map, Map!worker
<1>1. QED BY DEF Connect, Close, Stream, Sync, SendRemoval, SendPacket, SnapshotTile,
               FindRemoved, FindUpdated, Build, EndFlush, map

LEMMA MapSteps == [Next]_vars => [Map!Next]_(Map!vars)
<1>1. UNCHANGED vars => UNCHANGED Map!vars
  BY DEF vars, map, Map!vars, Map!map, Map!worker
<1>2. QED BY <1>1, StreamLeavesMap, Zenon DEF Next, MapStep

\* The streams only read the map: what is served is the map of TileMap, step by step.
THEOREM StreamImplementsMap == Spec => Map!Spec
<1>1. Init => Map!Init
  BY DEF Init
<1>2. QED BY <1>1, MapSteps, PTL DEF Spec, Map!Spec

\* The map's types and SequencesAgree hold while it is served.
THEOREM MapInvariance == Spec => []MapInv
<1>1. Init => MapInv
  BY MapInitially DEF Init
<1>2. MapInv /\ [Next]_vars => MapInv'
  BY MapSteps, MapStepKeeps
<1>3. QED BY <1>1, <1>2, PTL DEF Spec

\* Update and removal sequences never contradict one another or the map.
THEOREM SequencesAlwaysAgree == Spec => []SequencesAgree
BY MapInvariance, PTL DEF MapInv, SequencesAgree

----------------------------------------------------------------------------
\* The stream's own types; the map's are MapInv.

PacketsType == [tile : Tiles \cup {NoTile}, sequence : Nat, count : Nat]

StreamTypes ==
    /\ pc \in {"closed", "receive", "flush", "scan", "build"}
    /\ left \in Nat /\ building \in Tiles \cup {NoTile}
    /\ pc = "build" => building \in Tiles
    /\ text \subseteq Tiles /\ snapshot \subseteq Tiles
    /\ visible \subseteq Tiles /\ overtaken \subseteq Tiles
    /\ packets \in PacketsType
    /\ packets # NoPackets => packets.tile \in Tiles /\ packets.count > 0
    /\ known \in [Tiles -> Nat] /\ knownRemoved \in [Tiles -> Nat]
    /\ shown \in [Tiles -> Nat]

\* What makes the claims about the cursor inductive: updates are looked for with empty
\* queues, and queued packets are known or overtaken.
CursorInv ==
    /\ pc \in {"scan", "build"} => text = {} /\ packets = NoPackets
    /\ packets.tile \in Tiles => known[packets.tile] > 0 \/ packets.tile \in overtaken
    /\ CursorHonest
    /\ ShownIsAccounted

StreamInv == StreamTypes /\ CursorInv

LEMMA StreamConstants ==
    /\ SnapshotBurst \in Nat /\ DeltaBurst \in Nat /\ Chunks \in Nat \ {0}
    /\ NoTile \notin Tiles /\ RetentionLimit \in Nat
BY StreamAssumption DEF Map!MapAssumption

LEMMA NoPacketsType ==
    NoPackets \in PacketsType /\ NoPackets.tile = NoTile /\ NoPackets.tile \notin Tiles
BY StreamConstants DEF NoPackets, PacketsType

LEMMA StreamInitially == Init => StreamInv
<1> SUFFICES ASSUME Init PROVE StreamInv
  OBVIOUS
<1>1. StreamTypes
  BY NoPacketsType DEF Init, StreamTypes, Zero
<1>2. CursorInv
  BY NoPacketsType DEF Init, CursorInv, CursorHonest, ShownIsAccounted, Zero
<1>3. QED BY <1>1, <1>2 DEF StreamInv

\* What is left of a tile's packets after one of them.
LEMMA RestOfPackets ==
    ASSUME packets \in PacketsType, packets # NoPackets,
           packets.tile \in Tiles, packets.count > 0
    PROVE  /\ Rest \in PacketsType
           /\ Rest = NoPackets \/ (Rest.tile = packets.tile /\ Rest.count > 0
                                   /\ Rest.sequence = packets.sequence)
<1>1. CASE packets.count = 1
  BY <1>1, NoPacketsType DEF Rest
<1>2. CASE packets.count # 1
  BY <1>2 DEF Rest, PacketsType
<1>3. QED BY <1>1, <1>2

LEMMA VisibleTiles ==
    ASSUME MapInv, StreamTypes
    PROVE  Map!Visible \subseteq Tiles /\ NextVisible \subseteq Tiles
<1>1. Map!Visible \subseteq Tiles
  BY VisibleInside DEF MapInv, Map!MapTypeOK
<1>2. \A S, n : Map!Nearest(S, n) \subseteq S
  BY Zenon DEF Map!Nearest
<1>3. Map!Within(visible \cap tiles, RetentionRadius) \subseteq visible
  BY DEF Map!Within
<1>4. NextVisible \subseteq Map!Visible \cup visible
  BY <1>2, <1>3 DEF NextVisible
<1>5. QED BY <1>1, <1>4 DEF StreamTypes

LEMMA StreamStepKeeps ==
    ASSUME MapInv, StreamInv, [Next]_vars PROVE StreamInv'
<1> USE DEF StreamInv, StreamTypes, CursorInv
<1>0. mapSequence \in Nat /\ sequence \in [Tiles -> Nat] /\ removed \in [Tiles -> Nat]
  BY DEF MapInv, Map!MapTypeOK
<1>1. CASE Connect
  <2>1. StreamTypes'
    BY <1>1, NoPacketsType, VisibleTiles DEF Connect, Zero
  <2>2. CursorInv'
    BY <1>1, NoPacketsType DEF Connect, Zero, CursorHonest, ShownIsAccounted
  <2>3. QED BY <2>1, <2>2
<1>2. CASE Close
  BY <1>2 DEF Close, cursor, viewer, CursorHonest, ShownIsAccounted
<1>3. CASE Sync
  <2> DEFINE leaving == visible \ NextVisible
  <2>1. leaving \subseteq Tiles /\ NextVisible \subseteq Tiles /\ Map!Visible \subseteq Tiles
    BY VisibleTiles
  <2>2. /\ pc' = "flush" /\ visible' = NextVisible
        /\ snapshot' = (snapshot \cap NextVisible) \cup (Map!Visible \ visible)
        /\ text' = text \cup leaving
        /\ known' = [t \in Tiles |-> IF t \in leaving THEN 0 ELSE known[t]]
        /\ knownRemoved' = [t \in Tiles |->
                IF t \in leaving THEN mapSequence ELSE knownRemoved[t]]
        /\ overtaken' = overtaken \cup (leaving \cap {packets.tile})
        /\ left' \in {DeltaBurst, SnapshotBurst}
        /\ UNCHANGED <<packets, building, shown>>
    BY <1>3, Zenon DEF Sync, KnownAfter
  <2> HIDE DEF leaving
  <2>3. StreamTypes'
    BY <1>0, <2>1, <2>2, StreamConstants
  <2>4. CursorHonest'
    BY <1>0, <2>1, <2>2 DEF CursorHonest
  <2>5. ShownIsAccounted'
    BY <2>1, <2>2 DEF ShownIsAccounted
  <2>6. CursorInv'
    BY <2>1, <2>2, <2>4, <2>5
  <2>7. QED BY <2>3, <2>6
<1>4. CASE SendRemoval
  <2>1. PICK t \in text :
          /\ text' = text \ {t}
          /\ shown' = [shown EXCEPT ![t] = 0]
          /\ overtaken' = IF t = packets.tile THEN overtaken ELSE overtaken \ {t}
    BY <1>4 DEF SendRemoval
  <2>2. /\ left' = left - 1 /\ left > 0 /\ pc = "flush"
        /\ UNCHANGED <<pc, building, packets, snapshot, known, knownRemoved, visible>>
    BY <1>4 DEF SendRemoval
  <2>3. StreamTypes'
    BY <2>1, <2>2
  <2>4. CursorHonest'
    BY <2>1, <2>2 DEF CursorHonest
  <2>5. ShownIsAccounted'
    BY <2>1, <2>2 DEF ShownIsAccounted
  <2>6. CursorInv'
    BY <2>1, <2>2, <2>4, <2>5
  <2>7. QED BY <2>3, <2>6
<1>5. CASE SendPacket
  <2>1. /\ pc = "flush" /\ left > 0 /\ text = {} /\ packets # NoPackets
        /\ packets' = Rest /\ left' = left - 1
        /\ shown' = [shown EXCEPT ![packets.tile] = packets.sequence]
        /\ UNCHANGED <<pc, building, text, snapshot, known, knownRemoved, visible, overtaken>>
    BY <1>5 DEF SendPacket
  <2>2. /\ packets.tile \in Tiles /\ packets.sequence \in Nat
        /\ Rest \in PacketsType
        /\ Rest = NoPackets \/ (Rest.tile = packets.tile /\ Rest.count > 0
                                /\ Rest.sequence = packets.sequence)
    BY <2>1, RestOfPackets DEF PacketsType
  <2>3. StreamTypes'
    BY <2>1, <2>2
  <2>4. CursorHonest'
    BY <2>1, <2>2, NoPacketsType DEF CursorHonest
  <2>5. ShownIsAccounted'
    BY <2>1, <2>2, NoPacketsType DEF ShownIsAccounted
  <2>6. CursorInv'
    BY <2>1, <2>2, <2>4, <2>5, NoPacketsType
  <2>7. QED BY <2>3, <2>6
<1>6. CASE SnapshotTile
  BY <1>6 DEF SnapshotTile, viewer, CursorHonest, ShownIsAccounted
<1>7. CASE FindRemoved
  <2>1. /\ pc = "flush" /\ text = {} /\ packets = NoPackets
        /\ UNCHANGED <<left, building, packets, snapshot, known, visible, shown, overtaken>>
    BY <1>7 DEF FindRemoved, viewer
  <2>2. CASE NewRemovals = {}
    BY <1>7, <2>1, <2>2 DEF FindRemoved, CursorHonest, ShownIsAccounted
  <2>3. CASE NewRemovals # {}
    <3>1. PICK t \in NewRemovals :
            /\ text' = {t} /\ pc' = pc
            /\ knownRemoved' = [knownRemoved EXCEPT ![t] = removed[t]]
      BY <1>7, <2>3 DEF FindRemoved
    <3>2. t \in Tiles /\ removed[t] > known[t] /\ removed[t] > knownRemoved[t]
      BY DEF NewRemovals
    <3>3. StreamTypes'
      BY <1>0, <2>1, <3>1, <3>2
    <3>4. CursorHonest' /\ ShownIsAccounted'
      BY <1>0, <2>1, <3>1, <3>2 DEF CursorHonest, ShownIsAccounted
    <3>5. QED BY <2>1, <3>1, <3>3, <3>4
  <2>4. QED BY <2>2, <2>3
<1>8. CASE FindUpdated
  <2>1. NewUpdates \subseteq Tiles
    BY DEF NewUpdates
  <2>2. QED BY <1>8, <2>1 DEF FindUpdated, cursor, viewer, CursorHonest, ShownIsAccounted
<1>9. CASE Build
  <2>1. /\ pc = "build" /\ pc' = "flush" /\ building \in Tiles /\ building' = NoTile
        /\ text = {} /\ packets = NoPackets
        /\ known' = KnownBuilt(building)
        /\ UNCHANGED <<left, text, snapshot, knownRemoved, visible, shown>>
    BY <1>9 DEF Build
  <2>2. CASE ~Buildable(building)
    BY <1>9, <2>1, <2>2 DEF Build, KnownBuilt, CursorHonest, ShownIsAccounted
  <2>3. CASE Buildable(building)
    <3>1. /\ known' = [known EXCEPT ![building] = sequence[building]]
          /\ packets' = [tile |-> building, sequence |-> sequence[building], count |-> Chunks]
          /\ overtaken' = overtaken \ {building}
      BY <1>9, <2>1, <2>3 DEF Build, KnownBuilt
    <3>2. sequence[building] > 0 /\ sequence[building] \in Nat
      BY <1>0, <2>1, <2>3 DEF Buildable
    <3>3. /\ packets' \in PacketsType /\ packets'.tile = building
          /\ packets'.sequence = sequence[building] /\ packets'.count = Chunks
      BY <2>1, <3>1, <3>2, StreamConstants DEF PacketsType
    <3>4. StreamTypes'
      BY <2>1, <3>1, <3>2, <3>3, StreamConstants
    <3>5. CursorHonest'
      BY <2>1, <3>1, <3>2, <3>3, NoPacketsType DEF CursorHonest
    <3>6. ShownIsAccounted'
      BY <2>1, <3>1, <3>2, <3>3, NoPacketsType DEF ShownIsAccounted
    <3>7. CursorInv'
      BY <2>1, <3>1, <3>2, <3>3, <3>5, <3>6
    <3>8. QED BY <3>4, <3>7
  <2>4. QED BY <2>2, <2>3
<1>10. CASE EndFlush
  BY <1>10 DEF EndFlush, cursor, viewer, CursorHonest, ShownIsAccounted
<1>11. CASE UNCHANGED stream
  BY <1>11 DEF stream, cursor, viewer, CursorHonest, ShownIsAccounted
<1>12. QED BY <1>1, <1>2, <1>3, <1>4, <1>5, <1>6, <1>7, <1>8, <1>9, <1>10, <1>11
           DEF Next, Stream, MapStep, vars

LEMMA StreamInvariance == Spec => []StreamInv
<1>1. Init => StreamInv
  BY StreamInitially
<1>2. MapInv /\ StreamInv /\ [Next]_vars => StreamInv'
  BY StreamStepKeeps
<1>3. QED BY <1>1, <1>2, MapInvariance, PTL DEF Spec

\* Every state of the map, the stream and the viewer is well typed.
THEOREM TypeCorrect == Spec => []TypeOK
<1>1. MapInv /\ StreamInv => TypeOK
  BY DEF MapInv, StreamInv, StreamTypes, PacketsType, TypeOK
<1>2. QED BY <1>1, MapInvariance, StreamInvariance, PTL

\* The cursor never believes more than the viewer gets.
THEOREM CursorIsHonest == Spec => []CursorHonest
<1>1. StreamInv => CursorHonest
  BY DEF StreamInv, CursorInv
<1>2. QED BY <1>1, StreamInvariance, PTL

\* What the viewer shows is known to the cursor, on its way out, or overtaken.
THEOREM ShownAccounted == Spec => []ShownIsAccounted
<1>1. StreamInv => ShownIsAccounted
  BY DEF StreamInv, CursorInv
<1>2. QED BY <1>1, StreamInvariance, PTL

----------------------------------------------------------------------------
\* The viewer and the order of the map's sequences

\* A merge gives the tiles it updates a sequence above all others, and others none or their own.
LEMMA SequencesGrow ==
    ASSUME MapInv, [Map!Next]_(Map!vars)
    PROVE  /\ mapSequence' \in Nat /\ mapSequence <= mapSequence'
           /\ \A t \in Tiles : sequence'[t] \in {0, sequence[t], mapSequence'}
<1> USE DEF MapInv, Map!MapTypeOK
<1>1. ASSUME NEW updated, NEW gone, Map!Changes(updated, gone)
      PROVE  /\ mapSequence' \in Nat /\ mapSequence <= mapSequence'
             /\ \A t \in Tiles : sequence'[t] \in {0, sequence[t], mapSequence'}
  BY <1>1 DEF Map!Changes
<1>2. CASE Map!Merge
  <2>1. PICK updated, gone : Map!Changes(updated, gone)
    BY <1>2, Zenon DEF Map!Merge
  <2>2. QED BY <1>1, <2>1
<1>3. CASE UNCHANGED <<sequence, mapSequence>>
  BY <1>3
<1>4. Map!Merge \/ UNCHANGED <<sequence, mapSequence>>
  <2>1. CASE Map!ProcessKeyframe
    BY <2>1 DEF Map!ProcessKeyframe
  <2>2. CASE Map!MergeDense
    BY <2>2 DEF Map!MergeDense
  <2>3. CASE \/ Map!Take \/ Map!JudgeLive \/ Map!Fail \/ Map!Move \/ Map!Tick
             \/ \E cloud \in Map!Clouds : Map!Submit(cloud)
    BY <2>3 DEF Map!Take, Map!JudgeLive, Map!Fail, Map!Move, Map!Tick, Map!Submit, Map!map
  <2>4. CASE UNCHANGED Map!vars
    BY <2>4 DEF Map!vars, Map!map
  <2>5. QED BY <2>1, <2>2, <2>3, <2>4 DEF Map!Next, Map!Work
<1>5. QED BY <1>2, <1>3, <1>4

\* What is shown is not ahead of the map, and neither the packets in the queue nor the tile
\* itself are behind what is shown.
ViewerInv ==
    \A t \in Tiles :
        /\ shown[t] <= mapSequence
        /\ sequence[t] > 0 => shown[t] <= sequence[t]
        /\ packets.tile = t =>
              /\ shown[t] <= packets.sequence /\ packets.sequence <= mapSequence
              /\ sequence[t] > 0 => packets.sequence <= sequence[t]

\* The map goes on without the viewer.
LEMMA ViewerMapStep ==
    ASSUME MapInv, MapInv', StreamInv, ViewerInv, [Map!Next]_(Map!vars), UNCHANGED <<shown, packets>>
    PROVE  ViewerInv'
<1>1. /\ mapSequence \in Nat /\ mapSequence' \in Nat /\ mapSequence <= mapSequence'
      /\ \A t \in Tiles : sequence'[t] \in {0, sequence[t], mapSequence'}
  BY SequencesGrow DEF MapInv, Map!MapTypeOK
<1>2. /\ \A t \in Tiles : shown[t] \in Nat /\ sequence[t] \in Nat
      /\ packets.sequence \in Nat
  BY DEF StreamInv, StreamTypes, PacketsType, MapInv, Map!MapTypeOK
<1>3. QED BY <1>1, <1>2 DEF ViewerInv

LEMMA ViewerStreamStep ==
    ASSUME MapInv, StreamInv, ViewerInv, Connect \/ Close \/ Stream
    PROVE  /\ ViewerInv'
           /\ \A t \in Tiles : shown'[t] = 0 \/ shown'[t] \in shown[t]..mapSequence'
<1> USE DEF ViewerInv
<1>1. /\ UNCHANGED <<sequence, mapSequence>> /\ mapSequence \in Nat
      /\ \A t \in Tiles : shown[t] \in Nat /\ sequence[t] \in Nat /\ sequence[t] <= mapSequence
      /\ packets.sequence \in Nat
  <2>1. UNCHANGED <<sequence, mapSequence>>
    BY StreamLeavesMap DEF Map!vars, Map!map
  <2>2. QED BY <2>1 DEF StreamInv, StreamTypes, PacketsType, MapInv, Map!MapTypeOK, Map!SequencesAgree
<1>2. CASE Connect
  <2>1. shown' = Zero /\ packets' = NoPackets
    BY <1>2 DEF Connect
  <2>2. QED BY <1>1, <2>1, NoPacketsType DEF Zero
<1>3. CASE SendRemoval
  <2>1. PICK t \in text : shown' = [shown EXCEPT ![t] = 0]
    BY <1>3 DEF SendRemoval
  <2>2. UNCHANGED packets /\ shown \in [Tiles -> Nat]
    BY <1>3 DEF SendRemoval, StreamInv, StreamTypes
  <2>3. QED BY <1>1, <2>1, <2>2
<1>4. CASE SendPacket
  <2>1. /\ packets # NoPackets /\ packets' = Rest
        /\ shown' = [shown EXCEPT ![packets.tile] = packets.sequence]
    BY <1>4 DEF SendPacket
  <2>2. /\ packets.tile \in Tiles /\ packets.count > 0 /\ packets \in PacketsType
        /\ shown \in [Tiles -> Nat]
    BY <2>1 DEF StreamInv, StreamTypes
  <2>3. Rest = NoPackets \/ (Rest.tile = packets.tile /\ Rest.sequence = packets.sequence)
    BY <2>1, <2>2, RestOfPackets
  <2>4. QED BY <1>1, <2>1, <2>2, <2>3, NoPacketsType
<1>5. CASE Build
  <2>1. building \in Tiles /\ UNCHANGED shown /\ packets = NoPackets
    BY <1>5 DEF Build, StreamInv, StreamTypes, CursorInv
  <2>2. CASE Buildable(building)
    <3>1. /\ sequence[building] > 0
          /\ packets' = [tile |-> building, sequence |-> sequence[building], count |-> Chunks]
      BY <1>5, <2>2 DEF Build, Buildable
    <3>2. packets'.tile = building /\ packets'.sequence = sequence[building]
      BY <3>1
    <3>3. QED BY <1>1, <2>1, <3>1, <3>2
  <2>3. CASE ~Buildable(building)
    BY <1>1, <1>5, <2>1, <2>3 DEF Build
  <2>4. QED BY <2>2, <2>3
<1>6. CASE UNCHANGED <<shown, packets>>
  BY <1>1, <1>6
<1>7. Connect \/ SendRemoval \/ SendPacket \/ Build \/ UNCHANGED <<shown, packets>>
  BY DEF Stream, Close, Sync, SnapshotTile, FindRemoved, FindUpdated, EndFlush, cursor, viewer
<1>8. QED BY <1>2, <1>3, <1>4, <1>5, <1>6, <1>7

LEMMA ViewerInvariance == Spec => []ViewerInv
<1>1. Init => ViewerInv
  <2> SUFFICES ASSUME Init PROVE ViewerInv
    OBVIOUS
  <2>1. /\ \A t \in Tiles : shown[t] = 0 /\ sequence[t] = 0
        /\ mapSequence = 0 /\ packets = NoPackets
    BY DEF Init, Zero, Map!Init
  <2>2. QED BY <2>1, NoPacketsType DEF ViewerInv
<1>2. MapInv /\ MapInv' /\ StreamInv /\ ViewerInv /\ [Next]_vars => ViewerInv'
  <2> SUFFICES ASSUME MapInv, MapInv', StreamInv, ViewerInv, [Next]_vars PROVE ViewerInv'
    OBVIOUS
  <2>1. CASE Connect \/ Close \/ Stream
    BY <2>1, ViewerStreamStep
  <2>2. CASE MapStep \/ UNCHANGED vars
    <3>1. UNCHANGED <<shown, packets>>
      BY <2>2 DEF MapStep, vars, stream, cursor, viewer
    <3>2. QED BY <3>1, MapSteps, ViewerMapStep
  <2>3. QED BY <2>1, <2>2 DEF Next
<1>3. QED BY <1>1, <1>2, MapInvariance, StreamInvariance, PTL DEF Spec

\* No viewer is sent an older picture of a tile after a newer one, unless the tile was removed.
THEOREM ViewersNeverGoBack == Spec => ViewerNeverGoesBack
<1> DEFINE Grows == \A t \in Tiles : shown'[t] = 0 \/ shown'[t] \in shown[t]..mapSequence'
<1>1. ASSUME MapInv, StreamInv, ViewerInv, [Next]_vars PROVE Grows
  <2>1. CASE Connect \/ Close \/ Stream
    BY <1>1, <2>1, ViewerStreamStep
  <2>2. CASE MapStep \/ UNCHANGED vars
    <3>1. UNCHANGED shown
      BY <2>2 DEF MapStep, vars, stream, viewer
    <3>2. /\ mapSequence \in Nat /\ mapSequence' \in Nat /\ mapSequence <= mapSequence'
      BY <1>1, SequencesGrow, MapSteps DEF MapInv, Map!MapTypeOK
    <3>3. \A t \in Tiles : shown[t] \in Nat /\ shown[t] <= mapSequence
      BY <1>1 DEF StreamInv, StreamTypes, ViewerInv
    <3>4. QED BY <3>1, <3>2, <3>3
  <2>3. QED BY <1>1, <2>1, <2>2 DEF Next
<1>2. MapInv /\ StreamInv /\ ViewerInv /\ [Next]_vars => [Grows]_vars
  BY <1>1
<1>3. QED BY <1>2, MapInvariance, StreamInvariance, ViewerInvariance, PTL
         DEF Spec, ViewerNeverGoesBack

----------------------------------------------------------------------------
\* The turns of a flush

\* Which stage a turn is in, from the place of the coroutine and its queues.
LEMMA Stages ==
    /\ pc = "scan" => Stage = 2
    /\ pc = "build" => Stage = 1
    /\ pc = "flush" /\ text = {} /\ packets = NoPackets => Stage = 3
    /\ pc = "flush" /\ ~(text = {} /\ packets = NoPackets) => Stage = 0
BY DEF Stage

LEMMA StagesNext ==
    /\ pc' = "scan" => Stage' = 2
    /\ pc' = "build" => Stage' = 1
    /\ pc' = "flush" /\ text' = {} /\ packets' = NoPackets => Stage' = 3
    /\ pc' = "flush" /\ ~(text' = {} /\ packets' = NoPackets) => Stage' = 0
BY DEF Stage

LEMMA FlushSteps ==
    ASSUME StreamInv, Stream, Flushing, Flushing', pc = "build" => Buildable(building)
    PROVE  Advances
<1> USE Stages, StagesNext DEF StreamInv, StreamTypes, CursorInv, Advances, Flushing
<1>1. CASE SendRemoval
  BY <1>1 DEF SendRemoval
<1>2. CASE SendPacket
  BY <1>2 DEF SendPacket
<1>3. CASE SnapshotTile
  BY <1>3 DEF SnapshotTile
<1>4. CASE FindRemoved
  <2>1. /\ pc = "flush" /\ text = {} /\ packets = NoPackets
        /\ UNCHANGED <<left, packets, snapshot>>
        /\ (pc' = "scan") \/ (pc' = pc /\ text' # {})
    BY <1>4 DEF FindRemoved
  <2>2. QED BY <2>1
<1>5. CASE FindUpdated
  <2>1. pc = "scan" /\ pc' = "build" /\ UNCHANGED <<left, snapshot>>
    BY <1>5 DEF FindUpdated, cursor
  <2>2. QED BY <2>1
<1>6. CASE Build
  <2>1. /\ pc = "build" /\ pc' = "flush" /\ UNCHANGED <<left, snapshot>>
        /\ building \in Tiles
        /\ packets' = [tile |-> building, sequence |-> sequence[building], count |-> Chunks]
    BY <1>6 DEF Build
  <2>2. packets' # NoPackets
    BY <2>1, NoPacketsType
  <2>3. QED BY <2>1, <2>2
<1>7. CASE Sync \/ EndFlush
  BY <1>7 DEF Sync, EndFlush
<1>8. QED BY <1>1, <1>2, <1>3, <1>4, <1>5, <1>6, <1>7 DEF Stream

\* Each turn of a flush brings it nearer to the client's next message, whatever the map does
\* meanwhile, unless it builds a tile the visible set leaves out.
THEOREM FlushesAdvance == Spec => FlushAdvances
<1> DEFINE Onward == Flushing /\ Flushing' /\ (pc = "build" => Buildable(building)) => Advances
<1>1. ASSUME StreamInv, [Next]_vars PROVE [Onward]_stream
  <2>1. CASE Stream
    BY <1>1, <2>1, FlushSteps
  <2>2. CASE Connect \/ Close
    BY <2>2 DEF Connect, Close, Flushing
  <2>3. CASE MapStep \/ UNCHANGED vars
    BY <2>3 DEF MapStep, vars
  <2>4. QED BY <1>1, <2>1, <2>2, <2>3 DEF Next
<1>2. StreamInv /\ [Next]_vars => [Onward]_stream
  BY <1>1
<1>3. QED BY <1>2, StreamInvariance, PTL DEF Spec, FlushAdvances

----------------------------------------------------------------------------
\* Limits.  An order by distance and index is total, so as many tiles as asked for, at most,
\* have fewer nearer ones than that.

\* The map's finiteness is this module's.
LEMMA SameFinite == \A S : Map!IsFiniteSet(S) <=> IsFiniteSet(S)
BY Zenon DEF Map!IsFiniteSet, IsFiniteSet

LEMMA BeforeOrders ==
    ASSUME pose \in Int, NEW t \in Int, NEW u \in Int, NEW v \in Int
    PROVE  /\ ~Map!Before(t, t)
           /\ t # u => Map!Before(t, u) \/ Map!Before(u, t)
           /\ Map!Before(t, u) /\ Map!Before(u, v) => Map!Before(t, v)
<1>1. Map!Distance(t) \in Int /\ Map!Distance(u) \in Int /\ Map!Distance(v) \in Int
  BY DEF Map!Distance
<1>2. QED BY <1>1 DEF Map!Before

\* Of two tiles of a finite set the nearer has fewer before it.
LEMMA RankStrict ==
    ASSUME pose \in Int, NEW S \in SUBSET Int, IsFiniteSet(S), NEW t \in S, NEW u \in S,
           Map!Before(t, u)
    PROVE  Cardinality({v \in S : Map!Before(v, t)}) < Cardinality({v \in S : Map!Before(v, u)})
<1> DEFINE A == {v \in S : Map!Before(v, t)}
           B == {v \in S : Map!Before(v, u)}
<1>1. A \subseteq B /\ t \in B /\ t \notin A
  BY BeforeOrders, Zenon
<1>2. IsFiniteSet(A) /\ IsFiniteSet(B)
  BY FS_Subset
<1>3. Cardinality(A) \in Nat /\ Cardinality(B) \in Nat
  BY <1>2, FS_CardinalityType
<1> HIDE DEF A, B
<1>4. Cardinality(A) <= Cardinality(B) /\ Cardinality(A) # Cardinality(B)
  BY <1>1, <1>2, FS_Subset
<1>5. Cardinality(A) < Cardinality(B)
  BY <1>3, <1>4
<1>6. QED BY <1>5 DEF A, B

\* The n nearest tiles of a finite set are n at most.
LEMMA NearestAtMost ==
    ASSUME pose \in Int, NEW S \in SUBSET Int, IsFiniteSet(S), NEW n \in Nat
    PROVE  /\ Map!Nearest(S, n) \subseteq S /\ IsFiniteSet(Map!Nearest(S, n))
           /\ Cardinality(Map!Nearest(S, n)) <= n
<1> DEFINE N == Map!Nearest(S, n)
           f == [t \in N |-> Cardinality({u \in S : Map!Before(u, t)})]
<1>1. N = {t \in S : Cardinality({u \in S : Map!Before(u, t)}) < n}
  BY SameCardinality, Zenon DEF Map!Nearest
<1>2. N \subseteq S /\ IsFiniteSet(N)
  BY <1>1, FS_Subset
<1>3. ASSUME NEW t \in N PROVE f[t] \in 0..(n - 1)
  <2>1. Cardinality({u \in S : Map!Before(u, t)}) \in Nat
    BY FS_Subset, FS_CardinalityType
  <2>2. Cardinality({u \in S : Map!Before(u, t)}) < n
    BY <1>1
  <2>3. QED BY <2>1, <2>2
<1>4. ASSUME NEW t \in N, NEW u \in N, t # u PROVE f[t] # f[u]
  <2>1. t \in S /\ u \in S /\ t \in Int /\ u \in Int
    BY <1>2
  <2>2. /\ f[t] = Cardinality({v \in S : Map!Before(v, t)})
        /\ f[u] = Cardinality({v \in S : Map!Before(v, u)})
    OBVIOUS
  <2>3. f[t] \in Int /\ f[u] \in Int
    BY <1>3
  <2> HIDE DEF f, N
  <2>4. CASE Map!Before(t, u)
    <3>1. f[t] < f[u]
      BY <2>1, <2>2, <2>4, RankStrict
    <3>2. QED BY <2>3, <3>1
  <2>5. CASE Map!Before(u, t)
    <3>1. f[u] < f[t]
      BY <2>1, <2>2, <2>5, RankStrict
    <3>2. QED BY <2>3, <3>1
  <2>6. QED BY <1>4, <2>1, <2>4, <2>5, BeforeOrders
<1>5. f \in [N -> 0..(n - 1)]
  BY <1>3
<1> HIDE DEF f, N
<1>6. f \in Injection(N, 0..(n - 1))
  BY <1>4, <1>5 DEF Injection, IsInjective
<1>7. IsFiniteSet(0..(n - 1)) /\ Cardinality(0..(n - 1)) = n
  <2>1. 0 \in Int /\ n - 1 \in Int
    OBVIOUS
  <2>2. /\ IsFiniteSet(0..(n - 1))
        /\ Cardinality(0..(n - 1)) = IF 0 > n - 1 THEN 0 ELSE (n - 1) - 0 + 1
    BY <2>1, FS_Interval
  <2>3. QED BY <2>2
<1>8. Cardinality(N) <= n
  BY <1>6, <1>7, FS_Injection
<1>9. QED BY <1>2, <1>8 DEF N

LEMMA LimitConstants ==
    /\ IsFiniteSet(Tiles) /\ Tiles \in SUBSET Int
    /\ VisibleLimit \in Nat /\ RetentionLimit \in Nat /\ VisibleLimit <= RetentionLimit
BY StreamAssumption, SameFinite DEF Map!MapAssumption

LEMMA TilesFinite == \A S \in SUBSET Tiles : IsFiniteSet(S) /\ S \in SUBSET Int
BY LimitConstants, FS_Subset

\* What a merge leaves is within the retention limit.
LEMMA RetainedAtMost ==
    ASSUME pose \in Int, NEW S \in SUBSET Tiles
    PROVE  Cardinality(Map!Retained(S)) <= RetentionLimit
<1>1. Map!Within(S, RetentionRadius) \in SUBSET Tiles
  BY DEF Map!Within
<1>2. QED BY <1>1, TilesFinite, LimitConstants, NearestAtMost DEF Map!Retained

\* What a viewer wants, and what it keeps besides, is so too.
LEMMA NextVisibleAtMost ==
    ASSUME MapInv, StreamTypes
    PROVE  /\ Map!Visible \subseteq NextVisible
           /\ Cardinality(NextVisible) <= RetentionLimit
<1> DEFINE near == Map!Within(tiles, VisibleRadius)
           pool == IF near = {} THEN tiles ELSE near
           want == Map!Visible
           stay == Map!Within(visible \cap tiles, RetentionRadius) \ want
           rest == Map!Nearest(stay, RetentionLimit - Cardinality(want))
<1>0. pose \in Int /\ tiles \subseteq Tiles
  BY DEF MapInv, Map!MapTypeOK
<1>1. pool \in SUBSET Tiles /\ stay \in SUBSET Tiles
  BY <1>0 DEF Map!Within
<1>2. want = Map!Nearest(pool, VisibleLimit) /\ NextVisible = want \cup rest
  BY DEF Map!Visible, NextVisible
<1> HIDE DEF near, pool, want, stay, rest
<1>3. IsFiniteSet(want) /\ Cardinality(want) <= VisibleLimit /\ Cardinality(want) \in Nat
  <2>1. IsFiniteSet(want) /\ Cardinality(want) <= VisibleLimit
    BY <1>0, <1>1, <1>2, TilesFinite, LimitConstants, NearestAtMost
  <2>2. QED BY <2>1, FS_CardinalityType
<1>4. RetentionLimit - Cardinality(want) \in Nat
  BY <1>3, LimitConstants
<1>5. IsFiniteSet(rest) /\ Cardinality(rest) <= RetentionLimit - Cardinality(want)
      /\ Cardinality(rest) \in Nat
  <2>1. IsFiniteSet(rest) /\ Cardinality(rest) <= RetentionLimit - Cardinality(want)
    BY <1>0, <1>1, <1>4, TilesFinite, NearestAtMost DEF rest
  <2>2. QED BY <2>1, FS_CardinalityType
<1>6. /\ Cardinality(want \cup rest) = Cardinality(want) + Cardinality(rest)
                                        - Cardinality(want \cap rest)
      /\ Cardinality(want \cap rest) \in Nat
  <2>1. IsFiniteSet(want \cap rest)
    BY <1>3, FS_Subset
  <2>2. QED BY <2>1, <1>3, <1>5, FS_Union, FS_CardinalityType
<1>7. Cardinality(want \cup rest) <= RetentionLimit
  BY <1>3, <1>5, <1>6, LimitConstants
<1>8. QED BY <1>2, <1>7 DEF want

\* What is built or noted is visible to the viewer.
LimitInv ==
    /\ Cardinality(tiles) <= RetentionLimit
    /\ Cardinality(visible) <= RetentionLimit
    /\ pc \in {"flush", "scan", "build"} => snapshot \subseteq visible
    /\ pc = "build" => building \in visible
    /\ \A t \in Tiles : known[t] > 0 => t \in visible

LEMMA TilesAtMost ==
    ASSUME MapInv, [Map!Next]_(Map!vars), Cardinality(tiles) <= RetentionLimit
    PROVE  Cardinality(tiles') <= RetentionLimit
<1>1. CASE Map!Merge
  <2>1. PICK filled \in SUBSET Tiles, emptied \in SUBSET Tiles :
          tiles' = Map!Retained(Map!Kept(filled, emptied))
    BY <1>1, Zenon DEF Map!Merge
  <2>2. Map!Kept(filled, emptied) \in SUBSET Tiles /\ pose \in Int
    BY DEF Map!Kept, MapInv, Map!MapTypeOK
  <2>3. QED BY <2>1, <2>2, RetainedAtMost
<1>2. Map!Merge \/ UNCHANGED tiles
  <2>1. CASE Map!ProcessKeyframe
    BY <2>1 DEF Map!ProcessKeyframe
  <2>2. CASE Map!MergeDense
    BY <2>2 DEF Map!MergeDense
  <2>3. CASE \/ Map!Take \/ Map!JudgeLive \/ Map!Fail \/ Map!Move \/ Map!Tick
             \/ \E cloud \in Map!Clouds : Map!Submit(cloud)
    BY <2>3 DEF Map!Take, Map!JudgeLive, Map!Fail, Map!Move, Map!Tick, Map!Submit, Map!map
  <2>4. CASE UNCHANGED Map!vars
    BY <2>4 DEF Map!vars, Map!map
  <2>5. QED BY <2>1, <2>2, <2>3, <2>4 DEF Map!Next, Map!Work
<1>3. QED BY <1>1, <1>2

LEMMA LimitStep ==
    ASSUME MapInv, StreamInv, LimitInv, [Next]_vars
    PROVE  LimitInv'
<1>1. Cardinality(tiles') <= RetentionLimit
  BY MapSteps, TilesAtMost DEF LimitInv
<1> DEFINE Cursor ==
             /\ Cardinality(visible) <= RetentionLimit
             /\ pc \in {"flush", "scan", "build"} => snapshot \subseteq visible
             /\ pc = "build" => building \in visible
             /\ \A t \in Tiles : known[t] > 0 => t \in visible
<1>2. Cursor'
  <2> USE DEF LimitInv, StreamInv, StreamTypes
  <2>1. CASE Connect
    <3>1. Cardinality({}) <= RetentionLimit
      BY FS_EmptySet, LimitConstants
    <3>2. QED BY <2>1, <3>1 DEF Connect, Zero
  <2>2. CASE Sync
    <3>1. /\ pc' = "flush" /\ visible' = NextVisible
          /\ snapshot' = (snapshot \cap NextVisible) \cup (Map!Visible \ visible)
          /\ known' = [t \in Tiles |-> IF t \in visible \ NextVisible THEN 0 ELSE known[t]]
      BY <2>2, Zenon DEF Sync, KnownAfter
    <3>2. QED BY <3>1, NextVisibleAtMost
  <2>3. CASE SnapshotTile
    BY <2>3 DEF SnapshotTile
  <2>4. CASE FindUpdated
    BY <2>4 DEF FindUpdated, NewUpdates, cursor
  <2>5. CASE Build
    <3>1. /\ known' \in {known, [known EXCEPT ![building] = sequence[building]]}
          /\ building \in visible /\ pc' = "flush" /\ pc = "build"
          /\ UNCHANGED <<visible, snapshot>>
      BY <2>5 DEF Build, KnownBuilt
    <3>2. QED BY <3>1
  <2>6. CASE SendRemoval \/ SendPacket \/ FindRemoved \/ EndFlush \/ Close
    BY <2>6 DEF SendRemoval, SendPacket, FindRemoved, EndFlush, Close, cursor
  <2>7. CASE MapStep \/ UNCHANGED vars
    BY <2>7 DEF MapStep, vars, stream, cursor
  <2>8. QED BY <2>1, <2>2, <2>3, <2>4, <2>5, <2>6, <2>7 DEF Next, Stream
<1>3. QED BY <1>1, <1>2 DEF LimitInv

\* However long the vehicle flies and whatever it sees, the map, and what a viewer's cursor
\* wants and notes, stay within the retention limit.
THEOREM LimitsHold == Spec => []WithinLimits
<1>1. Init => LimitInv
  <2> SUFFICES ASSUME Init PROVE LimitInv
    OBVIOUS
  <2>1. tiles = {} /\ visible = {} /\ pc = "closed" /\ \A t \in Tiles : known[t] = 0
    BY DEF Init, Zero, Map!Init
  <2>2. Cardinality({}) <= RetentionLimit
    BY FS_EmptySet, LimitConstants
  <2>3. QED BY <2>1, <2>2 DEF LimitInv
<1>2. MapInv /\ StreamInv /\ LimitInv /\ [Next]_vars => LimitInv'
  BY LimitStep
<1>3. MapInv /\ StreamInv /\ LimitInv => WithinLimits
  <2> SUFFICES ASSUME MapInv, StreamInv, LimitInv PROVE WithinLimits
    OBVIOUS
  <2> DEFINE noted == {t \in Tiles : known[t] > 0}
  <2>1. noted \subseteq visible /\ IsFiniteSet(visible)
    BY TilesFinite DEF LimitInv, StreamInv, StreamTypes
  <2>2. Cardinality(noted) <= Cardinality(visible)
    BY <2>1, FS_Subset
  <2>3. Cardinality(noted) \in Nat /\ Cardinality(visible) \in Nat
    BY <2>1, FS_Subset, FS_CardinalityType
  <2> HIDE DEF noted
  <2>4. Cardinality(noted) <= RetentionLimit
    BY <2>2, <2>3, LimitConstants DEF LimitInv
  <2>5. QED BY <2>4 DEF noted, LimitInv, WithinLimits
<1>4. QED BY <1>1, <1>2, <1>3, MapInvariance, StreamInvariance, PTL DEF Spec
=============================================================================
