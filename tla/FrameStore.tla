----------------------------- MODULE FrameStore -----------------------------
(***************************************************************************)
(* The captured frames of one session and the display topology they were   *)
(* captured in: FrameStore and refresh_topology of win_native.rs and       *)
(* mac_native.rs.  Pixels are their size; a topology is the layout of the  *)
(* displays when it was last read.                                         *)
(*                                                                         *)
(* The loops of insert and encode are taken step by step, because they     *)
(* end only if the byte counts and the queue agree with what is stored.    *)
(***************************************************************************)
EXTENDS Naturals, Sequences, FiniteSets, FiniteSetsExt

CONSTANTS
  MaxFrames,        \* FRAME_STORE_MAX_FRAMES (8 in the code)
  MaxBytes,         \* FRAME_STORE_MAX_BYTES (128 MiB)
  MaxEncoded,       \* FRAME_STORE_MAX_ENCODED_BYTES (32 MiB)
  TombstoneLimit,   \* FRAME_TOMBSTONE_LIMIT (64)
  PixelSizes,       \* sizes of captures
  PngSizes,         \* sizes of encodings
  Layouts,          \* layouts of the displays
  MaxCaptures,      \* bound: frames captured
  MaxTopologies     \* bound: topology generations

ASSUME FrameLimits ==
  /\ MaxFrames \in Nat \ {0} /\ MaxBytes \in Nat /\ MaxEncoded \in Nat
  /\ TombstoneLimit \in Nat \ {0}
ASSUME FrameBounds == MaxCaptures \in Nat /\ MaxTopologies \in Nat \ {0}
ASSUME FrameSizes ==
  PixelSizes \subseteq Nat \ {0} /\ PngSizes \subseteq Nat \ {0} /\ Layouts # {}

VARIABLES
  platform,         \* which of the two implementations
  layout,           \* the displays as they are
  topology,         \* the displays as last read, a singleton or {}
  frames,           \* frames
  frameOrder,       \* order
  tombstones,       \* tombstones
  tombOrder,        \* tombstone_order
  totalBytes,       \* total_bytes
  encodedBytes,     \* encoded_bytes
  nextFrame,        \* next_frame of the backend
  loop,             \* which loop is running, if any
  pending,          \* the frame being inserted
  fates,            \* history: frames that went, with how, in order
  forgot            \* history: the topology was lost and its count restarted

storeParts == <<frames, frameOrder, tombstones, tombOrder, totalBytes, encodedBytes, fates>>
frameVars == <<platform, layout, topology, storeParts, nextFrame, loop, pending, forgot>>

FrameIds == 0..MaxCaptures - 1
NoFrame  == [bytes |-> 0, png |-> 0, gen |-> 0, layout |-> CHOOSE l \in Layouts : TRUE]

Less(a, b) == IF a > b THEN a - b ELSE 0            \* saturating_sub

Dropped(f, id) == [x \in DOMAIN f \ {id} |-> f[x]]
Added(f, id, v) == [x \in DOMAIN f \union {id} |-> IF x = id THEN v ELSE f[x]]

-----------------------------------------------------------------------------
(* The displays.                                                           *)

DisplaysChange ==
  /\ loop = "none" /\ \E l \in Layouts \ {layout} : layout' = l
  /\ UNCHANGED <<platform, topology, storeParts, nextFrame, loop, pending, forgot>>

\* Mutant: displays that moved keep their generation.
SameGeneration(old, l) == old.gen

\* The generation of a topology that is read after another one.
GenerationAfter(old, l) == IF old.layout = l THEN old.gen ELSE old.gen + 1

\* refresh_topology, at the start of every operation of the backend: the first
\* topology, or the next one.
RefreshTopology ==
  /\ loop = "none"
  /\ \/ topology = {} /\ topology' = {[gen |-> 1, layout |-> layout]}
     \/ \E old \in topology :
          /\ GenerationAfter(old, layout) <= MaxTopologies
          /\ topology' = {[gen |-> GenerationAfter(old, layout), layout |-> layout]}
  /\ UNCHANGED <<platform, layout, storeParts, nextFrame, loop, pending, forgot>>

\* On macOS the topology read before is taken out first, and a list of displays
\* without any usable one is an error that does not put it back.
TopologyLost ==
  /\ loop = "none" /\ platform = "macos" /\ topology # {}
  /\ topology' = {} /\ forgot' = TRUE
  /\ UNCHANGED <<platform, layout, storeParts, nextFrame, loop, pending>>

-----------------------------------------------------------------------------
(* The store.                                                              *)

\* Mutant: the limit counts the tombstone that is being added.
RememberFewer(id, fate) ==
  LET grown == Append(tombOrder, id)
      kept  == Added(tombstones, id, fate)
  IN IF Len(grown) >= TombstoneLimit
     THEN tombOrder' = Tail(grown) /\ tombstones' = Dropped(kept, Head(grown))
     ELSE tombOrder' = grown /\ tombstones' = kept

\* remember; one append can overflow by one only.
rememberFrame(id, fate) ==
  LET grown == Append(tombOrder, id)
      kept  == Added(tombstones, id, fate)
  IN IF Len(grown) > TombstoneLimit
     THEN tombOrder' = Tail(grown) /\ tombstones' = Dropped(kept, Head(grown))
     ELSE tombOrder' = grown /\ tombstones' = kept

\* Mutant: the bytes of the cached encoding are not given back.
KeepEncoded(id) ==
  /\ totalBytes' = Less(totalBytes, frames[id].bytes)
  /\ UNCHANGED encodedBytes

\* Mutant: the bytes of the pixels are not given back.
KeepPixels(id) ==
  /\ encodedBytes' = Less(encodedBytes, frames[id].png)
  /\ UNCHANGED totalBytes

GiveBack(id) ==
  /\ totalBytes' = Less(totalBytes, frames[id].bytes)
  /\ encodedBytes' = Less(encodedBytes, frames[id].png)

\* capture_display_frame: a topology, a capture, a new id, and insert.
Capture ==
  /\ loop = "none" /\ nextFrame < MaxCaptures
  /\ \E t \in topology, bytes \in PixelSizes :
       /\ nextFrame' = nextFrame + 1
       /\ IF bytes > MaxBytes
          THEN UNCHANGED <<loop, pending>>
          ELSE /\ loop' = "insert"
               /\ pending' = [bytes |-> bytes, png |-> 0, gen |-> t.gen, layout |-> t.layout]
  /\ UNCHANGED <<platform, layout, topology, storeParts, forgot>>

Room == Cardinality(DOMAIN frames) < MaxFrames /\ totalBytes + pending.bytes <= MaxBytes

\* evict_one; an id in the queue without a frame is only taken out of it.
Evict ==
  /\ loop = "insert" /\ ~Room /\ frameOrder # <<>>
  /\ frameOrder' = Tail(frameOrder)
  /\ LET id == Head(frameOrder)
     IN IF id \in DOMAIN frames
        THEN /\ GiveBack(id) /\ frames' = Dropped(frames, id)
             /\ rememberFrame(id, "Evicted")
             /\ fates' = Append(fates, [id |-> id, fate |-> "Evicted"])
        ELSE UNCHANGED <<frames, tombstones, tombOrder, totalBytes, encodedBytes, fates>>
  /\ UNCHANGED <<platform, layout, topology, nextFrame, loop, pending, forgot>>

Insert ==
  /\ loop = "insert" /\ Room
  /\ totalBytes' = totalBytes + pending.bytes
  /\ frameOrder' = Append(frameOrder, nextFrame - 1)
  /\ frames' = Added(frames, nextFrame - 1, pending)
  /\ loop' = "none" /\ pending' = NoFrame
  /\ UNCHANGED <<platform, layout, topology, tombstones, tombOrder, encodedBytes, nextFrame, fates, forgot>>

\* order.retain: what is left of the queue without an id.
WithoutId(queue, id) ==
  LET kept[i \in 0..Len(queue)] ==
        IF i = 0 THEN <<>>
        ELSE IF queue[i] = id THEN kept[i - 1] ELSE Append(kept[i - 1], queue[i])
  IN  kept[Len(queue)]

\* release, of a frame that is stored; any other id only gets an answer.
Release ==
  /\ loop = "none"
  /\ \E id \in DOMAIN frames :
       /\ GiveBack(id) /\ frames' = Dropped(frames, id) /\ frameOrder' = WithoutId(frameOrder, id)
       /\ rememberFrame(id, "Released") /\ fates' = Append(fates, [id |-> id, fate |-> "Released"])
  /\ UNCHANGED <<platform, layout, topology, nextFrame, loop, pending, forgot>>

\* state
FrameAnswer(id) ==
  IF id \in DOMAIN frames
  THEN IF \E t \in topology : t.gen = frames[id].gen THEN "Current" ELSE "StaleTopology"
  ELSE IF id \in DOMAIN tombstones THEN tombstones[id] ELSE "Unknown"

\* coordinate: a pixel of a screenshot is mapped to the desktop only by a
\* current frame, with the place and scale it was captured with.
Maps(id) == FrameAnswer(id) = "Current"

\* An encoding that is not cached yet and small enough to be.
CacheEncoding(id, png) ==
  /\ frames[id].png = 0 /\ png <= MaxEncoded
  /\ encodedBytes' = encodedBytes + png
  /\ frames' = [frames EXCEPT ![id].png = png]

\* encode of Windows: any frame it still has, and then the loop that shrinks
\* the cache.
WindowsEncode ==
  /\ platform = "windows" /\ loop = "none" /\ topology # {}
  /\ \E id \in DOMAIN frames, png \in PngSizes : CacheEncoding(id, png)
  /\ loop' = "shrink"
  /\ UNCHANGED <<platform, layout, topology, frameOrder, tombstones, tombOrder, totalBytes,
                 nextFrame, pending, fates, forgot>>

\* encode of macOS: a current frame only, and the cache is never shrunk.
MacEncode ==
  /\ platform = "macos" /\ loop = "none" /\ topology # {}
  /\ \E id \in DOMAIN frames, png \in PngSizes : FrameAnswer(id) = "Current" /\ CacheEncoding(id, png)
  /\ UNCHANGED <<platform, layout, topology, frameOrder, tombstones, tombOrder, totalBytes,
                 nextFrame, loop, pending, fates, forgot>>

EncodedFits == encodedBytes <= MaxEncoded

\* One turn of the loop over the cached encodings: the first frame of the
\* queue loses its own, or is put behind the others.
Shrink ==
  /\ loop = "shrink" /\ ~EncodedFits /\ frameOrder # <<>>
  /\ LET id == Head(frameOrder)
     IN IF id \in DOMAIN frames /\ frames[id].png # 0
        THEN /\ encodedBytes' = Less(encodedBytes, frames[id].png)
             /\ frames' = [frames EXCEPT ![id].png = 0] /\ UNCHANGED frameOrder
        ELSE /\ frameOrder' = Append(Tail(frameOrder), id)
             /\ UNCHANGED <<encodedBytes, frames>>
  /\ UNCHANGED <<platform, layout, topology, tombstones, tombOrder, totalBytes, nextFrame,
                 loop, pending, fates, forgot>>

Shrunk ==
  /\ loop = "shrink" /\ (EncodedFits \/ frameOrder = <<>>) /\ loop' = "none"
  /\ UNCHANGED <<platform, layout, topology, storeParts, nextFrame, pending, forgot>>

\* close_session: the store goes with its tombstones.
FrameClose ==
  /\ loop = "none" /\ DOMAIN frames # {}
  /\ frames' = <<>> /\ frameOrder' = <<>> /\ tombstones' = <<>> /\ tombOrder' = <<>>
  /\ totalBytes' = 0 /\ encodedBytes' = 0 /\ fates' = <<>>
  /\ UNCHANGED <<platform, layout, topology, nextFrame, loop, pending, forgot>>

-----------------------------------------------------------------------------

FrameInit ==
  /\ platform \in {"windows", "macos"}
  /\ layout \in Layouts /\ topology = {} /\ forgot = FALSE
  /\ frames = <<>> /\ frameOrder = <<>> /\ tombstones = <<>> /\ tombOrder = <<>>
  /\ totalBytes = 0 /\ encodedBytes = 0 /\ nextFrame = 0
  /\ loop = "none" /\ pending = NoFrame /\ fates = <<>>

FrameNext ==
  \/ DisplaysChange \/ RefreshTopology \/ TopologyLost
  \/ Capture \/ Evict \/ Insert \/ Release \/ WindowsEncode \/ MacEncode \/ Shrink \/ Shrunk \/ FrameClose

FrameSpec == FrameInit /\ [][FrameNext]_frameVars

-----------------------------------------------------------------------------
(* Properties.                                                             *)

StoredFrames == [bytes : PixelSizes, png : PngSizes \union {0}, gen : 1..MaxTopologies,
                 layout : Layouts]

FrameTypeOK ==
  /\ platform \in {"windows", "macos"} /\ layout \in Layouts
  /\ topology \in {{}} \union {{[gen |-> g, layout |-> l]} : g \in 1..MaxTopologies, l \in Layouts}
  /\ DOMAIN frames \subseteq FrameIds /\ \A id \in DOMAIN frames : frames[id] \in StoredFrames
  /\ totalBytes \in 0..MaxBytes /\ encodedBytes \in Nat
  /\ Cardinality(DOMAIN frames) <= MaxFrames
  /\ DOMAIN tombstones \subseteq FrameIds /\ Len(tombOrder) <= TombstoneLimit
  /\ nextFrame \in 0..MaxCaptures /\ loop \in {"none", "insert", "shrink"}

\* The counters and the queue say what is stored: insert and encode compare
\* and evict by them alone, on every path that stores, encodes, evicts,
\* releases or rotates.
FramesAccounted ==
  /\ totalBytes = SumFunction([id \in DOMAIN frames |-> frames[id].bytes])
  /\ encodedBytes = SumFunction([id \in DOMAIN frames |-> frames[id].png])
  /\ {frameOrder[i] : i \in 1..Len(frameOrder)} = DOMAIN frames
  /\ Len(frameOrder) = Cardinality(DOMAIN frames)

\* The loops of insert and encode end: while one still wants something to go,
\* there is something that can (evict_one returns without an effect when the
\* queue is empty, and the loop around it would turn for ever).
LoopsEnd ==
  /\ loop = "insert" /\ ~Room => frameOrder # <<>>
  /\ loop = "shrink" /\ ~EncodedFits =>
       \E i \in 1..Len(frameOrder) : frameOrder[i] \in DOMAIN frames /\ frames[frameOrder[i]].png # 0

\* What the store answers about a frame is true.  A frame that went answers
\* how it went, while no more than TombstoneLimit frames have gone since, and
\* never comes back under its id; a frame called current, by which clicks are
\* mapped, was captured in the layout the backend works with, unless the count
\* of topologies was restarted (FrameStore::state).
FrameAnswersHold ==
  /\ \A i \in 1..Len(fates) :
       /\ fates[i].id \notin DOMAIN frames
       /\ Len(fates) - i < TombstoneLimit => FrameAnswer(fates[i].id) = fates[i].fate
  /\ ~forgot => \A id \in DOMAIN frames, t \in topology :
                  Maps(id) => frames[id].layout = t.layout
=============================================================================
