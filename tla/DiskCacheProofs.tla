---------------------------- MODULE DiskCacheProofs ----------------------------
(***************************************************************************)
(* The cache stays well-formed and coherent for every number and size of   *)
(* tracks, every number of slots and every set of sector values.           *)
(*                                                                         *)
(* TypeOK and Coherent are proved together: that a sector is marked and    *)
(* compared in one place only needs both the types and OneCopy.            *)
(*                                                                         *)
(* The order of eviction rests on the serial numbers being in the order in *)
(* which the slots were used.                                              *)
(*                                                                         *)
(* The cache is a block store: every step of DiskCache is, for the         *)
(* contents a host may rely on, a step of BlockStore. The proof rests on   *)
(* the coherence of the cache: a sector that is in no slot, or unmarked in *)
(* one and not lost, is in the file.                                       *)
(***************************************************************************)
EXTENDS DiskCache, TLAPS

IInv == TypeOK /\ Coherent

CacheOK(k) == DOMAIN k = Slot /\ \A s \in Slot : SlotOK(k[s])

-------------------------------------------------------------------------------
(* Facts about the parts of a request. *)

\* UpdateSerial() keeps the counter in its range.
LEMMA NextSerialRange ==
  ASSUME serial \in 0..(SerialMod - 1)
  PROVE  NextSerial \in 0..(SerialMod - 1)
BY SizesAssumption, SMT DEF NextSerial

\* Clearing the serial numbers changes nothing else in the slots.
LEMMA AgedSlots ==
  ASSUME CacheOK(cache)
  PROVE  /\ CacheOK(Aged)
         /\ \A s \in Slot : /\ Aged[s].track = cache[s].track
                            /\ Aged[s].data = cache[s].data
                            /\ Aged[s].modified = cache[s].modified
<1>0. 0 \in 0..(SerialMod - 1)
  BY SizesAssumption
<1>1. CASE NextSerial = 0
  <2>1. ASSUME NEW s \in Slot
        PROVE  /\ Aged[s] = [cache[s] EXCEPT !.serial = 0]
               /\ SlotOK(cache[s])
    BY <1>1, <2>1 DEF Aged, CacheOK
  <2>2. ASSUME NEW s \in Slot
        PROVE  /\ SlotOK(Aged[s])
               /\ Aged[s].track = cache[s].track
               /\ Aged[s].data = cache[s].data
               /\ Aged[s].modified = cache[s].modified
    <3>1. CASE cache[s] = EmptySlot(cache[s].serial)
      <4>1. Aged[s] = EmptySlot(0)
        BY <2>1, <3>1 DEF EmptySlot
      <4>2. QED
        BY <1>0, <3>1, <4>1 DEF SlotOK, EmptySlot
    <3>2. CASE cache[s] # EmptySlot(cache[s].serial)
      BY <1>0, <2>1, <3>2 DEF SlotOK
    <3>3. QED
      BY <3>1, <3>2
  <2>3. DOMAIN Aged = Slot
    BY <1>1 DEF Aged
  <2>4. QED
    BY <2>2, <2>3 DEF CacheOK
<1>2. CASE NextSerial # 0
  BY <1>2 DEF Aged
<1>3. QED
  BY <1>1, <1>2

\* The track of a block is a track of the drive.
LEMMA TrackOfBlock ==
  ASSUME NEW b \in Block
  PROVE  TrackOf(b) \in Track
BY DEF Track

\* A track number is never the mark of an empty slot.
LEMMA TrackIsNat ==
  ASSUME NEW t \in Track
  PROVE  t \in Nat /\ t # NoTrack
<1>1. PICK b \in Block : t = TrackOf(b)
  BY DEF Track
<1>2. b \in Nat
  BY SizesAssumption DEF Block
<1>3. TrackOf(b) \in Nat
  BY <1>2, SizesAssumption, SMT DEF TrackOf
<1>4. QED
  BY <1>1, <1>3 DEF NoTrack

\* A freshly loaded track is a well-formed slot that repeats the file.
LEMMA LoadedSlot ==
  ASSUME NEW t \in Track, NEW f \in [Block -> Value],
         serial \in 0..(SerialMod - 1)
  PROVE  /\ SlotOK(Loaded(t, f))
         /\ Loaded(t, f).track = t
         /\ Loaded(t, f).modified = {}
         /\ \A b \in BlocksOf(t) : Loaded(t, f).data[b] = f[b]
<1>1. Loaded(t, f).data \in Data(t)
  BY DEF Loaded, Data, BlocksOf
<1>2. QED
  BY <1>1, NextSerialRange DEF Loaded, SlotOK

\* A successful outcome.
LEMMA AnswerType ==
  ASSUME NEW op \in {"read", "write"}, NEW b \in Block, NEW v \in Value
  PROVE  Answer(op, b, v) \in Reply
BY DEF Reply

\* A failure is an outcome whatever the values of the sectors are.
LEMMA FailureType ==
  ASSUME NEW op \in {"read", "write"}, NEW b \in Block
  PROVE  Failure(op, b) \in Reply
BY DEF Reply

\* Reading or writing a sector of the track of slot record c keeps it
\* well-formed, and touches an unmarked sector only by marking it.
LEMMA AppliedSlot ==
  ASSUME NEW req \in Request, NEW c, SlotOK(c), c.track = TrackOf(req.block)
  PROVE  /\ SlotOK(Applied(req, c))
         /\ Applied(req, c).track = c.track
         /\ c.modified \subseteq Applied(req, c).modified
         /\ \A b \in BlocksOf(c.track) \ Applied(req, c).modified :
              Applied(req, c).data[b] = c.data[b]
         /\ Outcome(req, c) \in Reply
<1> DEFINE d == Applied(req, c)
<1>1. req.block \in Block /\ req.op \in {"read", "write"}
  BY DEF Request
<1>2. c.track \in Track /\ c.track # NoTrack
  BY <1>1, TrackOfBlock, TrackIsNat
<1>3. /\ c = [track |-> c.track, serial |-> c.serial, data |-> c.data, modified |-> c.modified]
      /\ c.data \in Data(c.track)
      /\ c.modified \subseteq BlocksOf(c.track)
      /\ c.serial \in 0..(SerialMod - 1)
  BY <1>2 DEF SlotOK, EmptySlot
<1>4. CASE d = c
  <2>1. InTrack(req.block) => c.data[req.block] \in Value
    BY <1>3 DEF InTrack, Data
  <2>2. Outcome(req, c) \in Reply
    BY <1>1, <1>4, <2>1, AnswerType, FailureType DEF Outcome
  <2>3. QED
    BY <1>4, <2>2
<1>5. CASE d # c
  <2>1. /\ req.op = "write"
        /\ InTrack(req.block)
        /\ d = [c EXCEPT !.data = [c.data EXCEPT ![req.block] = req.value],
                         !.modified = c.modified \cup {req.block}]
    BY <1>5 DEF Applied
  <2>2. req.value \in Value
    BY <2>1 DEF Request
  <2>3. req.block \in BlocksOf(c.track)
    BY <2>1 DEF InTrack
  <2>4. /\ d.track = c.track
        /\ d.serial = c.serial
        /\ d.data = [c.data EXCEPT ![req.block] = req.value]
        /\ d.modified = c.modified \cup {req.block}
        /\ d = [track |-> d.track, serial |-> d.serial, data |-> d.data, modified |-> d.modified]
    BY <1>3, <2>1
  <2>5. d.data \in Data(c.track) /\ d.data[req.block] = req.value
    BY <1>3, <2>2, <2>3, <2>4 DEF Data
  <2>6. SlotOK(d)
    <3> HIDE DEF d
    <3> QED
      BY <1>2, <1>3, <2>3, <2>4, <2>5 DEF SlotOK
  <2>7. Outcome(req, c) \in Reply
    BY <1>1, <2>1, <2>2, <2>5, AnswerType DEF Outcome
  <2>8. \A b \in BlocksOf(c.track) \ d.modified : d.data[b] = c.data[b]
    <3> HIDE DEF d
    <3> QED
      BY <1>3, <2>3, <2>4 DEF Data
  <2>9. QED
    BY <2>4, <2>6, <2>7, <2>8
<1>6. QED
  BY <1>4, <1>5

-------------------------------------------------------------------------------
(* The two ways in which a request leaves the slots. *)

\* Two slots that hold a track hold no sector in common.
LEMMA SlotsDisjoint ==
  ASSUME OneCopy, NEW r \in Slot, NEW s \in Slot, r # s,
         NEW b \in BlocksOf(cache[r].track)
  PROVE  b \notin BlocksOf(cache[s].track)
<1>1. b \in Block /\ TrackOf(b) = cache[r].track
  BY DEF BlocksOf
<1>2. cache[r].track # NoTrack
  BY <1>1, TrackOfBlock, TrackIsNat
<1>3. QED
  BY <1>1, <1>2 DEF OneCopy, BlocksOf

\* The modified sectors of a slot are sectors of its track.
LEMMA ModifiedInTrack ==
  ASSUME NEW c, SlotOK(c)
  PROVE  c.modified \subseteq BlocksOf(c.track)
BY DEF SlotOK, EmptySlot

\* One slot gets the contents c, the others keep theirs.
LEMMA SlotReplaced ==
  ASSUME IInv, NEW s \in Slot, NEW c, SlotOK(c),
         c.track # NoTrack => \A r \in Slot \ {s} : cache[r].track # c.track,
         file' \in [Block -> Value],
         \A r \in Slot \ {s} : \A b \in BlocksOf(cache[r].track) : file'[b] = file[b],
         \A b \in BlocksOf(c.track) \ c.modified : b \in lost' \/ c.data[b] = file'[b],
         \A r \in Slot \ {s} : \A b \in BlocksOf(cache[r].track) : b \in lost => b \in lost',
         lost' \subseteq Block, younger' \subseteq Slot \X Slot,
         cache' = [Aged EXCEPT ![s] = c],
         serial' = NextSerial, reply' \in Reply, ioError' \in BOOLEAN
  PROVE  IInv'
<1>1. /\ DOMAIN cache' = Slot
      /\ cache'[s] = c
      /\ \A r \in Slot \ {s} : /\ SlotOK(cache'[r])
                               /\ cache'[r].track = cache[r].track
                               /\ cache'[r].data = cache[r].data
                               /\ cache'[r].modified = cache[r].modified
  BY AgedSlots DEF IInv, TypeOK, CacheOK
<1>2. TypeOK'
  <2>1. \A r \in Slot : SlotOK(cache'[r])
    BY <1>1
  <2>2. serial' \in 0..(SerialMod - 1)
    BY NextSerialRange DEF IInv, TypeOK
  <2>3. QED
    BY <1>1, <2>1, <2>2 DEF TypeOK, SlotOK, Slot, Block, Reply
<1>3. OneCopy'
  BY <1>1 DEF IInv, Coherent, OneCopy
<1>4. CleanMatchesFile'
  <2> SUFFICES ASSUME NEW r \in Slot, NEW b \in BlocksOf(cache'[r].track),
                      b \notin cache'[r].modified, b \notin lost'
               PROVE  cache'[r].data[b] = file'[b]
    BY DEF CleanMatchesFile, BlocksOf, blocks
  <2>1. CASE r = s
    BY <1>1, <2>1
  <2>2. CASE r # s
    BY <1>1, <2>2 DEF IInv, Coherent, CleanMatchesFile
  <2>3. QED
    BY <2>1, <2>2
<1>5. QED
  BY <1>2, <1>3, <1>4 DEF IInv, Coherent

\* The slots keep their contents, and the file changes in modified sectors only.
LEMMA SlotsKept ==
  ASSUME IInv, NEW f \in [Block -> Value], file' = f,
         \A r \in Slot : \A b \in BlocksOf(cache[r].track) \ cache[r].modified :
           file'[b] = file[b],
         cache' = Aged, lost' = lost, younger' \subseteq Slot \X Slot,
         serial' = NextSerial, reply' \in Reply, ioError' \in BOOLEAN
  PROVE  IInv'
<1>1. /\ CacheOK(cache')
      /\ \A r \in Slot : /\ cache'[r].track = cache[r].track
                         /\ cache'[r].data = cache[r].data
                         /\ cache'[r].modified = cache[r].modified
  BY AgedSlots DEF IInv, TypeOK, CacheOK
<1>2. TypeOK'
  BY <1>1, NextSerialRange DEF IInv, TypeOK, CacheOK, SlotOK, Slot, Reply
<1>3. OneCopy'
  BY <1>1 DEF IInv, Coherent, OneCopy
<1>4. CleanMatchesFile'
  BY <1>1 DEF IInv, Coherent, CleanMatchesFile, BlocksOf, blocks
<1>5. QED
  BY <1>2, <1>3, <1>4 DEF IInv, Coherent

-------------------------------------------------------------------------------
(* The actions. *)

\* Saving a victim changes the file in the modified sectors of its track only.
LEMMA SavedFile ==
  ASSUME IInv, NEW s \in Slot, NEW S \in SUBSET cache[s].modified
  PROVE  /\ PartlySaved(cache[s], S) \in [Block -> Value]
         /\ \A r \in Slot : \A b \in BlocksOf(cache[r].track) \ cache[r].modified :
              PartlySaved(cache[s], S)[b] = file[b]
         /\ \A r \in Slot \ {s} : \A b \in BlocksOf(cache[r].track) :
              PartlySaved(cache[s], S)[b] = file[b]
<1>1. cache[s].modified \subseteq BlocksOf(cache[s].track)
  BY ModifiedInTrack DEF IInv, TypeOK
<1>2. \A b \in cache[s].modified : cache[s].data[b] \in Value
  BY <1>1 DEF IInv, TypeOK, SlotOK, EmptySlot, Data
<1>3. PartlySaved(cache[s], S) \in [Block -> Value]
  BY <1>2 DEF PartlySaved, IInv, TypeOK
<1>4. ASSUME NEW r \in Slot, r # s, NEW b \in BlocksOf(cache[r].track)
      PROVE  PartlySaved(cache[s], S)[b] = file[b]
  <2>1. b \notin cache[s].modified
    BY <1>1, <1>4, SlotsDisjoint DEF IInv, Coherent
  <2>2. QED
    BY <2>1 DEF PartlySaved, BlocksOf
<1>5. \A b \in BlocksOf(cache[s].track) \ cache[s].modified :
        PartlySaved(cache[s], S)[b] = file[b]
  BY DEF PartlySaved, BlocksOf
<1>6. QED
  BY <1>3, <1>4, <1>5

\* Neither does a save that loses a part unnoticed.
LEMMA SavedVictim ==
  ASSUME IInv, NEW s \in Slot, NEW L
  PROVE  /\ Saved(cache[s], L) \in [Block -> Value]
         /\ \A r \in Slot \ {s} : \A b \in BlocksOf(cache[r].track) :
              Saved(cache[s], L)[b] = file[b]
<1> DEFINE S == cache[s].modified \ L
<1>1. S \in SUBSET cache[s].modified
  OBVIOUS
<1>2. Saved(cache[s], L) = PartlySaved(cache[s], S)
  BY DEF Saved
<1> HIDE DEF S
<1>3. /\ PartlySaved(cache[s], S) \in [Block -> Value]
      /\ \A r \in Slot \ {s} : \A b \in BlocksOf(cache[r].track) :
           PartlySaved(cache[s], S)[b] = file[b]
  BY <1>1, SavedFile
<1>4. QED
  BY <1>2, <1>3

\* What is lost of a save are sectors of the drive.
LEMMA TailsInBlock ==
  ASSUME IInv, NEW s \in Slot, NEW L \in Tails(cache[s].modified)
  PROVE  L \subseteq cache[s].modified /\ L \subseteq Block
BY ModifiedInTrack DEF Tails, IInv, TypeOK, BlocksOf

\* The history of the slots' use relates slots.
LEMMA UsedType ==
  ASSUME TypeOK, NEW s \in Slot
  PROVE  UsedSlot(s) \subseteq Slot \X Slot /\ UsedNone \subseteq Slot \X Slot
BY DEF TypeOK, UsedSlot, UsedNone

\* An access to a cached track keeps the invariant.
LEMMA HitKeeps ==
  ASSUME IInv, NEW req \in Request, Hit(req)
  PROVE  IInv'
<1>1. PICK s \in Holding(TrackOf(req.block)) :
        LET c == [cache[s] EXCEPT !.serial = NextSerial] IN
        /\ cache' = [Aged EXCEPT ![s] = Applied(req, c)]
        /\ reply' = Outcome(req, c)
        /\ lost' = lost \ Applied(req, c).modified
        /\ younger' = UsedSlot(s)
  BY DEF Hit
<1> DEFINE c == [cache[s] EXCEPT !.serial = NextSerial]
<1>2. s \in Slot /\ cache[s].track = TrackOf(req.block)
  BY DEF Holding
<1>3. cache[s].track \in Track /\ cache[s].track # NoTrack
  BY <1>2, TrackOfBlock, TrackIsNat DEF Request
<1>4. /\ SlotOK(c)
      /\ c.track = cache[s].track
      /\ c.modified = cache[s].modified
      /\ c.data = cache[s].data
  BY <1>2, <1>3, NextSerialRange DEF IInv, TypeOK, SlotOK, EmptySlot
<1> HIDE DEF c
<1>5. /\ SlotOK(Applied(req, c))
      /\ Applied(req, c).track = cache[s].track
      /\ \A b \in BlocksOf(cache[s].track) \ Applied(req, c).modified :
           b \in lost \/ Applied(req, c).data[b] = file[b]
      /\ Outcome(req, c) \in Reply
  BY <1>2, <1>4, AppliedSlot DEF IInv, Coherent, CleanMatchesFile
<1>6. \A r \in Slot \ {s} : cache[r].track # cache[s].track
  BY <1>2, <1>3 DEF IInv, Coherent, OneCopy
<1>7. /\ cache' = [Aged EXCEPT ![s] = Applied(req, c)]
      /\ reply' = Outcome(req, c)
      /\ lost' = lost \ Applied(req, c).modified
      /\ younger' = UsedSlot(s)
  BY <1>1 DEF c
<1>8. /\ file' = file /\ file' \in [Block -> Value]
      /\ serial' = NextSerial
      /\ ioError' \in BOOLEAN
      /\ lost \subseteq Block
  BY DEF Hit, IInv, TypeOK
<1>9. younger' \subseteq Slot \X Slot
  BY <1>2, <1>7, UsedType DEF IInv
<1>10. Applied(req, c).modified \subseteq BlocksOf(cache[s].track)
  BY <1>5, ModifiedInTrack
<1>11. \A r \in Slot \ {s} : \A b \in BlocksOf(cache[r].track) : b \in lost => b \in lost'
  BY <1>2, <1>7, <1>10, SlotsDisjoint DEF IInv, Coherent
<1>12. \A b \in BlocksOf(cache[s].track) \ Applied(req, c).modified :
         b \in lost' \/ Applied(req, c).data[b] = file'[b]
  BY <1>5, <1>7, <1>8
<1>13. QED
  BY <1>2, <1>5, <1>6, <1>7, <1>8, <1>9, <1>11, <1>12, SlotReplaced, ZenonT(60) DEF BlocksOf

\* Loading a track into slot s from the file f and applying the request to it.
LEMMA LoadKeeps ==
  ASSUME IInv, NEW req \in Request, NEW s \in Slot, NEW f \in [Block -> Value],
         NEW L, L \subseteq Block,
         Holding(TrackOf(req.block)) = {},
         file' = f,
         \A r \in Slot \ {s} : \A b \in BlocksOf(cache[r].track) : f[b] = file[b],
         lost' = (lost \cup L) \ Applied(req, Loaded(TrackOf(req.block), f)).modified,
         younger' = UsedSlot(s),
         cache' = [Aged EXCEPT ![s] = Applied(req, Loaded(TrackOf(req.block), f))],
         reply' = Outcome(req, Loaded(TrackOf(req.block), f)),
         serial' = NextSerial, ioError' \in BOOLEAN
  PROVE  IInv'
<1> DEFINE t == TrackOf(req.block)
           c == Applied(req, Loaded(t, f))
<1>1. t \in Track
  BY TrackOfBlock DEF Request
<1>2. /\ SlotOK(Loaded(t, f))
      /\ Loaded(t, f).track = t
      /\ \A b \in BlocksOf(t) : Loaded(t, f).data[b] = f[b]
  BY <1>1, LoadedSlot DEF IInv, TypeOK
<1>3. /\ SlotOK(c)
      /\ c.track = t
      /\ \A b \in BlocksOf(t) \ c.modified : c.data[b] = f[b]
      /\ Outcome(req, Loaded(t, f)) \in Reply
  BY <1>2, AppliedSlot
<1>4. \A r \in Slot : cache[r].track # t
  BY DEF Holding
<1> HIDE DEF c, t
<1>5. /\ cache' = [Aged EXCEPT ![s] = c] /\ reply' \in Reply
      /\ lost' = (lost \cup L) \ c.modified
  BY <1>3 DEF c, t
<1>6. lost' \subseteq Block /\ younger' \subseteq Slot \X Slot
  BY <1>5, UsedType DEF IInv, TypeOK
<1>7. c.modified \subseteq BlocksOf(t)
  BY <1>3, ModifiedInTrack
<1>8. \A r \in Slot \ {s} : \A b \in BlocksOf(cache[r].track) : b \in lost => b \in lost'
  BY <1>4, <1>5, <1>7 DEF BlocksOf
<1>9. QED
  BY <1>3, <1>4, <1>5, <1>6, <1>8, SlotReplaced, ZenonT(60) DEF BlocksOf

\* So does a track read into a free slot.
LEMMA FillKeeps ==
  ASSUME IInv, NEW req \in Request, Fill(req)
  PROVE  IInv'
<1>1. PICK s \in Free :
        /\ cache' = [Aged EXCEPT ![s] = Applied(req, Loaded(TrackOf(req.block), file))]
        /\ reply' = Outcome(req, Loaded(TrackOf(req.block), file))
        /\ lost' = (lost \cup {}) \ Applied(req, Loaded(TrackOf(req.block), file)).modified
        /\ younger' = UsedSlot(s)
  BY DEF Fill
<1>2. /\ Holding(TrackOf(req.block)) = {}
      /\ file' = file
      /\ serial' = NextSerial
      /\ ioError' \in BOOLEAN
  BY DEF Fill
<1>3. s \in Slot /\ file \in [Block -> Value]
  BY DEF Free, IInv, TypeOK
<1>4. QED
  BY <1>1, <1>2, <1>3, LoadKeeps

\* So does a read that fails, which leaves the slot free.
LEMMA FillFailsKeeps ==
  ASSUME IInv, NEW req \in Request, FillFails(req)
  PROVE  IInv'
<1>1. /\ cache' = Aged /\ serial' = NextSerial /\ file' = file
      /\ file \in [Block -> Value]
      /\ ioError' \in BOOLEAN
      /\ lost' = lost
      /\ younger' \subseteq Slot \X Slot
  BY DEF FillFails, IInv, TypeOK, UsedNone
<1>2. reply' \in Reply
  BY FailureType DEF FillFails, Request
<1>3. QED
  BY <1>1, <1>2, SlotsKept

\* So does a track that replaces the coldest one.
LEMMA EvictKeeps ==
  ASSUME IInv, NEW req \in Request, Evict(req)
  PROVE  IInv'
<1> DEFINE New(s, L) ==
      LET f == Saved(cache[s], L)
          d == Loaded(TrackOf(req.block), f) IN
      /\ file' = f
      /\ cache' = [Aged EXCEPT ![s] = Applied(req, d)]
      /\ reply' = Outcome(req, d)
      /\ lost' = (lost \cup L) \ Applied(req, d).modified
      /\ younger' = UsedSlot(s)
<1>1. PICK s \in Slot : \E L \in Tails(cache[s].modified) : New(s, L)
  BY DEF Evict
<1>2. PICK L \in Tails(cache[s].modified) : New(s, L)
  BY <1>1
<1>3. /\ Holding(TrackOf(req.block)) = {}
      /\ serial' = NextSerial
      /\ ioError' \in BOOLEAN
  BY DEF Evict
<1> DEFINE f == Saved(cache[s], L)
<1>4. /\ f \in [Block -> Value]
      /\ \A r \in Slot \ {s} : \A b \in BlocksOf(cache[r].track) : f[b] = file[b]
  BY SavedVictim
<1>5. L \subseteq Block
  BY TailsInBlock
<1>6. /\ file' = f
      /\ cache' = [Aged EXCEPT ![s] = Applied(req, Loaded(TrackOf(req.block), f))]
      /\ reply' = Outcome(req, Loaded(TrackOf(req.block), f))
      /\ lost' = (lost \cup L) \ Applied(req, Loaded(TrackOf(req.block), f)).modified
      /\ younger' = UsedSlot(s)
  BY <1>2
<1> HIDE DEF f
<1>7. QED
  BY <1>3, <1>4, <1>5, <1>6, LoadKeeps

\* So does a replacement whose read fails, after the old track is saved.
LEMMA EvictLoadFailsKeeps ==
  ASSUME IInv, NEW req \in Request, EvictLoadFails(req)
  PROVE  IInv'
<1> DEFINE New(s, L) ==
      /\ file' = Saved(cache[s], L)
      /\ cache' = [Aged EXCEPT ![s] = EmptySlot(Aged[s].serial)]
      /\ lost' = lost \cup L
<1>0. PICK s \in Slot : \E L \in Tails(cache[s].modified) : New(s, L)
  BY DEF EvictLoadFails
<1>1. PICK L \in Tails(cache[s].modified) : New(s, L)
  BY <1>0
<1> DEFINE c == EmptySlot(Aged[s].serial)
<1>2. SlotOK(c) /\ c.track = NoTrack
  BY AgedSlots DEF IInv, TypeOK, CacheOK, SlotOK, EmptySlot
<1>3. BlocksOf(NoTrack) = {}
  BY TrackOfBlock, TrackIsNat DEF BlocksOf
<1>4. /\ Saved(cache[s], L) \in [Block -> Value]
      /\ \A r \in Slot \ {s} : \A b \in BlocksOf(cache[r].track) :
           Saved(cache[s], L)[b] = file[b]
  BY SavedVictim
<1>5. serial' = NextSerial /\ ioError' \in BOOLEAN /\ younger' \subseteq Slot \X Slot
  BY DEF EvictLoadFails, UsedNone, IInv, TypeOK
<1>6. reply' \in Reply
  BY FailureType DEF EvictLoadFails, Request
<1>7. lost' \subseteq Block /\ lost \subseteq lost'
  BY <1>1, TailsInBlock DEF IInv, TypeOK
<1>8. cache' = [Aged EXCEPT ![s] = c] /\ file' = Saved(cache[s], L)
  BY <1>1 DEF c
<1> HIDE DEF c
<1>9. QED
  BY <1>2, <1>3, <1>4, <1>5, <1>6, <1>7, <1>8, SlotReplaced

\* So does a replacement whose save fails, after which the old track stays.
LEMMA EvictSaveFailsKeeps ==
  ASSUME IInv, NEW req \in Request, EvictSaveFails(req)
  PROVE  IInv'
<1>0. PICK s \in Slot : \E S \in Prefixes(cache[s].modified) :
        file' = PartlySaved(cache[s], S)
  BY DEF EvictSaveFails
<1>1. PICK S \in Prefixes(cache[s].modified) : file' = PartlySaved(cache[s], S)
  BY <1>0
<1>2. /\ cache' = Aged /\ serial' = NextSerial /\ ioError' \in BOOLEAN
      /\ lost' = lost /\ younger' \subseteq Slot \X Slot
  BY DEF EvictSaveFails, UsedNone, IInv, TypeOK
<1>3. reply' \in Reply
  BY FailureType DEF EvictSaveFails, Request
<1>4. S \in SUBSET cache[s].modified
  BY DEF Prefixes
<1>5. QED
  BY <1>1, <1>2, <1>3, <1>4, SavedFile, SlotsKept

\* The outcomes that are not those of a request.
LEMMA OtherReplies ==
  /\ Silent \in Reply
  /\ \A good \in BOOLEAN : FlushAnswer(good) \in Reply
BY DEF Reply

\* Clearing the flags of a slot leaves the rest of it alone.
LEMMA CleanSlot ==
  ASSUME NEW c, SlotOK(c)
  PROVE  /\ SlotOK(Clean(c))
         /\ Clean(c).track = c.track
         /\ Clean(c).data = c.data
<1>1. CASE c = EmptySlot(c.serial)
  <2>1. Clean(c) = c
    BY <1>1 DEF Clean, EmptySlot
  <2>2. QED
    BY <2>1
<1>2. CASE c # EmptySlot(c.serial)
  <2>1. /\ c = [track |-> c.track, serial |-> c.serial, data |-> c.data, modified |-> c.modified]
        /\ c.track \in Track
        /\ c.data \in Data(c.track)
        /\ c.serial \in 0..(SerialMod - 1)
    BY <1>2 DEF SlotOK
  <2>2. Clean(c) = [track |-> c.track, serial |-> c.serial, data |-> c.data, modified |-> {}]
    <3>1. PICK t, n, d, m : c = [track |-> t, serial |-> n, data |-> d, modified |-> m]
      BY <2>1
    <3>2. Clean(c) = [track |-> t, serial |-> n, data |-> d, modified |-> {}]
      BY <3>1 DEF Clean
    <3>3. QED
      BY <3>1, <3>2
  <2>3. QED
    BY <2>1, <2>2 DEF SlotOK
<1>3. QED
  BY <1>1, <1>2

\* Some slots are saved and marked clean, and the file changes in modified
\* sectors only.
LEMMA SlotsCleaned ==
  ASSUME IInv, NEW K \in SUBSET Slot, NEW f \in [Block -> Value], file' = f,
         cache' = [s \in Slot |-> IF s \in K THEN Clean(cache[s]) ELSE cache[s]],
         \A s \in K : \A b \in BlocksOf(cache[s].track) : b \in lost' \/ f[b] = cache[s].data[b],
         \A s \in Slot \ K : \A b \in BlocksOf(cache[s].track) \ cache[s].modified :
           f[b] = file[b],
         lost \subseteq lost', lost' \subseteq Block,
         UNCHANGED <<serial, younger>>, reply' \in Reply, ioError' \in BOOLEAN
  PROVE  IInv'
<1>1. ASSUME NEW s \in Slot
      PROVE  /\ SlotOK(cache'[s])
             /\ cache'[s].track = cache[s].track
             /\ cache'[s].data = cache[s].data
             /\ s \notin K => cache'[s].modified = cache[s].modified
  <2>1. SlotOK(cache[s])
    BY DEF IInv, TypeOK
  <2>2. CASE s \in K
    <3>1. cache'[s] = Clean(cache[s])
      BY <2>2
    <3>2. QED
      BY <2>1, <2>2, <3>1, CleanSlot
  <2>3. CASE s \notin K
    <3>1. cache'[s] = cache[s]
      BY <2>3
    <3>2. QED
      BY <2>1, <3>1
  <2>4. QED
    BY <2>2, <2>3
<1>2. TypeOK'
  BY <1>1 DEF IInv, TypeOK, SlotOK, Slot, Block, Reply
<1>3. OneCopy'
  BY <1>1 DEF IInv, Coherent, OneCopy
<1>4. CleanMatchesFile'
  <2> SUFFICES ASSUME NEW s \in Slot, NEW b \in BlocksOf(cache'[s].track),
                      b \notin cache'[s].modified, b \notin lost'
               PROVE  cache'[s].data[b] = f[b]
    BY DEF CleanMatchesFile, BlocksOf, blocks
  <2>1. b \in BlocksOf(cache[s].track) /\ cache'[s].data = cache[s].data
    BY <1>1
  <2>2. CASE s \in K
    BY <2>1, <2>2
  <2>3. CASE s \notin K
    <3>1. b \notin cache[s].modified
      BY <1>1, <2>3
    <3>2. QED
      BY <2>1, <2>3, <3>1 DEF IInv, Coherent, CleanMatchesFile
  <2>4. QED
    BY <2>2, <2>3
<1>5. QED
  BY <1>2, <1>3, <1>4 DEF IInv, Coherent

\* Writing modified sectors of some slots brings these sectors up to date and
\* leaves the others alone.
LEMMA WrittenFile ==
  ASSUME IInv, NEW R \in SUBSET Slot, NEW S \in SUBSET ModifiedIn(R)
  PROVE  /\ Written(R, S) \in [Block -> Value]
         /\ \A b \in Block \ S : Written(R, S)[b] = file[b]
         /\ \A b \in S : \A s \in Slot : b \in BlocksOf(cache[s].track) =>
              Written(R, S)[b] = cache[s].data[b]
<1>1. ASSUME NEW b \in S
      PROVE  \E s \in R : /\ b \in BlocksOf(cache[s].track) /\ b \in Block
                          /\ Written(R, S)[b] = cache[s].data[b]
                          /\ cache[s].data[b] \in Value
  <2> DEFINE s == CHOOSE r \in R : b \in cache[r].modified
  <2>1. s \in R /\ b \in cache[s].modified
    BY DEF ModifiedIn
  <2>2. b \in BlocksOf(cache[s].track) /\ b \in Block
    BY <2>1, ModifiedInTrack DEF IInv, TypeOK, BlocksOf
  <2>3. Written(R, S)[b] = cache[s].data[b]
    BY <2>2 DEF Written
  <2> HIDE DEF s
  <2>4. cache[s].data[b] \in Value
    BY <2>1, <2>2 DEF IInv, TypeOK, SlotOK, EmptySlot, Data
  <2>5. QED
    BY <2>1, <2>2, <2>3, <2>4
<1>2. \A b \in Block \ S : Written(R, S)[b] = file[b]
  BY DEF Written
<1>3. \A b \in Block : Written(R, S)[b] \in Value
  BY <1>1, <1>2 DEF IInv, TypeOK
<1>4. Written(R, S) = [b \in Block |-> Written(R, S)[b]]
  BY DEF Written
<1>5. ASSUME NEW b \in S, NEW s \in Slot, b \in BlocksOf(cache[s].track)
      PROVE  Written(R, S)[b] = cache[s].data[b]
  BY <1>1, <1>5, SlotsDisjoint DEF IInv, Coherent
<1> HIDE DEF Written
<1>6. Written(R, S) \in [Block -> Value]
  BY <1>3, <1>4
<1>7. QED
  BY <1>2, <1>5, <1>6

\* What is lost when slots are saved are sectors of the drive.
LEMMA LossesInBlock ==
  ASSUME IInv, NEW R \in SUBSET Slot, NEW L \in Losses(R)
  PROVE  L \subseteq Block /\ ModifiedIn(R) \subseteq Block
BY ModifiedInTrack DEF Losses, ModifiedIn, IInv, TypeOK, BlocksOf

\* A sector of a slot is modified in no other one.
LEMMA InModified ==
  ASSUME IInv, NEW R \in SUBSET Slot, NEW s \in Slot, NEW b \in BlocksOf(cache[s].track),
         b \in ModifiedIn(R)
  PROVE  b \in cache[s].modified
<1>1. PICK r \in R : b \in cache[r].modified
  BY DEF ModifiedIn
<1>2. b \in BlocksOf(cache[r].track)
  BY <1>1, ModifiedInTrack DEF IInv, TypeOK
<1>3. QED
  BY <1>1, <1>2, SlotsDisjoint DEF IInv, Coherent

\* A sector that is written, or was up to date, is up to date.
LEMMA WrittenCatchesUp ==
  ASSUME IInv, NEW R \in SUBSET Slot, NEW S \in SUBSET ModifiedIn(R),
         NEW s \in Slot, NEW b \in BlocksOf(cache[s].track),
         b \in S \/ b \notin cache[s].modified \cup lost
  PROVE  Written(R, S)[b] = cache[s].data[b]
<1>1. b \in Block
  BY DEF BlocksOf
<1>2. CASE b \in S
  BY <1>1, <1>2, WrittenFile
<1>3. CASE b \notin S
  <2>1. Written(R, S)[b] = file[b]
    BY <1>1, <1>3, WrittenFile
  <2>2. QED
    BY <1>3, <2>1 DEF IInv, Coherent, CleanMatchesFile
<1>4. QED
  BY <1>2, <1>3

\* So does a flush of all tracks.
LEMMA FlushKeeps ==
  ASSUME IInv, Flush
  PROVE  IInv'
<1>1. PICK L \in Losses(Slot) : /\ file' = Written(Slot, ModifiedIn(Slot) \ L)
                               /\ lost' = lost \cup L
  BY DEF Flush
<1> DEFINE S == ModifiedIn(Slot) \ L
           f == Written(Slot, S)
<1>2. L \subseteq Block
  BY LossesInBlock
<1>3. f \in [Block -> Value] /\ file' = f
  BY <1>1, WrittenFile
<1>4. \A s \in Slot : \A b \in BlocksOf(cache[s].track) : b \in lost' \/ f[b] = cache[s].data[b]
  <2> SUFFICES ASSUME NEW s \in Slot, NEW b \in BlocksOf(cache[s].track), b \notin lost'
               PROVE  f[b] = cache[s].data[b]
    OBVIOUS
  <2>1. b \in S \/ b \notin cache[s].modified \cup lost
    BY <1>1 DEF ModifiedIn
  <2>2. S \in SUBSET ModifiedIn(Slot) /\ Slot \in SUBSET Slot
    OBVIOUS
  <2> HIDE DEF S
  <2>3. QED
    BY <2>1, <2>2, WrittenCatchesUp
<1>5. cache' = [s \in Slot |-> IF s \in Slot THEN Clean(cache[s]) ELSE cache[s]]
  BY DEF Flush
<1>6. UNCHANGED <<serial, younger>> /\ reply' \in Reply /\ ioError' \in BOOLEAN
  BY OtherReplies DEF Flush
<1>7. lost \subseteq lost' /\ lost' \subseteq Block
  BY <1>1, <1>2 DEF IInv, TypeOK
<1> HIDE DEF f
<1>8. QED
  BY <1>3, <1>4, <1>5, <1>6, <1>7, SlotsCleaned

\* So does a flush that fails at some track.
LEMMA FlushFailsKeeps ==
  ASSUME IInv, FlushFails
  PROVE  IInv'
<1> DEFINE Tried(s, S, L) ==
      /\ file' = Written(1..s, (ModifiedIn(1..(s - 1)) \ L) \cup S)
      /\ cache' = [r \in Slot |-> IF r < s THEN Clean(cache[r]) ELSE cache[r]]
      /\ lost' = lost \cup L
<1>1. PICK s \in Slot : \E S \in Prefixes(cache[s].modified), L \in Losses(1..(s - 1)) :
        Tried(s, S, L)
  BY DEF FlushFails
<1>2. PICK S \in Prefixes(cache[s].modified), L \in Losses(1..(s - 1)) : Tried(s, S, L)
  BY <1>1
<1> DEFINE R == 1..s
           K == 1..(s - 1)
           T == (ModifiedIn(K) \ L) \cup S
           f == Written(R, T)
<1>3. /\ K \in SUBSET R /\ R \in SUBSET Slot /\ s \in R
      /\ \A r \in Slot : r \in K <=> r < s
  BY SizesAssumption DEF Slot
<1>4. S \subseteq cache[s].modified
  BY DEF Prefixes
<1>5. T \in SUBSET ModifiedIn(R)
  BY <1>3, <1>4 DEF ModifiedIn
<1>6. L \subseteq Block
  BY <1>3, LossesInBlock
<1>7. file' = f /\ lost' = lost \cup L
  BY <1>2
<1>8. cache' = [r \in Slot |-> IF r \in K THEN Clean(cache[r]) ELSE cache[r]]
  BY <1>2, <1>3
<1>9. f \in [Block -> Value]
  BY <1>3, <1>5, WrittenFile
<1> HIDE DEF R, K
<1>10. ASSUME NEW r \in K, NEW b \in BlocksOf(cache[r].track), b \notin lost'
       PROVE  f[b] = cache[r].data[b]
  <2>1. r \in Slot /\ (b \in T \/ b \notin cache[r].modified \cup lost)
    BY <1>3, <1>7, <1>10 DEF ModifiedIn
  <2> HIDE DEF T
  <2>2. R \in SUBSET Slot /\ T \in SUBSET ModifiedIn(R)
    BY <1>3, <1>5
  <2>3. QED
    BY <2>1, <2>2, WrittenCatchesUp
<1>11. ASSUME NEW r \in Slot, NEW b \in BlocksOf(cache[r].track) \ cache[r].modified
       PROVE  f[b] = file[b]
  <2> HIDE DEF T
  <2>1. b \in Block /\ b \notin T
    BY <1>3, <1>5, InModified DEF BlocksOf
  <2>2. QED
    BY <1>3, <1>5, <2>1, WrittenFile
<1>12. UNCHANGED <<serial, younger>> /\ reply' \in Reply /\ ioError' \in BOOLEAN
  BY OtherReplies DEF FlushFails
<1>13. lost \subseteq lost' /\ lost' \subseteq Block
  BY <1>6, <1>7 DEF IInv, TypeOK
<1>14. K \in SUBSET Slot
  BY <1>3
<1> HIDE DEF f
<1>15. QED
  BY <1>7, <1>8, <1>9, <1>10, <1>11, <1>12, <1>13, <1>14, SlotsCleaned

\* An empty slot is a well-formed one.
LEMMA FreshSlot == EmptySlot(0).track = NoTrack /\ SlotOK(EmptySlot(0))
BY SizesAssumption DEF SlotOK, EmptySlot

\* The invariant holds with an empty cache.
LEMMA InitInv == Init => IInv
<1> SUFFICES ASSUME Init PROVE IInv
  OBVIOUS
<1>1. \A s \in Slot : /\ cache[s] = EmptySlot(0)
                     /\ cache[s].track = NoTrack
                     /\ SlotOK(cache[s])
  BY FreshSlot DEF Init
<1>2. BlocksOf(NoTrack) = {}
  BY TrackOfBlock, TrackIsNat DEF BlocksOf
<1>3. TypeOK
  <2>1. serial \in 0..(SerialMod - 1)
    BY SizesAssumption DEF Init
  <2>2. reply \in Reply
    BY OtherReplies DEF Init
  <2>3. QED
    BY <1>1, <2>1, <2>2 DEF Init, TypeOK
<1>4. Coherent
  BY <1>1, <1>2 DEF Coherent, OneCopy, CleanMatchesFile
<1>5. QED
  BY <1>3, <1>4 DEF IInv

\* A crash loses the cache, but not the invariant.
LEMMA CrashKeeps ==
  ASSUME IInv, Crash
  PROVE  IInv'
<1>1. \A s \in Slot : /\ cache'[s] = EmptySlot(0)
                     /\ cache'[s].track = NoTrack
                     /\ SlotOK(cache'[s])
  BY FreshSlot DEF Crash
<1>2. BlocksOf(NoTrack) = {}
  BY TrackOfBlock, TrackIsNat DEF BlocksOf
<1>3. TypeOK'
  <2>1. serial' \in 0..(SerialMod - 1)
    BY SizesAssumption DEF Crash
  <2>2. reply' \in Reply
    BY OtherReplies DEF Crash
  <2>3. QED
    BY <1>1, <2>1, <2>2 DEF IInv, Crash, TypeOK, Block
<1>4. Coherent'
  BY <1>1, <1>2 DEF Coherent, OneCopy, CleanMatchesFile, BlocksOf, blocks
<1>5. QED
  BY <1>3, <1>4 DEF IInv

\* The invariant is inductive.
LEMMA StepKeeps == IInv /\ [Next]_vars => IInv'
<1> SUFFICES ASSUME IInv, [Next]_vars PROVE IInv'
  OBVIOUS
<1>1. ASSUME NEW req \in Request, Access(req)
      PROVE  IInv'
  BY <1>1, HitKeeps, FillKeeps, FillFailsKeeps, EvictKeeps, EvictLoadFailsKeeps,
     EvictSaveFailsKeeps DEF Access
<1>2. CASE Flush
  BY <1>2, FlushKeeps
<1>3. CASE FlushFails
  BY <1>3, FlushFailsKeeps
<1>4. CASE Crash
  BY <1>4, CrashKeeps
<1>5. CASE UNCHANGED vars
  BY <1>5 DEF vars, IInv, TypeOK, SlotOK, Reply, Coherent, OneCopy, CleanMatchesFile,
              BlocksOf, blocks, Slot, Block
<1>6. QED
  BY <1>1, <1>2, <1>3, <1>4, <1>5 DEF Next

-------------------------------------------------------------------------------
\* The members of DiskCache and of its tracks keep their types, for every size
\* of drive, track and cache.
THEOREM TypeCorrect == Spec => []TypeOK
BY InitInv, StepKeeps, PTL DEF Spec, IInv

\* No track is ever cached twice and an unmarked sector is always what the image
\* file holds, so that Save() and WriteSector() may skip it, unless the last save of
\* the sector failed unnoticed.
THEOREM CacheCoherent == Spec => []Coherent
BY InitInv, StepKeeps, PTL DEF Spec, IInv

-------------------------------------------------------------------------------
(* The track used least recently is the one to go. *)

\* No slot is younger than the counter, and a slot used after another one has the
\* higher number.
SerialsOrdered ==
  /\ \A s \in Slot : cache[s].serial <= serial
  /\ \A r, s \in Slot : <<r, s>> \in younger => cache[s].serial < cache[r].serial

\* What UpdateSerial() leaves: numbers below the new one, or all cleared.
LEMMA AgedSerials ==
  ASSUME TypeOK, \A s \in Slot : cache[s].serial <= serial
  PROVE  /\ NextSerial \in Nat
         /\ \A s \in Slot : Aged[s].serial \in Nat /\ Aged[s].serial <= NextSerial
         /\ NextSerial # 0 => Aged = cache /\ NextSerial = serial + 1
<1>1. /\ serial \in 0..(SerialMod - 1) /\ SerialMod \in Nat \ {0}
      /\ \A s \in Slot : cache[s].serial \in Nat
  BY SizesAssumption DEF TypeOK, SlotOK
<1>2. NextSerial \in Nat /\ (NextSerial # 0 => NextSerial = serial + 1)
  BY <1>1 DEF NextSerial
<1>3. CASE NextSerial = 0
  <2>1. ASSUME NEW s \in Slot
        PROVE  Aged[s].serial = 0
    <3>1. Aged[s] = [cache[s] EXCEPT !.serial = 0] /\ SlotOK(cache[s])
      BY <1>3 DEF Aged, TypeOK
    <3>2. QED
      BY <3>1 DEF SlotOK, EmptySlot
  <2>2. QED
    BY <1>3, <2>1
<1>4. CASE NextSerial # 0
  <2>1. Aged = cache /\ NextSerial = serial + 1 /\ serial \in Nat
    BY <1>1, <1>2, <1>4 DEF Aged
  <2>2. QED
    BY <1>1, <1>2, <1>4, <2>1
<1>5. QED
  BY <1>3, <1>4

\* A request does not touch the serial number of a slot record.
LEMMA AppliedSerial ==
  ASSUME NEW req \in Request, NEW c, SlotOK(c), c.track # NoTrack
  PROVE  Applied(req, c).serial = c.serial
BY DEF Applied, SlotOK, EmptySlot

\* The slot of a request has the new number, the others are older.
LEMMA RequestOrders ==
  ASSUME IInv, SerialsOrdered, NEW req \in Request, NEW s \in Slot, NEW c,
         SlotOK(c), c.track = TrackOf(req.block), c.serial = NextSerial,
         cache' = [Aged EXCEPT ![s] = Applied(req, c)],
         serial' = NextSerial, younger' = UsedSlot(s)
  PROVE  SerialsOrdered'
<1>1. c.track # NoTrack
  BY TrackOfBlock, TrackIsNat DEF Request
<1>2. /\ NextSerial \in Nat
      /\ \A r \in Slot : Aged[r].serial \in Nat /\ Aged[r].serial <= NextSerial
      /\ NextSerial # 0 => Aged = cache /\ NextSerial = serial + 1
  BY AgedSerials DEF IInv, SerialsOrdered
<1>3. DOMAIN Aged = Slot
  BY AgedSlots DEF IInv, TypeOK, CacheOK
<1>4. /\ cache'[s].serial = NextSerial
      /\ \A r \in Slot \ {s} : cache'[r] = Aged[r]
  BY <1>1, <1>3, AppliedSerial
<1>5. \A r \in Slot : cache'[r].serial <= serial'
  BY <1>2, <1>4
<1>6. ASSUME NEW q \in Slot, NEW r \in Slot, <<q, r>> \in younger'
      PROVE  cache'[r].serial < cache'[q].serial
  <2>1. NextSerial # 0
    BY <1>6 DEF UsedSlot
  <2>2. CASE q = s /\ r # s
    <3>1. cache'[q].serial = serial + 1 /\ cache'[r].serial = cache[r].serial
      BY <1>2, <1>4, <2>1, <2>2
    <3>2. cache[r].serial <= serial /\ cache[r].serial \in Nat /\ serial \in Nat
      BY <1>2, <2>1 DEF SerialsOrdered, IInv, TypeOK
    <3>3. QED
      BY <3>1, <3>2
  <2>3. CASE <<q, r>> \in younger /\ r # s /\ q # s
    BY <1>2, <1>4, <2>1, <2>3 DEF SerialsOrdered
  <2>4. QED
    BY <1>6, <2>1, <2>2, <2>3 DEF UsedSlot
<1>7. QED
  BY <1>5, <1>6 DEF SerialsOrdered, Slot

\* A failed request leaves numbers that are not above the counter, and the order.
LEMMA FailureOrders ==
  ASSUME IInv, SerialsOrdered, serial' = NextSerial, younger' = UsedNone,
         \A r \in Slot : cache'[r].serial = Aged[r].serial
  PROVE  SerialsOrdered'
<1>1. /\ \A r \in Slot : Aged[r].serial <= NextSerial
      /\ NextSerial # 0 => Aged = cache
  BY AgedSerials DEF IInv, SerialsOrdered
<1>2. \A q, r \in Slot : <<q, r>> \in younger' => NextSerial # 0 /\ <<q, r>> \in younger
  BY DEF UsedNone
<1>3. \A q, r \in Slot : <<q, r>> \in younger' => cache'[r].serial < cache'[q].serial
  BY <1>1, <1>2 DEF SerialsOrdered
<1>4. QED
  BY <1>1, <1>3 DEF SerialsOrdered, Slot

\* A request that loads its track, from the file f.
LEMMA LoadOrders ==
  ASSUME IInv, SerialsOrdered, NEW req \in Request, NEW s \in Slot, NEW f \in [Block -> Value],
         cache' = [Aged EXCEPT ![s] = Applied(req, Loaded(TrackOf(req.block), f))],
         serial' = NextSerial, younger' = UsedSlot(s)
  PROVE  SerialsOrdered'
<1> DEFINE c == Loaded(TrackOf(req.block), f)
<1>1. SlotOK(c) /\ c.track = TrackOf(req.block) /\ c.serial = NextSerial
  BY TrackOfBlock, LoadedSlot DEF IInv, TypeOK, Request, Loaded
<1>2. cache' = [Aged EXCEPT ![s] = Applied(req, c)]
  OBVIOUS
<1> HIDE DEF c
<1>3. QED
  BY <1>1, <1>2, RequestOrders

\* A hit gives its track the latest serial number.
LEMMA HitOrders ==
  ASSUME IInv, SerialsOrdered, NEW req \in Request, Hit(req)
  PROVE  SerialsOrdered'
<1>1. PICK s \in Holding(TrackOf(req.block)) :
        LET c == [cache[s] EXCEPT !.serial = NextSerial] IN
        /\ cache' = [Aged EXCEPT ![s] = Applied(req, c)]
        /\ younger' = UsedSlot(s)
  BY DEF Hit
<1> DEFINE c == [cache[s] EXCEPT !.serial = NextSerial]
<1>2. s \in Slot /\ cache[s].track = TrackOf(req.block) /\ SlotOK(cache[s])
  BY DEF Holding, IInv, TypeOK
<1>3. cache[s].track \in Track /\ cache[s].track # NoTrack
  BY <1>2, TrackOfBlock, TrackIsNat DEF Request
<1>4. SlotOK(c) /\ c.track = TrackOf(req.block) /\ c.serial = NextSerial
  BY <1>2, <1>3, NextSerialRange DEF IInv, TypeOK, SlotOK, EmptySlot
<1>5. /\ cache' = [Aged EXCEPT ![s] = Applied(req, c)]
      /\ serial' = NextSerial /\ younger' = UsedSlot(s)
  BY <1>1 DEF Hit
<1> HIDE DEF c
<1>6. QED
  BY <1>2, <1>4, <1>5, RequestOrders

\* So does every other access.
LEMMA AccessOrders ==
  ASSUME IInv, SerialsOrdered, NEW req \in Request, Access(req)
  PROVE  SerialsOrdered'
<1>1. file \in [Block -> Value] /\ DOMAIN Aged = Slot
  BY AgedSlots DEF IInv, TypeOK, CacheOK
<1>2. CASE Hit(req)
  BY <1>2, HitOrders
<1>3. CASE Fill(req)
  BY <1>1, <1>3, LoadOrders DEF Fill, Free
<1>4. CASE FillFails(req)
  BY <1>4, FailureOrders DEF FillFails
<1>5. CASE Evict(req)
  <2> DEFINE New(s, L) ==
        /\ cache' = [Aged EXCEPT ![s] =
                       Applied(req, Loaded(TrackOf(req.block), Saved(cache[s], L)))]
        /\ younger' = UsedSlot(s)
  <2>1. PICK s \in Slot : \E L \in Tails(cache[s].modified) : New(s, L)
    BY <1>5 DEF Evict
  <2>2. PICK L \in Tails(cache[s].modified) : New(s, L)
    BY <2>1
  <2>3. Saved(cache[s], L) \in [Block -> Value]
    BY SavedVictim
  <2>4. serial' = NextSerial
    BY <1>5 DEF Evict
  <2>5. QED
    BY <2>2, <2>3, <2>4, LoadOrders
<1>6. CASE EvictLoadFails(req)
  <2>1. PICK s \in Slot : cache' = [Aged EXCEPT ![s] = EmptySlot(Aged[s].serial)]
    BY <1>6 DEF EvictLoadFails
  <2>2. \A r \in Slot : cache'[r].serial = Aged[r].serial
    BY <1>1, <2>1 DEF EmptySlot
  <2>3. QED
    BY <1>6, <2>2, FailureOrders DEF EvictLoadFails
<1>7. CASE EvictSaveFails(req)
  BY <1>7, FailureOrders DEF EvictSaveFails
<1>8. QED
  BY <1>2, <1>3, <1>4, <1>5, <1>6, <1>7 DEF Access

\* Saving a track does not change its serial number.
LEMMA CleanSerial ==
  ASSUME NEW c, SlotOK(c)
  PROVE  Clean(c).serial = c.serial
BY DEF Clean, SlotOK, EmptySlot

\* Every step keeps the serial numbers in the order of the accesses.
LEMMA StepOrders == IInv /\ SerialsOrdered /\ [Next]_vars => SerialsOrdered'
<1> SUFFICES ASSUME IInv, SerialsOrdered, [Next]_vars PROVE SerialsOrdered'
  OBVIOUS
<1>0. \A s \in Slot : SlotOK(cache[s])
  BY DEF IInv, TypeOK
<1>1. CASE \E req \in Request : Access(req)
  BY <1>1, AccessOrders
<1>2. CASE Flush
  <2>1. ASSUME NEW s \in Slot
        PROVE  cache'[s].serial = cache[s].serial
    <3>1. cache'[s] = Clean(cache[s]) /\ SlotOK(cache[s])
      BY <1>0, <1>2 DEF Flush
    <3>2. QED
      BY <3>1, CleanSerial
  <2>2. QED
    BY <1>2, <2>1 DEF Flush, SerialsOrdered, Slot
<1>3. CASE FlushFails
  <2>1. PICK s \in Slot : cache' = [r \in Slot |-> IF r < s THEN Clean(cache[r]) ELSE cache[r]]
    BY <1>3 DEF FlushFails
  <2>2. \A r \in Slot : cache'[r].serial = cache[r].serial
    BY <1>0, <2>1, CleanSerial
  <2>3. QED
    BY <1>3, <2>2 DEF FlushFails, SerialsOrdered, Slot
<1>4. CASE Crash
  BY <1>4 DEF Crash, EmptySlot, SerialsOrdered, Slot
<1>5. CASE UNCHANGED vars
  BY <1>5 DEF vars, SerialsOrdered, Slot
<1>6. QED
  BY <1>1, <1>2, <1>3, <1>4, <1>5 DEF Next

\* But for a crash only a request that needs a slot takes a track out of one.
LEMMA EvictsVictim ==
  ASSUME IInv, [Next]_vars, NEW s \in Slot, cache[s].track # NoTrack,
         cache'[s].track # cache[s].track, reply' # Silent
  PROVE  IsVictim(s) /\ serial' = NextSerial
<1>0. DOMAIN Aged = Slot /\ Aged[s].track = cache[s].track
  BY AgedSlots DEF IInv, TypeOK, CacheOK
<1>1. ASSUME NEW req \in Request, Hit(req)
      PROVE  FALSE
  <2>1. PICK r \in Holding(TrackOf(req.block)) :
          cache' = [Aged EXCEPT ![r] = Applied(req, [cache[r] EXCEPT !.serial = NextSerial])]
    BY <1>1 DEF Hit
  <2> DEFINE c == [cache[r] EXCEPT !.serial = NextSerial]
  <2>2. r \in Slot /\ cache[r].track = TrackOf(req.block) /\ SlotOK(cache[r])
    BY DEF Holding, IInv, TypeOK
  <2>3. cache[r].track # NoTrack
    BY <2>2, TrackOfBlock, TrackIsNat DEF Request
  <2>4. SlotOK(c) /\ c.track = cache[r].track
    BY <2>2, <2>3, NextSerialRange DEF IInv, TypeOK, SlotOK, EmptySlot
  <2>5. cache' = [Aged EXCEPT ![r] = Applied(req, c)]
    BY <2>1
  <2> HIDE DEF c
  <2>6. Applied(req, c).track = cache[r].track
    BY <2>2, <2>4, AppliedSlot
  <2>7. cache'[s].track = cache[s].track
    BY <1>0, <2>2, <2>5, <2>6
  <2>8. QED
    BY <2>7
<1>2. ASSUME NEW req \in Request, Fill(req)
      PROVE  FALSE
  BY <1>0, <1>2 DEF Fill, Free
<1>3. ASSUME NEW req \in Request, FillFails(req) \/ EvictSaveFails(req)
      PROVE  FALSE
  BY <1>0, <1>3 DEF FillFails, EvictSaveFails
<1>4. ASSUME NEW req \in Request, Evict(req)
      PROVE  IsVictim(s) /\ serial' = NextSerial
  BY <1>0, <1>4 DEF Evict
<1>5. ASSUME NEW req \in Request, EvictLoadFails(req)
      PROVE  IsVictim(s) /\ serial' = NextSerial
  BY <1>0, <1>5 DEF EvictLoadFails
<1>6. CASE Flush
  BY <1>6, CleanSlot DEF Flush, IInv, TypeOK
<1>7. CASE FlushFails
  <2>1. PICK r \in Slot : cache' = [q \in Slot |-> IF q < r THEN Clean(cache[q]) ELSE cache[q]]
    BY <1>7 DEF FlushFails
  <2>2. QED
    BY <2>1, CleanSlot DEF IInv, TypeOK
<1>8. CASE Crash
  BY <1>8 DEF Crash
<1>9. CASE UNCHANGED vars
  BY <1>9 DEF vars
<1>10. QED
  BY <1>1, <1>2, <1>3, <1>4, <1>5, <1>6, <1>7, <1>8, <1>9 DEF Next, Access

\* No slot was used before the victim.
LEMMA VictimIsColdest ==
  ASSUME IInv, SerialsOrdered, NEW r \in Slot, NEW s \in Slot, IsVictim(s), NextSerial # 0
  PROVE  <<s, r>> \notin younger
<1>1. Aged = cache
  BY DEF Aged
<1>2. cache[s].serial <= cache[r].serial
  BY <1>1 DEF IsVictim, IsFirst
<1>3. cache[s].serial \in Nat /\ cache[r].serial \in Nat
  BY SizesAssumption DEF IInv, TypeOK, SlotOK
<1>4. QED
  BY <1>2, <1>3 DEF SerialsOrdered

\* An empty cache has no serial numbers.
LEMMA InitOrders == Init => SerialsOrdered
BY DEF Init, SerialsOrdered, EmptySlot

\* The track a miss throws out was used before every other one that is cached, for
\* every number of slots and also after the counter has wrapped, but for the request
\* that meets the wrap.
THEOREM EvictsColderTrack == Spec => EvictsColder
<1>1. IInv /\ SerialsOrdered /\ [Next]_vars => IInv' /\ SerialsOrdered'
  BY StepKeeps, StepOrders
<1>2. IInv /\ SerialsOrdered /\ [Next]_vars => [\A r, s \in Slot :
        /\ cache[s].track # NoTrack
        /\ cache'[s].track # cache[s].track
        /\ reply' # Silent
        /\ serial' # 0
        => <<s, r>> \notin younger]_vars
  BY EvictsVictim, VictimIsColdest
<1>3. QED
  BY <1>1, <1>2, InitInv, InitOrders, PTL DEF Spec, EvictsColder

\* A request for a block of the drive fails only if a file operation does, on a drive whose
\* number of sectors fits into the int the cache keeps it in.
THEOREM ErrorsAreReal ==
  ASSUME NBlocks < IntLimit
  PROVE  Spec => []NoSpuriousError
<1>1. Init => NoSpuriousError
  BY DEF Init, NoSpuriousError, Silent
<1>2. NoSpuriousError /\ [Next]_vars => NoSpuriousError'
  <2> SUFFICES ASSUME NoSpuriousError, [Next]_vars PROVE NoSpuriousError'
    OBVIOUS
  <2>1. \A b \in Block : InTrack(b) /\ BlocksOf(TrackOf(b)) # {}
    BY SizesAssumption DEF Block, BlocksOf, InTrack, blocks
  <2>2. ASSUME NEW req \in Request, Access(req)
        PROVE  NoSpuriousError'
    <3>1. InTrack(req.block) /\ BlocksOf(TrackOf(req.block)) # {}
      BY <2>1 DEF Request
    <3>2. \A c : Outcome(req, c).ok
      BY <3>1 DEF Outcome, Answer
    <3>3. CASE Hit(req) \/ Fill(req) \/ Evict(req)
      BY <3>2, <3>3 DEF Hit, Fill, Evict, NoSpuriousError
    <3>4. CASE FillFails(req) \/ EvictLoadFails(req) \/ EvictSaveFails(req)
      BY <3>1, <3>4 DEF FillFails, EvictLoadFails, EvictSaveFails, NoSpuriousError
    <3>5. QED
      BY <2>2, <3>3, <3>4 DEF Access
  <2>3. CASE Flush \/ FlushFails \/ Crash
    <3>1. \E good \in BOOLEAN : reply' \in {FlushAnswer(good), Silent}
      BY <2>3 DEF Flush, FlushFails, Crash
    <3>2. reply'.op \notin {"read", "write"}
      BY <3>1 DEF FlushAnswer, Silent
    <3>3. QED
      BY <3>2 DEF NoSpuriousError
  <2>4. CASE UNCHANGED vars
    BY <2>4 DEF vars, NoSpuriousError
  <2>5. QED
    BY <2>2, <2>3, <2>4 DEF Next
<1>3. QED
  BY <1>1, <1>2, PTL DEF Spec

-------------------------------------------------------------------------------
\* The contents a host may rely on.

\* Content for any cache k and any file f: the copy of a sector, else the file.
ContentOf(k, f) == [b \in Block |->
  IF \E s \in Slot : b \in BlocksOf(k[s].track)
    THEN k[CHOOSE s \in Slot : b \in BlocksOf(k[s].track)].data[b]
    ELSE f[b]]

SingleCopies(k) == \A r, s \in Slot :
  k[r].track = k[s].track /\ k[r].track # NoTrack => r = s

\* Content and the coherence of this state and of the next one in these terms.
LEMMA InTerms ==
  /\ Content = ContentOf(cache, file)
  /\ Content' = ContentOf(cache', file')
  /\ IInv => SingleCopies(cache)
  /\ IInv' => SingleCopies(cache')
BY DEF Content, ContentOf, IInv, Coherent, OneCopy, SingleCopies, BlocksOf, blocks

\* The contents are a value for every block.
LEMMA ContentOfType ==
  ASSUME NEW k, NEW f \in [Block -> Value], \A s \in Slot : SlotOK(k[s])
  PROVE  ContentOf(k, f) \in [Block -> Value]
<1>1. ASSUME NEW b \in Block
      PROVE  ContentOf(k, f)[b] \in Value
  <2>1. CASE \E s \in Slot : b \in BlocksOf(k[s].track)
    <3> DEFINE s == CHOOSE r \in Slot : b \in BlocksOf(k[r].track)
    <3>1. s \in Slot /\ b \in BlocksOf(k[s].track)
      BY <2>1
    <3>2. ContentOf(k, f)[b] = k[s].data[b]
      BY <2>1 DEF ContentOf
    <3> HIDE DEF s
    <3>3. k[s].track \in Track /\ k[s].track # NoTrack
      BY <3>1, TrackOfBlock, TrackIsNat DEF BlocksOf
    <3>4. k[s].data \in Data(k[s].track)
      <4>1. SlotOK(k[s])
        BY <3>1
      <4>2. k[s] # EmptySlot(k[s].serial)
        BY <3>3 DEF EmptySlot
      <4>3. QED
        BY <4>1, <4>2 DEF SlotOK
    <3>5. QED
      BY <3>1, <3>2, <3>4 DEF Data
  <2>2. CASE ~ \E s \in Slot : b \in BlocksOf(k[s].track)
    BY <2>2 DEF ContentOf
  <2>3. QED
    BY <2>1, <2>2
<1>2. ContentOf(k, f) = [b \in Block |-> ContentOf(k, f)[b]]
  BY DEF ContentOf
<1>3. QED
  BY <1>1, <1>2

LEMMA ContentType ==
  /\ IInv => Content \in [Block -> Value]
  /\ IInv' => Content' \in [Block -> Value]
<1>1. IInv => Content \in [Block -> Value]
  BY InTerms, ContentOfType DEF IInv, TypeOK
<1>2. ASSUME IInv' PROVE Content' \in [Block -> Value]
  <2>1. file' \in [Block -> Value] /\ \A s \in Slot : SlotOK(cache'[s])
    BY <1>2 DEF IInv, TypeOK, Block, Slot, SlotOK
  <2>2. QED
    BY <2>1, InTerms, ContentOfType
<1>3. QED
  BY <1>1, <1>2

\* A sector in a slot is what the slot holds.
LEMMA Cached ==
  ASSUME NEW k, NEW f, SingleCopies(k),
         NEW s \in Slot, NEW b \in BlocksOf(k[s].track)
  PROVE  ContentOf(k, f)[b] = k[s].data[b]
<1>1. b \in Block /\ TrackOf(b) = k[s].track /\ k[s].track # NoTrack
  BY TrackOfBlock, TrackIsNat DEF BlocksOf
<1>2. \A r \in Slot : b \in BlocksOf(k[r].track) => r = s
  BY <1>1 DEF BlocksOf, SingleCopies
<1>3. (CHOOSE r \in Slot : b \in BlocksOf(k[r].track)) = s
  BY <1>2
<1>4. QED
  BY <1>1, <1>3 DEF ContentOf

\* A sector in no slot is what the file holds.
LEMMA NotCached ==
  ASSUME NEW k, NEW f, NEW b \in Block, \A s \in Slot : b \notin BlocksOf(k[s].track)
  PROVE  ContentOf(k, f)[b] = f[b]
BY DEF ContentOf

\* In a coherent cache a sector that is nowhere marked is what the file holds, if its
\* last save was not lost.
LEMMA NotModified ==
  ASSUME IInv, NEW b \in Block \ lost, \A s \in Slot : b \notin cache[s].modified
  PROVE  Content[b] = file[b]
<1>1. CASE \E s \in Slot : b \in BlocksOf(cache[s].track)
  <2>1. PICK s \in Slot : b \in BlocksOf(cache[s].track)
    BY <1>1
  <2>2. Content[b] = cache[s].data[b]
    BY <2>1, InTerms, Cached
  <2>3. QED
    BY <2>1, <2>2 DEF IInv, Coherent, CleanMatchesFile
<1>2. CASE \A s \in Slot : b \notin BlocksOf(cache[s].track)
  BY <1>2, InTerms, NotCached
<1>3. QED
  BY <1>1, <1>2

\* A marked sector is what its slot holds.
LEMMA Modified ==
  ASSUME IInv, NEW s \in Slot, NEW b \in cache[s].modified
  PROVE  b \in Block /\ b \in BlocksOf(cache[s].track) /\ Content[b] = cache[s].data[b]
<1>1. b \in BlocksOf(cache[s].track)
  BY ModifiedInTrack DEF IInv, TypeOK
<1>2. QED
  BY <1>1, InTerms, Cached DEF BlocksOf

-------------------------------------------------------------------------------
(* Steps of BlockStore. *)

\* What every step of a request has in common.
Lagging ==
  /\ \A b \in Block : file'[b] \in {file[b], Content[b]}
  /\ file' \in [Block -> Value]
  /\ lost' \in SUBSET Block
  /\ Content' \in [Block -> Value]

\* If every sector of the file stays or catches up, this is such a step of the store.
LEMMA Persists ==
  ASSUME Lagging
  PROVE  Store!Persists({}) /\ lost' \in SUBSET Block
BY DEF Lagging, Store!Persists

\* A failed request: nothing changes but the file, which may catch up, and lost
\* sectors, which may fall back to it.
LEMMA FailureRefines ==
  ASSUME NEW req \in Request, Lagging,
         \A b \in Block : Content'[b] = Content[b] \/ (b \in lost' /\ Content'[b] = file'[b]),
         reply' = Failure(req.op, req.block)
  PROVE  Store!Next
<1>1. Store!Persists({}) /\ lost' \in SUBSET Block
  BY Persists
<1>2. Store!Keeps(Content)
  BY DEF Store!Keeps, Lagging
<1>3. CASE req.op = "read"
  <2>1. req.block \in Block
    BY DEF Request
  <2>2. Store!Read(req.block)
    BY <1>1, <1>2, <1>3 DEF Store!Read, Store!Failure, Failure
  <2>3. QED
    BY <2>1, <2>2 DEF Store!Next
<1>4. CASE req.op = "write" /\ req.value \in Value /\ req.block \in Block
  <2>1. ~reply'.ok
    BY DEF Failure
  <2>2. Store!Write(req.block, req.value)
    BY <1>1, <1>2, <1>4, <2>1 DEF Store!Write, Store!Failure, Failure
  <2>3. QED
    BY <1>4, <2>2 DEF Store!Next
<1>5. QED
  BY <1>3, <1>4 DEF Request

\* A request on the slot record d, the track of the request with what the host may
\* rely on; the other slots keep their sectors, and what is in no slot any more is
\* in the file, if it is not lost.
LEMMA RequestRefines ==
  ASSUME IInv, IInv', NEW req \in Request, NEW s \in Slot, NEW d,
         SlotOK(d), d.track = TrackOf(req.block),
         cache'[s] = Applied(req, d),
         \A r \in Slot \ {s} : cache'[r].track = cache[r].track /\ cache'[r].data = cache[r].data,
         \A b \in BlocksOf(d.track) : d.data[b] = Content[b],
         \A b \in Block \ BlocksOf(d.track) :
           (\A r \in Slot \ {s} : b \notin BlocksOf(cache[r].track))
             => b \in lost' \/ file'[b] = Content[b],
         Lagging, reply' = Outcome(req, d)
  PROVE  Store!Next
<1> DEFINE c == Applied(req, d)
           x == req.block
<1>1. x \in Block /\ req.op \in {"read", "write"} /\ (req.op = "write" => req.value \in Value)
  BY DEF Request
<1>2. /\ d.track \in Track
      /\ d.data \in Data(d.track)
  BY <1>1, TrackOfBlock, TrackIsNat DEF SlotOK, EmptySlot
<1>3. c.track = d.track
  BY AppliedSlot
<1>4. InTrack(x) => c.data = IF req.op = "write" THEN [d.data EXCEPT ![x] = req.value] ELSE d.data
  <2>1. CASE req.op = "write" /\ InTrack(x) /\ d.data[x] # req.value
    BY <2>1, <1>2 DEF Applied, SlotOK, EmptySlot
  <2>2. CASE InTrack(x) /\ ~(req.op = "write" /\ d.data[x] # req.value)
    <3>1. c = d
      BY <2>2 DEF Applied
    <3>2. x \in BlocksOf(d.track)
      BY <2>2 DEF InTrack
    <3>3. QED
      BY <1>1, <1>2, <2>2, <3>1, <3>2 DEF Data
  <2>3. QED
    BY <2>1, <2>2
<1>5. ~InTrack(x) => c = d
  BY DEF Applied
<1>6. \A b \in BlocksOf(d.track) : Content'[b] = c.data[b]
  BY <1>3, InTerms, Cached
<1>7. \A b \in Block \ BlocksOf(d.track) :
        Content'[b] = Content[b] \/ (b \in lost' /\ Content'[b] = file'[b])
  <2> SUFFICES ASSUME NEW b \in Block \ BlocksOf(d.track)
               PROVE  Content'[b] = Content[b] \/ (b \in lost' /\ Content'[b] = file'[b])
    OBVIOUS
  <2>1. CASE \E r \in Slot \ {s} : b \in BlocksOf(cache[r].track)
    <3>1. PICK r \in Slot \ {s} : b \in BlocksOf(cache[r].track)
      BY <2>1
    <3>2. b \in BlocksOf(cache'[r].track) /\ cache'[r].data = cache[r].data
      BY <3>1
    <3>3. Content'[b] = cache'[r].data[b]
      BY <3>2, InTerms, Cached
    <3>4. Content[b] = cache[r].data[b]
      BY <3>1, InTerms, Cached
    <3>5. QED
      BY <3>2, <3>3, <3>4
  <2>2. CASE \A r \in Slot \ {s} : b \notin BlocksOf(cache[r].track)
    <3>1. \A r \in Slot : b \notin BlocksOf(cache'[r].track)
      BY <1>3, <2>2
    <3>2. Content'[b] = file'[b]
      BY <3>1, InTerms, NotCached
    <3>3. QED
      BY <2>2, <3>2
  <2>3. QED
    BY <2>1, <2>2
<1>8. InTrack(x) <=> x \in BlocksOf(d.track)
  BY DEF InTrack
<1>9. Store!Persists({}) /\ lost' \in SUBSET Block
  BY Persists
<1>10. Content' \in [Block -> Value]
  BY DEF Lagging
<1> HIDE DEF c, x
<1>11. CASE ~InTrack(x)
  <2>1. \A b \in Block : Content'[b] = Content[b] \/ (b \in lost' /\ Content'[b] = file'[b])
    BY <1>5, <1>6, <1>7, <1>11
  <2>2. reply' = Failure(req.op, req.block)
    BY <1>11 DEF Outcome, x
  <2>3. QED
    BY <2>1, <2>2, FailureRefines
<1>12. CASE InTrack(x) /\ req.op = "read"
  <2>1. \A b \in Block : Content'[b] = Content[b] \/ (b \in lost' /\ Content'[b] = file'[b])
    BY <1>4, <1>6, <1>7, <1>12
  <2>2. Store!Keeps(Content)
    BY <1>10, <2>1 DEF Store!Keeps
  <2>3. reply' = Answer("read", x, Content[x])
    BY <1>4, <1>8, <1>12 DEF Outcome, c, x
  <2>4. Store!Read(x)
    BY <1>9, <2>2, <2>3 DEF Store!Read, Store!Answer, Answer
  <2>5. QED
    BY <1>1, <2>4 DEF Store!Next
<1>13. CASE InTrack(x) /\ req.op = "write"
  <2> DEFINE new == [Content EXCEPT ![x] = req.value]
  <2>1. c.data = [d.data EXCEPT ![x] = req.value] /\ DOMAIN d.data = BlocksOf(d.track)
    BY <1>2, <1>4, <1>13 DEF Data
  <2>2. Content'[x] = req.value
    BY <1>6, <1>8, <1>13, <2>1
  <2>3. \A b \in Block \ {x} : Content'[b] = Content[b] \/ (b \in lost' /\ Content'[b] = file'[b])
    BY <1>6, <1>7, <1>8, <1>13, <2>1
  <2>4. DOMAIN Content = Block
    BY DEF Content
  <2>5. \A b \in Block : new[b] = IF b = x THEN req.value ELSE Content[b]
    BY <2>4
  <2> HIDE DEF new
  <2>6. Store!Keeps(new)
    BY <1>10, <2>2, <2>3, <2>5 DEF Store!Keeps
  <2>7. reply' = Answer("write", x, req.value)
    BY <1>8, <1>13, <2>1 DEF Outcome, c, x
  <2>8. Store!Write(x, req.value)
    BY <1>9, <2>2, <2>6, <2>7 DEF Store!Write, Store!Answer, Answer, new
  <2>9. QED
    BY <1>1, <1>13, <2>8 DEF Store!Next
<1>14. QED
  BY <1>1, <1>11, <1>12, <1>13

-------------------------------------------------------------------------------
(* What the parts of a request do to the file and to the slots. *)

\* Saving sectors of a slot brings them up to date and leaves the others alone.
LEMMA SavedCatchesUp ==
  ASSUME IInv, NEW s \in Slot, NEW S \in SUBSET cache[s].modified
  PROVE  \A b \in Block : PartlySaved(cache[s], S)[b] \in {file[b], Content[b]}
<1> SUFFICES ASSUME NEW b \in Block
             PROVE  PartlySaved(cache[s], S)[b] \in {file[b], Content[b]}
  OBVIOUS
<1>1. CASE b \in S
  BY <1>1, Modified DEF PartlySaved
<1>2. CASE b \notin S
  BY <1>2 DEF PartlySaved
<1>3. QED
  BY <1>1, <1>2

\* Once a slot has been saved, all that is in no other slot is in the file, but for
\* what is lost.
LEMMA SavedIsContent ==
  ASSUME IInv, NEW s \in Slot, NEW L, NEW b \in Block, b \notin lost \cup L,
         \A r \in Slot \ {s} : b \notin BlocksOf(cache[r].track)
  PROVE  Saved(cache[s], L)[b] = Content[b]
<1>1. CASE b \in cache[s].modified
  BY <1>1, Modified DEF Saved, PartlySaved
<1>2. CASE b \notin cache[s].modified
  <2>1. \A r \in Slot : b \notin cache[r].modified
    BY <1>2, Modified
  <2>2. QED
    BY <1>2, <2>1, NotModified DEF Saved, PartlySaved
<1>3. QED
  BY <1>1, <1>2

\* What a save has not lost has caught up.
LEMMA SavedLags ==
  ASSUME IInv, NEW s \in Slot, NEW L
  PROVE  \A b \in Block : Saved(cache[s], L)[b] \in {file[b], Content[b]}
<1> DEFINE S == cache[s].modified \ L
<1>1. S \in SUBSET cache[s].modified
  OBVIOUS
<1>2. Saved(cache[s], L) = PartlySaved(cache[s], S)
  BY DEF Saved
<1> HIDE DEF S
<1>3. \A b \in Block : PartlySaved(cache[s], S)[b] \in {file[b], Content[b]}
  BY <1>1, SavedCatchesUp
<1>4. QED
  BY <1>2, <1>3

\* A sector of a track that is in no slot is in the file.
LEMMA MissedIsFile ==
  ASSUME IInv, NEW t, Holding(t) = {}, NEW b \in BlocksOf(t)
  PROVE  /\ Content[b] = file[b]
         /\ \A r \in Slot : b \notin BlocksOf(cache[r].track)
<1>1. b \in Block /\ \A r \in Slot : b \notin BlocksOf(cache[r].track)
  BY DEF Holding, BlocksOf
<1>2. QED
  BY <1>1, InTerms, NotCached

\* Replacing slot s leaves the sectors of the others as they are.
LEMMA OthersKept ==
  ASSUME IInv, NEW s \in Slot, NEW c, cache' = [Aged EXCEPT ![s] = c]
  PROVE  /\ cache'[s] = c
         /\ \A r \in Slot \ {s} : cache'[r].track = cache[r].track /\ cache'[r].data = cache[r].data
BY AgedSlots DEF IInv, TypeOK, CacheOK

\* Contents that differ in no slot's sectors, nor in the file's others, are equal.
LEMMA SameContent ==
  ASSUME IInv, IInv',
         \A r \in Slot : cache'[r].track = cache[r].track /\ cache'[r].data = cache[r].data,
         \A b \in Block : (\A r \in Slot : b \notin BlocksOf(cache[r].track)) => file'[b] = file[b]
  PROVE  Content' = Content
<1>1. ASSUME NEW b \in Block
      PROVE  Content'[b] = Content[b]
  <2>1. CASE \E r \in Slot : b \in BlocksOf(cache[r].track)
    <3>1. PICK r \in Slot : b \in BlocksOf(cache[r].track)
      BY <2>1
    <3>2. b \in BlocksOf(cache'[r].track) /\ cache'[r].data = cache[r].data
      BY <3>1
    <3>3. Content'[b] = cache'[r].data[b]
      BY <3>2, InTerms, Cached
    <3>4. Content[b] = cache[r].data[b]
      BY <3>1, InTerms, Cached
    <3>5. QED
      BY <3>2, <3>3, <3>4
  <2>2. CASE \A r \in Slot : b \notin BlocksOf(cache[r].track)
    <3>1. Content[b] = file[b]
      BY <2>2, InTerms, NotCached
    <3>2. \A r \in Slot : b \notin BlocksOf(cache'[r].track)
      BY <2>2
    <3>3. Content'[b] = file'[b]
      BY <3>2, InTerms, NotCached
    <3>4. QED
      BY <2>2, <3>1, <3>3
  <2>3. QED
    BY <2>1, <2>2
<1>2. Content = [b \in Block |-> Content[b]] /\ Content' = [b \in Block |-> Content'[b]]
  BY DEF Content
<1>3. QED
  BY <1>1, <1>2

-------------------------------------------------------------------------------
(* The actions. *)

\* A hit is a read or a write of the store.
LEMMA HitRefines ==
  ASSUME IInv, IInv', NEW req \in Request, Hit(req)
  PROVE  Store!Next
<1>1. PICK s \in Holding(TrackOf(req.block)) :
        LET c == [cache[s] EXCEPT !.serial = NextSerial] IN
        /\ cache' = [Aged EXCEPT ![s] = Applied(req, c)]
        /\ reply' = Outcome(req, c)
  BY DEF Hit
<1> DEFINE d == [cache[s] EXCEPT !.serial = NextSerial]
<1>2. s \in Slot /\ cache[s].track = TrackOf(req.block)
  BY DEF Holding
<1>3. cache[s].track \in Track /\ cache[s].track # NoTrack
  BY <1>2, TrackOfBlock, TrackIsNat DEF Request
<1>4. SlotOK(d) /\ d.track = cache[s].track /\ d.data = cache[s].data
  BY <1>2, <1>3, NextSerialRange DEF IInv, TypeOK, SlotOK, EmptySlot
<1>5. cache' = [Aged EXCEPT ![s] = Applied(req, d)] /\ reply' = Outcome(req, d)
  BY <1>1
<1> HIDE DEF d
<1>6. \A b \in BlocksOf(d.track) : d.data[b] = Content[b]
  BY <1>2, <1>4, InTerms, Cached
<1>7. file' = file /\ Lagging
  <2>1. file' = file /\ file' \in [Block -> Value] /\ lost' \subseteq Block
    BY DEF Hit, IInv, TypeOK
  <2>2. QED
    BY <2>1, ContentType DEF Lagging
<1>8. ASSUME NEW b \in Block \ BlocksOf(d.track),
             \A r \in Slot \ {s} : b \notin BlocksOf(cache[r].track)
      PROVE  file'[b] = Content[b]
  <2>1. \A r \in Slot : b \notin BlocksOf(cache[r].track)
    BY <1>4, <1>8
  <2>2. QED
    BY <1>7, <2>1, InTerms, NotCached
<1>9. /\ cache'[s] = Applied(req, d)
      /\ \A r \in Slot \ {s} : cache'[r].track = cache[r].track /\ cache'[r].data = cache[r].data
  BY <1>2, <1>5, OthersKept
<1>10. QED
  BY <1>2, <1>4, <1>5, <1>6, <1>7, <1>8, <1>9, RequestRefines

\* Loading the track of the request into slot s from f, the file after a saved
\* victim or without one.
LEMMA LoadRefines ==
  ASSUME IInv, IInv', NEW req \in Request, NEW s \in Slot, NEW f \in [Block -> Value],
         NEW L \in SUBSET Block,
         Holding(TrackOf(req.block)) = {},
         file' = f,
         \A b \in Block : f[b] \in {file[b], Content[b]},
         \A b \in Block : (\A r \in Slot \ {s} : b \notin BlocksOf(cache[r].track))
                           => b \in lost \cup L \/ f[b] = Content[b],
         lost' = (lost \cup L) \ Applied(req, Loaded(TrackOf(req.block), f)).modified,
         cache' = [Aged EXCEPT ![s] = Applied(req, Loaded(TrackOf(req.block), f))],
         reply' = Outcome(req, Loaded(TrackOf(req.block), f))
  PROVE  Store!Next
<1> DEFINE t == TrackOf(req.block)
           d == Loaded(t, f)
<1>1. t \in Track
  BY TrackOfBlock DEF Request
<1>2. SlotOK(d) /\ d.track = t /\ \A b \in BlocksOf(t) : d.data[b] = f[b]
  BY <1>1, LoadedSlot DEF IInv, TypeOK
<1>3. cache' = [Aged EXCEPT ![s] = Applied(req, d)] /\ reply' = Outcome(req, d)
  OBVIOUS
<1>4. Holding(t) = {}
  OBVIOUS
<1> HIDE DEF d
<1>5. \A b \in BlocksOf(t) : b \in Block /\ d.data[b] = Content[b]
  BY <1>2, <1>4, MissedIsFile DEF BlocksOf
<1>6. /\ cache'[s] = Applied(req, d)
      /\ \A r \in Slot \ {s} : cache'[r].track = cache[r].track /\ cache'[r].data = cache[r].data
  BY <1>3, OthersKept
<1>7. Applied(req, d).modified \subseteq BlocksOf(t)
  BY <1>2, AppliedSlot, ModifiedInTrack
<1>8. lost' = (lost \cup L) \ Applied(req, d).modified
  BY DEF d
<1>9. \A b \in Block \ BlocksOf(t) : (\A r \in Slot \ {s} : b \notin BlocksOf(cache[r].track))
        => b \in lost' \/ file'[b] = Content[b]
  BY <1>7, <1>8
<1>10. Lagging
  <2>1. lost' \subseteq Block
    BY <1>8 DEF IInv, TypeOK
  <2>2. QED
    BY <2>1, ContentType DEF Lagging
<1>11. QED
  BY <1>2, <1>3, <1>5, <1>6, <1>9, <1>10, RequestRefines

\* So is an access that fills a free slot.
LEMMA FillRefines ==
  ASSUME IInv, IInv', NEW req \in Request, Fill(req)
  PROVE  Store!Next
<1>1. PICK s \in Free :
        /\ cache' = [Aged EXCEPT ![s] = Applied(req, Loaded(TrackOf(req.block), file))]
        /\ reply' = Outcome(req, Loaded(TrackOf(req.block), file))
        /\ lost' = (lost \cup {}) \ Applied(req, Loaded(TrackOf(req.block), file)).modified
  BY DEF Fill
<1>2. Holding(TrackOf(req.block)) = {} /\ file' = file /\ file \in [Block -> Value]
  BY DEF Fill, IInv, TypeOK
<1>3. s \in Slot /\ cache[s].track = NoTrack
  BY DEF Free
<1>4. ASSUME NEW b \in Block, \A r \in Slot \ {s} : b \notin BlocksOf(cache[r].track)
      PROVE  file[b] = Content[b]
  <2>1. b \notin BlocksOf(cache[s].track)
    BY <1>3, TrackOfBlock, TrackIsNat DEF BlocksOf
  <2>2. \A r \in Slot : b \notin BlocksOf(cache[r].track)
    BY <1>4, <2>1
  <2>3. QED
    BY <2>2, InTerms, NotCached
<1>5. QED
  BY <1>1, <1>2, <1>3, <1>4, LoadRefines

\* So is an access that evicts a track: what was cached is on the disk now.
LEMMA EvictRefines ==
  ASSUME IInv, IInv', NEW req \in Request, Evict(req)
  PROVE  Store!Next
<1> DEFINE New(s, L) ==
      LET f == Saved(cache[s], L)
          d == Loaded(TrackOf(req.block), f) IN
      /\ file' = f
      /\ cache' = [Aged EXCEPT ![s] = Applied(req, d)]
      /\ reply' = Outcome(req, d)
      /\ lost' = (lost \cup L) \ Applied(req, d).modified
<1>1. PICK s \in Slot : \E L \in Tails(cache[s].modified) : New(s, L)
  BY DEF Evict
<1>2. PICK L \in Tails(cache[s].modified) : New(s, L)
  BY <1>1
<1>3. Holding(TrackOf(req.block)) = {}
  BY DEF Evict
<1> DEFINE f == Saved(cache[s], L)
<1>4. /\ f \in [Block -> Value]
      /\ \A b \in Block : f[b] \in {file[b], Content[b]}
  BY SavedVictim, SavedLags
<1>5. \A b \in Block : (\A r \in Slot \ {s} : b \notin BlocksOf(cache[r].track))
                         => b \in lost \cup L \/ f[b] = Content[b]
  BY SavedIsContent
<1>6. L \in SUBSET Block
  BY TailsInBlock
<1>7. /\ file' = f
      /\ cache' = [Aged EXCEPT ![s] = Applied(req, Loaded(TrackOf(req.block), f))]
      /\ reply' = Outcome(req, Loaded(TrackOf(req.block), f))
      /\ lost' = (lost \cup L) \ Applied(req, Loaded(TrackOf(req.block), f)).modified
  BY <1>2
<1> HIDE DEF f
<1>8. QED
  BY <1>3, <1>4, <1>5, <1>6, <1>7, LoadRefines

\* A read of a track that fails is an error of the store.
LEMMA FillFailsRefines ==
  ASSUME IInv, IInv', NEW req \in Request, FillFails(req)
  PROVE  Store!Next
<1>1. cache' = Aged /\ file' = file /\ reply' = Failure(req.op, req.block)
  BY DEF FillFails
<1>2. \A r \in Slot : cache'[r].track = cache[r].track /\ cache'[r].data = cache[r].data
  BY <1>1, AgedSlots DEF IInv, TypeOK, CacheOK
<1>3. Content' = Content
  BY <1>1, <1>2, SameContent
<1>4. file' \in [Block -> Value] /\ lost' \subseteq Block
  BY DEF FillFails, IInv, TypeOK
<1>5. Lagging
  BY <1>1, <1>4, ContentType DEF Lagging
<1>6. QED
  BY <1>1, <1>3, <1>5, FailureRefines

\* The slot stays empty, but what it held has been saved.
LEMMA EvictLoadFailsRefines ==
  ASSUME IInv, IInv', NEW req \in Request, EvictLoadFails(req)
  PROVE  Store!Next
<1> DEFINE New(s, L) ==
      /\ file' = Saved(cache[s], L)
      /\ cache' = [Aged EXCEPT ![s] = EmptySlot(Aged[s].serial)]
      /\ lost' = lost \cup L
<1>0. PICK s \in Slot : \E L \in Tails(cache[s].modified) : New(s, L)
  BY DEF EvictLoadFails
<1>1. PICK L \in Tails(cache[s].modified) : New(s, L)
  BY <1>0
<1>2. reply' = Failure(req.op, req.block)
  BY DEF EvictLoadFails
<1>3. Lagging
  <2>1. lost' \subseteq Block
    BY <1>1, TailsInBlock DEF IInv, TypeOK
  <2>2. QED
    BY <1>1, <2>1, SavedVictim, SavedLags, ContentType DEF Lagging
<1>4. /\ cache'[s] = EmptySlot(Aged[s].serial)
      /\ \A r \in Slot \ {s} : cache'[r].track = cache[r].track /\ cache'[r].data = cache[r].data
  BY <1>1, OthersKept
<1>5. cache'[s].track = NoTrack
  BY <1>4 DEF EmptySlot
<1>6. ASSUME NEW b \in Block
      PROVE  Content'[b] = Content[b] \/ (b \in lost' /\ Content'[b] = file'[b])
  <2>1. CASE \E r \in Slot \ {s} : b \in BlocksOf(cache[r].track)
    <3>1. PICK r \in Slot \ {s} : b \in BlocksOf(cache[r].track)
      BY <2>1
    <3>2. b \in BlocksOf(cache'[r].track) /\ cache'[r].data = cache[r].data
      BY <1>4, <3>1
    <3>3. Content'[b] = cache'[r].data[b]
      BY <3>2, InTerms, Cached
    <3>4. Content[b] = cache[r].data[b]
      BY <3>1, InTerms, Cached
    <3>5. QED
      BY <3>2, <3>3, <3>4
  <2>2. CASE \A r \in Slot \ {s} : b \notin BlocksOf(cache[r].track)
    <3>1. b \notin BlocksOf(cache'[s].track)
      BY <1>5, TrackOfBlock, TrackIsNat DEF BlocksOf
    <3>2. \A r \in Slot : b \notin BlocksOf(cache'[r].track)
      BY <1>4, <2>2, <3>1
    <3>3. Content'[b] = file'[b]
      BY <3>2, InTerms, NotCached
    <3>4. b \in lost' \/ file'[b] = Content[b]
      BY <1>1, <2>2, SavedIsContent
    <3>5. QED
      BY <3>3, <3>4
  <2>3. QED
    BY <2>1, <2>2
<1>7. QED
  BY <1>2, <1>3, <1>6, FailureRefines

\* A save that fails is an error that loses nothing.
LEMMA EvictSaveFailsRefines ==
  ASSUME IInv, IInv', NEW req \in Request, EvictSaveFails(req)
  PROVE  Store!Next
<1>0. PICK s \in Slot : \E S \in Prefixes(cache[s].modified) : file' = PartlySaved(cache[s], S)
  BY DEF EvictSaveFails
<1>1. PICK S \in Prefixes(cache[s].modified) : file' = PartlySaved(cache[s], S)
  BY <1>0
<1>2. cache' = Aged /\ reply' = Failure(req.op, req.block)
  BY DEF EvictSaveFails
<1>3. S \in SUBSET cache[s].modified
  BY DEF Prefixes
<1>4. \A b \in Block : file'[b] \in {file[b], Content[b]}
  BY <1>1, <1>3, SavedCatchesUp
<1>5. file' \in [Block -> Value] /\ lost' \subseteq Block
  BY DEF EvictSaveFails, IInv, TypeOK
<1>6. \A r \in Slot : cache'[r].track = cache[r].track /\ cache'[r].data = cache[r].data
  BY <1>2, AgedSlots DEF IInv, TypeOK, CacheOK
<1>7. ASSUME NEW b \in Block, \A r \in Slot : b \notin BlocksOf(cache[r].track)
      PROVE  file'[b] = file[b]
  BY <1>4, <1>7, InTerms, NotCached
<1>8. Content' = Content
  BY <1>6, <1>7, SameContent
<1>9. Lagging
  BY <1>4, <1>5, ContentType DEF Lagging
<1>10. QED
  BY <1>2, <1>8, <1>9, FailureRefines

\* Clearing flags changes no sector.
LEMMA CleanKeeps ==
  ASSUME NEW c
  PROVE  Clean(c).track = c.track /\ Clean(c).data = c.data
BY DEF Clean

\* Writing modified sectors lets the file catch up.
LEMMA WrittenLags ==
  ASSUME IInv, NEW R \in SUBSET Slot, NEW S \in SUBSET ModifiedIn(R), NEW b \in Block
  PROVE  /\ b \in S => Written(R, S)[b] = Content[b]
         /\ b \notin S => Written(R, S)[b] = file[b]
<1>1. CASE b \in S
  <2>1. PICK s \in R : b \in cache[s].modified
    BY <1>1 DEF ModifiedIn
  <2>2. s \in Slot /\ b \in BlocksOf(cache[s].track) /\ Content[b] = cache[s].data[b]
    BY <2>1, Modified
  <2>3. QED
    BY <1>1, <2>2, WrittenFile
<1>2. CASE b \notin S
  BY <1>2, WrittenFile
<1>3. QED
  BY <1>1, <1>2

\* A flush changes nothing a host can see.
LEMMA FlushRefines ==
  ASSUME IInv, IInv', Flush
  PROVE  Store!Next
<1>1. PICK L \in Losses(Slot) : /\ file' = Written(Slot, ModifiedIn(Slot) \ L)
                               /\ lost' = lost \cup L
  BY DEF Flush
<1> DEFINE S == ModifiedIn(Slot) \ L
<1>2. S \in SUBSET ModifiedIn(Slot) /\ Slot \in SUBSET Slot /\ file' = Written(Slot, S)
  BY <1>1
<1>3. \A b \in Block : b \notin S => b \in L \/ \A s \in Slot : b \notin cache[s].modified
  BY DEF ModifiedIn
<1> HIDE DEF S
<1>4. ASSUME NEW b \in Block
      PROVE  /\ file'[b] \in {file[b], Content[b]}
             /\ b \notin lost' => file'[b] = Content[b]
  <2>1. /\ b \in S => file'[b] = Content[b]
        /\ b \notin S => file'[b] = file[b]
    BY <1>2, WrittenLags
  <2>2. b \notin S /\ b \notin lost' => file[b] = Content[b]
    BY <1>1, <1>3, NotModified
  <2>3. QED
    BY <2>1, <2>2
<1>5. file' \in [Block -> Value] /\ lost' \in SUBSET Block
  BY <1>1, <1>2, WrittenFile, LossesInBlock DEF IInv, TypeOK
<1>6. Store!Persists(Block \ lost')
  BY <1>4, <1>5 DEF Store!Persists
<1>7. \A r \in Slot : cache'[r] = Clean(cache[r])
  BY DEF Flush
<1>8. \A r \in Slot : cache'[r].track = cache[r].track /\ cache'[r].data = cache[r].data
  BY <1>7, CleanKeeps
<1>9. \A b \in Block : (\A r \in Slot : b \notin BlocksOf(cache[r].track)) => file'[b] = file[b]
  BY <1>4, InTerms, NotCached
<1>10. Content' = Content
  BY <1>8, <1>9, SameContent
<1>11. reply' = Store!FlushAnswer(TRUE)
  BY DEF Flush, FlushAnswer, Store!FlushAnswer
<1>12. Store!Flush
  BY <1>5, <1>6, <1>10, <1>11 DEF Store!Flush
<1>13. QED
  BY <1>12 DEF Store!Next

\* Nor does one that fails.
LEMMA FlushFailsRefines ==
  ASSUME IInv, IInv', FlushFails
  PROVE  Store!Next
<1> DEFINE Tried(s, S, L) ==
      /\ file' = Written(1..s, (ModifiedIn(1..(s - 1)) \ L) \cup S)
      /\ cache' = [r \in Slot |-> IF r < s THEN Clean(cache[r]) ELSE cache[r]]
<1>1. PICK s \in Slot : \E S \in Prefixes(cache[s].modified), L \in Losses(1..(s - 1)) :
        Tried(s, S, L)
  BY DEF FlushFails
<1>2. PICK S \in Prefixes(cache[s].modified), L \in Losses(1..(s - 1)) : Tried(s, S, L)
  BY <1>1
<1> DEFINE R == 1..s
           K == 1..(s - 1)
           T == (ModifiedIn(K) \ L) \cup S
<1>3. /\ K \in SUBSET R /\ R \in SUBSET Slot /\ s \in R
      /\ S \subseteq cache[s].modified
  BY SizesAssumption DEF Slot, Prefixes
<1>4. T \in SUBSET ModifiedIn(R)
  BY <1>3 DEF ModifiedIn
<1>5. file' = Written(R, T)
  BY <1>2
<1>6. R \in SUBSET Slot /\ T \in SUBSET ModifiedIn(R)
  BY <1>3, <1>4
<1> HIDE DEF R, K, T
<1>7. \A b \in Block : file'[b] \in {file[b], Content[b]}
  BY <1>5, <1>6, WrittenLags
<1>8. file' \in [Block -> Value] /\ lost' \in SUBSET Block
  BY DEF IInv, TypeOK, Block
<1>9. Store!Persists({})
  BY <1>7, <1>8 DEF Store!Persists
<1>10. \A r \in Slot : cache'[r].track = cache[r].track /\ cache'[r].data = cache[r].data
  BY <1>2, CleanKeeps
<1>11. \A b \in Block : (\A r \in Slot : b \notin BlocksOf(cache[r].track)) => file'[b] = file[b]
  BY <1>7, InTerms, NotCached
<1>12. Content' = Content
  BY <1>10, <1>11, SameContent
<1>13. reply' = Store!FlushAnswer(FALSE)
  BY DEF FlushFails, FlushAnswer, Store!FlushAnswer
<1>14. Store!Flush
  BY <1>8, <1>9, <1>12, <1>13 DEF Store!Flush
<1>15. QED
  BY <1>14 DEF Store!Next

\* An empty cache holds no sector.
LEMMA EmptyHoldsNothing ==
  ASSUME NEW k, NEW f \in [Block -> Value], \A s \in Slot : k[s] = EmptySlot(0)
  PROVE  ContentOf(k, f) = f
<1>1. ASSUME NEW b \in Block
      PROVE  ContentOf(k, f)[b] = f[b]
  <2>1. \A s \in Slot : k[s].track = NoTrack
    BY DEF EmptySlot
  <2>2. \A s \in Slot : b \notin BlocksOf(k[s].track)
    BY <2>1, TrackOfBlock, TrackIsNat DEF BlocksOf
  <2>3. QED
    BY <2>2, NotCached
<1>2. ContentOf(k, f) = [b \in Block |-> ContentOf(k, f)[b]]
  BY DEF ContentOf
<1>3. QED
  BY <1>1, <1>2

\* A crash takes the store back to what is on the disk.
LEMMA CrashRefines ==
  ASSUME IInv, IInv', Crash
  PROVE  Store!Next
<1>1. \A s \in Slot : cache'[s] = EmptySlot(0)
  BY DEF Crash
<1>2. file' = file /\ file \in [Block -> Value] /\ reply' = Store!Silent /\ lost' = {}
  BY DEF Crash, IInv, TypeOK, Silent, Store!Silent
<1>3. Content' = file
  BY <1>1, <1>2, InTerms, EmptyHoldsNothing
<1>4. QED
  BY <1>2, <1>3 DEF Store!Next, Store!Crash

-------------------------------------------------------------------------------
(* The refinement. *)

\* The cache starts as the store does.
LEMMA InitRefines ==
  ASSUME Init
  PROVE  Store!Init
<1>1. \A s \in Slot : cache[s] = EmptySlot(0)
  BY DEF Init
<1>2. file \in [Block -> Value] /\ reply = Store!Silent /\ lost = {}
  BY DEF Init, Silent, Store!Silent
<1>3. Content = file
  BY <1>1, <1>2, InTerms, EmptyHoldsNothing
<1>4. QED
  BY <1>2, <1>3 DEF Store!Init

\* Every step is a step of the store, or changes nothing in it.
LEMMA StepRefines ==
  ASSUME IInv, IInv', [Next]_vars
  PROVE  [Store!Next]_(Store!vars)
<1>1. ASSUME NEW req \in Request, Access(req)
      PROVE  Store!Next
  BY <1>1, HitRefines, FillRefines, FillFailsRefines, EvictRefines,
     EvictLoadFailsRefines, EvictSaveFailsRefines DEF Access
<1>2. CASE Flush
  BY <1>2, FlushRefines
<1>3. CASE FlushFails
  BY <1>3, FlushFailsRefines
<1>4. CASE Crash
  BY <1>4, CrashRefines
<1>5. CASE UNCHANGED vars
  BY <1>5, InTerms DEF vars, Store!vars, ContentOf
<1>6. QED
  BY <1>1, <1>2, <1>3, <1>4, <1>5 DEF Next

\* Every behaviour of DiskCache is one of the block store: what ReadSector() gives
\* is the last value WriteSector() accepted for the sector, through every eviction,
\* failed file operation and Flush(), and a crash falls back to the image file; only
\* sectors whose last save failed unnoticed may fall back to it before.
THEOREM ImplementsStore == Spec => ImplementsBlockStore
<1>1. Init => IInv
  BY InitInv
<1>2. IInv /\ [Next]_vars => IInv'
  BY StepKeeps
<1>3. Init => Store!Init
  BY InitRefines
<1>4. IInv /\ IInv' /\ [Next]_vars => [Store!Next]_(Store!vars)
  BY StepRefines
<1>5. QED
  BY <1>1, <1>2, <1>3, <1>4, PTL DEF Spec, ImplementsBlockStore, Store!Spec
===============================================================================
