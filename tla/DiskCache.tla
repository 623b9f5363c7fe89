------------------------------- MODULE DiskCache -------------------------------
(***************************************************************************)
(* The write-back track cache of the PISCSI caching mode: DiskCache and    *)
(* DiskTrack (cpp/devices/disk_cache.cpp, disk_track.cpp).  A drive reads  *)
(* and writes one sector at a time; the cache holds a few whole tracks,    *)
(* evicts the one with the oldest serial number, and writes modified       *)
(* sectors to the image file only on eviction or on Flush().               *)
(*                                                                         *)
(* A request is one step: the drive is only called with the execution lock *)
(* held.  Every file operation may fail, with part of it carried out, and  *)
(* a save may fail unnoticed: what the stream still buffers is written by  *)
(* its destructor, after the last look at fail().                          *)
(***************************************************************************)
EXTENDS Integers

CONSTANTS NBlocks,    \* number of sectors of the drive
          TrackSize,  \* sectors of a track (256 in the code)
          CacheMax,   \* CACHE_MAX, the number of tracks cached (16 in the code)
          SerialMod,  \* serial numbers are counted modulo this (2^32 in the code)
          IntLimit,   \* the first number a signed int cannot hold (2^31)
          Value       \* what a sector can hold

ASSUME SizesAssumption ==
  /\ NBlocks \in Nat \ {0}
  /\ TrackSize \in Nat \ {0}
  /\ CacheMax \in Nat \ {0}
  /\ SerialMod \in Nat \ {0}
  /\ IntLimit \in Nat \ {0}
  /\ NBlocks < 2 * IntLimit

Block == 0..(NBlocks - 1)
Slot == 1..CacheMax
NoTrack == -1

\* static_cast<int>(sectors): the member "blocks" is a signed int.
blocks == IF NBlocks < IntLimit THEN NBlocks ELSE NBlocks - 2 * IntLimit

TrackOf(b) == b \div TrackSize
Track == {TrackOf(b) : b \in Block}

\* The sectors a loaded track holds, none if the computed count is not positive.
BlocksOf(t) == {b \in Block : TrackOf(b) = t /\ b < blocks}

VARIABLES file,    \* the image file, sector by sector
          cache,   \* slot -> the cached track with its serial number
          serial,  \* the last serial number given out
          reply,   \* the outcome of the last request
          ioError, \* did a file operation of the last request report a failure?
          lost,    \* history: the sectors whose last save failed unnoticed
          younger  \* history: <<r, s>>: since the last wrap r was used after s

vars == <<file, cache, serial, reply, ioError, lost, younger>>

Data(t) == [BlocksOf(t) -> Value]
EmptySlot(n) == [track |-> NoTrack, serial |-> n, data |-> <<>>, modified |-> {}]

Silent == [op |-> "none"]
Answer(op, b, v) == [op |-> op, block |-> b, value |-> v, ok |-> TRUE]
Failure(op, b) == [op |-> op, block |-> b, ok |-> FALSE]
FlushAnswer(good) == [op |-> "flush", ok |-> good]

Request == [op : {"read"}, block : Block]
             \cup [op : {"write"}, block : Block, value : Value]

-------------------------------------------------------------------------------
\* DiskTrack::Save() writes the modified runs in ascending order and gives up
\* at the first failure, so what reaches the file is a prefix of them.
Prefixes(M) == {S \in SUBSET M : \A x \in S : \A y \in M \ S : x < y}
PartlySaved(c, S) == [b \in Block |-> IF b \in S THEN c.data[b] ELSE file[b]]

\* Each seek writes out what is buffered of the runs before it.  A part of the
\* last run is still buffered when Save() tests fail(), clears the flags and
\* reports success: if writing it fails then, a tail of this run is lost.
Tails(M) == {L \in SUBSET M : \A x \in L, y \in M : x..y \subseteq L}

\* The file once slot record c has been saved, but for the sectors L.
SavedNot(c, L) == file      \* (a mutation: the victim is replaced without being saved)
Saved(c, L) == PartlySaved(c, c.modified \ L)

\* Save() clears the flags of the sectors it has written.
Clean(c) == [c EXCEPT !.modified = {}]

\* UpdateSerial(): the serial numbers are cleared when the counter wraps.
NextSerialUnbounded == serial + 1   \* (a mutation: the counter does not wrap)
NextSerial == (serial + 1) % SerialMod
AgedNever == cache                  \* (a mutation: the wrap is ignored)
Aged == IF NextSerial = 0
          THEN [s \in Slot |-> [cache[s] EXCEPT !.serial = 0]]
          ELSE cache

Holding(t) == {s \in Slot : cache[s].track = t}
Free == {s \in Slot : cache[s].track = NoTrack}
IsFirst(s, S) == s \in S /\ \A r \in S : s <= r

\* The slot Assign() replaces: the first of those with the smallest serial number.
IsVictim(s) ==
  IsFirst(s, {r \in Slot : \A q \in Slot : Aged[r].serial <= Aged[q].serial})

\* The order in which the slots were used, after a request that uses slot s or none.
UsedSlot(s) == IF NextSerial = 0
  THEN {}
  ELSE {p \in younger : p[2] # s} \cup {<<s, r>> : r \in Slot \ {s}}
UsedNone == IF NextSerial = 0 THEN {} ELSE younger

Loaded(t, f) == [track |-> t, serial |-> NextSerial,
                 data |-> [b \in BlocksOf(t) |-> f[b]], modified |-> {}]

\* ReadSector()/WriteSector() on the assigned track: a sector the track does not
\* hold fails, a write that changes nothing does not mark the sector.
InTrackButLast(b) == b + 1 \in BlocksOf(TrackOf(b))   \* (a mutation: off by one)
InTrack(b) == b \in BlocksOf(TrackOf(b))
AppliedUnmarked(req, c) ==        \* (a mutation: modified_flags is not set)
  IF req.op = "write" /\ InTrack(req.block)
    THEN [c EXCEPT !.data = [@ EXCEPT ![req.block] = req.value]]
    ELSE c
Applied(req, c) ==
  IF /\ req.op = "write"
     /\ InTrack(req.block)
     /\ c.data[req.block] # req.value
    THEN [c EXCEPT !.data = [@ EXCEPT ![req.block] = req.value],
                   !.modified = @ \cup {req.block}]
    ELSE c
Outcome(req, c) ==
  IF InTrack(req.block)
    THEN Answer(req.op, req.block, Applied(req, c).data[req.block])
    ELSE Failure(req.op, req.block)

-------------------------------------------------------------------------------
Init ==
  /\ file \in [Block -> Value]
  /\ cache = [s \in Slot |-> EmptySlot(0)]
  /\ serial = 0
  /\ reply = Silent
  /\ ioError = FALSE
  /\ lost = {}
  /\ younger = {}

\* Assign() finds the track in the cache.
Hit(req) == \E s \in Holding(TrackOf(req.block)) :
  LET c == [cache[s] EXCEPT !.serial = NextSerial] IN
  /\ cache' = [Aged EXCEPT ![s] = Applied(req, c)]
  /\ reply' = Outcome(req, c)
  /\ serial' = NextSerial
  /\ ioError' = FALSE
  /\ lost' = lost \ Applied(req, c).modified
  /\ younger' = UsedSlot(s)
  /\ UNCHANGED file

\* Assign() loads the track into the first slot that is empty.
Fill(req) == \E s \in Free :
  LET t == TrackOf(req.block) IN
  /\ Holding(t) = {}
  /\ IsFirst(s, Free)
  /\ BlocksOf(t) # {}
  /\ cache' = [Aged EXCEPT ![s] = Applied(req, Loaded(t, file))]
  /\ reply' = Outcome(req, Loaded(t, file))
  /\ serial' = NextSerial
  /\ ioError' = FALSE
  /\ lost' = lost \ Applied(req, Loaded(t, file)).modified
  /\ younger' = UsedSlot(s)
  /\ UNCHANGED file

\* Loading fails: the file cannot be read, or the computed sector count of the
\* track is not positive and no buffer can be allocated for it (or none for its
\* flags, an exception that ends the process: Crash).
FillFails(req) ==
  LET t == TrackOf(req.block) IN
  /\ Holding(t) = {}
  /\ Free # {}
  /\ cache' = Aged
  /\ reply' = Failure(req.op, req.block)
  /\ serial' = NextSerial
  /\ ioError' = (BlocksOf(t) # {})
  /\ younger' = UsedNone
  /\ UNCHANGED <<file, lost>>

\* The cache is full: the victim is saved and its slot gets the new track.
Evict(req) == \E s \in Slot : \E L \in Tails(cache[s].modified) :
  LET t == TrackOf(req.block)
      f == Saved(cache[s], L) IN
  /\ Holding(t) = {}
  /\ Free = {}
  /\ IsVictim(s)
  /\ BlocksOf(t) # {}
  /\ file' = f
  /\ cache' = [Aged EXCEPT ![s] = Applied(req, Loaded(t, f))]
  /\ reply' = Outcome(req, Loaded(t, f))
  /\ serial' = NextSerial
  /\ ioError' = FALSE
  /\ lost' = (lost \cup L) \ Applied(req, Loaded(t, f)).modified
  /\ younger' = UsedSlot(s)

\* The victim has been saved, but the new track cannot be loaded: the slot stays empty.
EvictLoadFails(req) == \E s \in Slot : \E L \in Tails(cache[s].modified) :
  LET t == TrackOf(req.block) IN
  /\ Holding(t) = {}
  /\ Free = {}
  /\ IsVictim(s)
  /\ file' = Saved(cache[s], L)
  /\ cache' = [Aged EXCEPT ![s] = EmptySlot(Aged[s].serial)]
  /\ reply' = Failure(req.op, req.block)
  /\ serial' = NextSerial
  /\ ioError' = (BlocksOf(t) # {})
  /\ lost' = lost \cup L
  /\ younger' = UsedNone

\* The victim cannot be saved: it stays cached and modified, the request fails.
EvictSaveFails(req) == \E s \in Slot : \E S \in Prefixes(cache[s].modified) :
  /\ Holding(TrackOf(req.block)) = {}
  /\ Free = {}
  /\ IsVictim(s)
  /\ cache[s].modified # {}
  /\ file' = PartlySaved(cache[s], S)
  /\ cache' = Aged
  /\ reply' = Failure(req.op, req.block)
  /\ serial' = NextSerial
  /\ ioError' = TRUE
  /\ younger' = UsedNone
  /\ UNCHANGED lost

\* The modified sectors of the slots R, and those of them that are lost when the
\* slots are saved, a tail of each slot's.
ModifiedIn(R) == UNION {cache[s].modified : s \in R}
Losses(R) == {L \in SUBSET ModifiedIn(R) :
  \A s \in R : L \cap cache[s].modified \in Tails(cache[s].modified)}

\* The file once the sectors S of the slots R have been written.
Written(R, S) == [b \in Block |->
  IF b \in S THEN cache[CHOOSE s \in R : b \in cache[s].modified].data[b] ELSE file[b]]

\* Flush() saves every track.
Flush == \E L \in Losses(Slot) :
  /\ file' = Written(Slot, ModifiedIn(Slot) \ L)
  /\ cache' = [s \in Slot |-> Clean(cache[s])]
  /\ reply' = FlushAnswer(TRUE)
  /\ ioError' = FALSE
  /\ lost' = lost \cup L
  /\ UNCHANGED <<serial, younger>>

\* Flush() stops at the first track that cannot be saved: the tracks of the
\* slots before it have been saved, those after it have not been tried.
FlushFails == \E s \in Slot :
  LET done == 1..(s - 1) IN
  \E S \in Prefixes(cache[s].modified), L \in Losses(done) :
  /\ cache[s].modified # {}
  /\ file' = Written(1..s, (ModifiedIn(done) \ L) \cup S)
  /\ cache' = [r \in Slot |-> IF r < s THEN Clean(cache[r]) ELSE cache[r]]
  /\ reply' = FlushAnswer(FALSE)
  /\ ioError' = TRUE
  /\ lost' = lost \cup L
  /\ UNCHANGED <<serial, younger>>

\* The process dies: only the file is left, a new process starts with an empty cache.
Crash ==
  /\ cache' = [s \in Slot |-> EmptySlot(0)]
  /\ serial' = 0
  /\ reply' = Silent
  /\ ioError' = FALSE
  /\ lost' = {}
  /\ younger' = {}
  /\ UNCHANGED file

Access(req) ==
  \/ Hit(req)
  \/ Fill(req)
  \/ FillFails(req)
  \/ Evict(req)
  \/ EvictLoadFails(req)
  \/ EvictSaveFails(req)

Next ==
  \/ \E req \in Request : Access(req)
  \/ Flush
  \/ FlushFails
  \/ Crash

Spec == Init /\ [][Next]_vars

-------------------------------------------------------------------------------
\* What a slot can be: empty, or a track of the drive with a copy of its sectors.
SlotOK(c) ==
  /\ c.serial \in 0..(SerialMod - 1)
  /\ \/ c = EmptySlot(c.serial)
     \/ /\ c.track \in Track
        /\ c = [track |-> c.track, serial |-> c.serial,
                data |-> c.data, modified |-> c.modified]
        /\ c.data \in Data(c.track)
        /\ c.modified \subseteq BlocksOf(c.track)

Reply ==
  {Silent} \cup {FlushAnswer(good) : good \in BOOLEAN}
    \cup {Answer(op, b, v) : op \in {"read", "write"}, b \in Block, v \in Value}
    \cup {Failure(op, b) : op \in {"read", "write"}, b \in Block}

\* The types of the members of DiskCache and of its tracks.
TypeOK ==
  /\ file \in [Block -> Value]
  /\ DOMAIN cache = Slot
  /\ \A s \in Slot : SlotOK(cache[s])
  /\ serial \in 0..(SerialMod - 1)
  /\ reply \in Reply
  /\ ioError \in BOOLEAN
  /\ lost \subseteq Block
  /\ younger \subseteq Slot \X Slot

\* A track is cached in one slot at most, so no write is made to one copy of a
\* sector and missed by the other.
OneCopy == \A r, s \in Slot :
  cache[r].track = cache[s].track /\ cache[r].track # NoTrack => r = s

\* A sector that is not marked as modified is what the file holds, unless its
\* last save failed unnoticed: WriteSector() compares with the cached copy only,
\* and Save() skips unmarked sectors.
CleanMatchesFile == \A s \in Slot : \A b \in BlocksOf(cache[s].track) :
  b \notin cache[s].modified /\ b \notin lost => cache[s].data[b] = file[b]

\* The two facts the coherence of the cache rests on.
Coherent == OneCopy /\ CleanMatchesFile

\* The track a miss throws out is the one that was used least recently: no cached
\* track was used before it since the serial numbers were last cleared, whatever
\* requests have failed in between (but for the request that meets the wrap).
EvictsColder == [][\A r, s \in Slot :
  /\ cache[s].track # NoTrack
  /\ cache'[s].track # cache[s].track
  /\ reply' # Silent
  /\ serial' # 0
  => <<s, r>> \notin younger]_vars

\* Without a failing file operation a request for a block of the drive succeeds.
NoSpuriousError == reply.op \in {"read", "write"} /\ ~reply.ok => ioError

-------------------------------------------------------------------------------
\* What the host may rely on: the cached copy of a sector, else the file.
Content == [b \in Block |->
  IF \E s \in Slot : b \in BlocksOf(cache[s].track)
    THEN cache[CHOOSE s \in Slot : b \in BlocksOf(cache[s].track)].data[b]
    ELSE file[b]]

Store == INSTANCE BlockStore WITH content <- Content, stable <- file

\* DiskCache implements the block store: reads return the last value written
\* successfully through evictions and I/O errors, a flush reported as successful
\* has written everything, a failed request has changed nothing, all of it but
\* for the sectors whose last save failed unnoticed: these may fall back to what
\* the file holds.
ImplementsBlockStore == Store!Spec
===============================================================================
