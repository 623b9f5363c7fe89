------------------------------ MODULE BlockStore ------------------------------
(***************************************************************************)
(* What a drive's cache promises to the drive that uses it, whatever the   *)
(* caching strategy: a block holds the value of the last write that was    *)
(* reported as successful, and a request that fails changes nothing.  The  *)
(* image file may lag behind the contents by any set of blocks; a flush    *)
(* that reports success makes it catch up, and a crash falls back to it.   *)
(* All of this but for the blocks whose last write to the image was lost   *)
(* unnoticed: they stay behind at a flush, and when the cache lets go of   *)
(* them their contents are what the image holds.                           *)
(***************************************************************************)
CONSTANTS Block,     \* the block addresses of the drive
          Value      \* what a block can hold

VARIABLES content,   \* what the host may rely on
          stable,    \* what the image file holds
          reply,     \* the outcome of the last request
          lost       \* the blocks whose last write to the image was lost unnoticed

vars == <<content, stable, reply, lost>>

Silent == [op |-> "none"]
Answer(op, b, v) == [op |-> op, block |-> b, value |-> v, ok |-> TRUE]
Failure(op, b) == [op |-> op, block |-> b, ok |-> FALSE]
FlushAnswer(good) == [op |-> "flush", ok |-> good]

Init ==
  /\ stable \in [Block -> Value]
  /\ content = stable
  /\ reply = Silent
  /\ lost = {}

\* Any step may bring some blocks of the file up to date, and must do so with S.
Persists(S) ==
  /\ stable' \in [Block -> Value]
  /\ \A b \in Block : stable'[b] = content[b] \/ (b \notin S /\ stable'[b] = stable[b])

\* The contents are c, but for lost blocks that have fallen back to the file.
Keeps(c) ==
  /\ content' \in [Block -> Value]
  /\ \A b \in Block : content'[b] = c[b] \/ (b \in lost' /\ content'[b] = stable'[b])

Read(b) ==
  /\ reply' \in {Answer("read", b, content[b]), Failure("read", b)}
  /\ lost' \in SUBSET Block
  /\ Persists({})
  /\ Keeps(content)

Write(b, v) ==
  /\ reply' \in {Answer("write", b, v), Failure("write", b)}
  /\ lost' \in SUBSET Block
  /\ Persists({})
  /\ IF reply'.ok
       THEN Keeps([content EXCEPT ![b] = v]) /\ content'[b] = v
       ELSE Keeps(content)

\* A flush that fails may have written any blocks, all of them included.
Flush == \E good \in BOOLEAN :
  /\ reply' = FlushAnswer(good)
  /\ lost' \in SUBSET Block
  /\ Persists(IF good THEN Block \ lost' ELSE {})
  /\ content' = content

Crash ==
  /\ reply' = Silent
  /\ lost' = {}
  /\ content' = stable
  /\ stable' = stable

Next ==
  \/ \E b \in Block : Read(b)
  \/ \E b \in Block, v \in Value : Write(b, v)
  \/ Flush
  \/ Crash

Spec == Init /\ [][Next]_vars
===============================================================================
