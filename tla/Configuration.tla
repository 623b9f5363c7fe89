--------------------------- MODULE Configuration ---------------------------
(***************************************************************************)
(* The configuration over restarts of s2p (base/property_handler.cpp with  *)
(* the start of s2p/s2p_core.cpp): properties come from /etc/s2p.conf and  *)
(* the command line, remote commands add some, and PERSIST CONFIGURATION   *)
(* writes them back.  It takes no lock, so that the service thread and a   *)
(* host, with EXECUTE OPERATION, may persist at the same time, and s2p may *)
(* be killed at any point of it.  What the kernel has, it keeps.           *)
(***************************************************************************)
EXTENDS Integers, Sequences

CONSTANTS KeyOrder,        \* the keys in their order
          CommandLines,    \* the properties a start may have on its command line
          HandWritten,     \* configurations from an editor, sets of [key, value]
          MaxPersists

Actors == {"SERVICE", "HOST"}
NoInode == 0
NoLines == <<>>

VARIABLES
  s2p,                  \* "UP" or "DOWN"
  property_cache,       \* a set of [key, value], one for each key
  CONF, CONF_OLD,       \* the inodes of the two files, or NoInode
  data,                 \* the lines in each inode: [key, value]
  persist,              \* by actor: [step, lines, inode, alone]
  persists,             \* number of them, which also numbers the inodes
  complete,             \* history: the lines of the last Persist() that was alone and wrote all of them
  begun,                \* history: how many have begun since then, 2 standing for more
  start                 \* history: the last start: [conf, arguments, cache, refused]

configVars == <<s2p, property_cache, CONF, CONF_OLD, data, persist, persists, complete, begun, start>>

Key == {KeyOrder[i] : i \in DOMAIN KeyOrder}
Value == {"A", "B", "CUT", "NOTHING"}      \* NOTHING: the line ends before its '='
Idle == [step |-> "IDLE", lines |-> NoLines, inode |-> NoInode, alone |-> TRUE]

Keys(props) == {p.key : p \in props}
Lines(props) ==
  LET upTo[i \in 0..Len(KeyOrder)] ==
        IF i = 0 THEN <<>>
        ELSE IF KeyOrder[i] \in Keys(props) THEN Append(upTo[i - 1], CHOOSE p \in props : p.key = KeyOrder[i])
        ELSE upTo[i - 1]
  IN  upTo[Len(KeyOrder)]
Props(lines) == {lines[i] : i \in DOMAIN lines}

TypeOK ==
  /\ s2p \in {"UP", "DOWN"}
  /\ property_cache \subseteq [key : Key, value : Value]
  /\ {CONF, CONF_OLD} \subseteq 0..MaxPersists + 1
  /\ \A i \in DOMAIN data : Props(data[i]) \subseteq [key : Key, value : Value]
  /\ \A a \in Actors : persist[a].step \in {"IDLE", "REMOVE", "RENAME", "OPEN", "WRITE"}
  /\ persists \in 0..MaxPersists /\ begun \in 0..2
  /\ start.refused \in {"NO", "SYNTAX", "UNKNOWN", "VALUE"}

\* A file of no Persist() is there before s2p is started, or none.
Init ==
  /\ s2p = "DOWN" /\ property_cache = {}
  /\ \E h \in HandWritten :
       /\ CONF = IF h = {} THEN NoInode ELSE MaxPersists + 1
       /\ data = [i \in 1..MaxPersists + 1 |-> IF i <= MaxPersists THEN NoLines ELSE Lines(h)]
       /\ complete = IF h = {} THEN NoLines ELSE Lines(h)
  /\ CONF_OLD = NoInode
  /\ persist = [a \in Actors |-> Idle] /\ persists = 0 /\ begun = 0
  /\ start = [conf |-> NoLines, arguments |-> {}, cache |-> {}, refused |-> "NO"]

-----------------------------------------------------------------------------
\* device.0.params and device.0:0.params: Init() adds the LUN.
Normal(key) == IF key = "DEVICE_0" THEN "DEVICE_0_0" ELSE key
IsDevice(key) == key \in {"DEVICE_0", "DEVICE_0_0"}

\* Those of over replace those of props.
Override(props, over) == {p \in props : p.key \notin Keys(over)} \cup over

\* PropertyHandler::Init(): the command line has priority over the file; then keys are given their
\* LUN in the order of the keys, so that one that has it comes last.
Merged(lines, arguments) ==
  LET all == Override(Props(lines), arguments)
      named == {p \in all : Normal(p.key) = p.key}
  IN  Override({[p EXCEPT !.key = Normal(@)] : p \in all \ named}, named)

\* GetUnknownProperties() at the end of the start: s2p has asked for the log level and, if it has
\* attached devices, for the locale, but never for the list of property files.
Unknown(props) ==
  {k \in Keys(props) : ~IsDevice(k) /\ k # "LOG_LEVEL" /\ ~(k = "LOCALE" /\ \E j \in Keys(props) : IsDevice(j))}

\* Run(): s2p starts, with --ignore-conf or without, or says what is wrong and ends.  A value that has
\* been cut may be a valid one, and a device may not be attached for other reasons.
Start(arguments, ignore_conf) ==
  LET lines == IF ignore_conf \/ CONF = NoInode THEN NoLines ELSE data[CONF]
      props == Merged(lines, arguments)
      Outcome(r) ==
        /\ start' = [conf |-> lines, arguments |-> arguments, cache |-> IF r = "NO" THEN props ELSE {},
                     refused |-> r]
        /\ s2p' = IF r = "NO" THEN "UP" ELSE "DOWN"
        /\ property_cache' = IF r = "NO" THEN props ELSE {}
  IN  /\ s2p = "DOWN"
      /\ IF \E i \in DOMAIN lines : lines[i].value = "NOTHING" THEN Outcome("SYNTAX")
         ELSE \/ (\E p \in props : p.value = "CUT" \/ IsDevice(p.key)) /\ Outcome("VALUE")
              \/ Outcome(IF Unknown(props) # {} THEN "UNKNOWN" ELSE "NO")
      /\ UNCHANGED <<CONF, CONF_OLD, data, persist, persists, complete, begun>>

\* s2p ends or is killed: what is not in a file yet is lost.
Kill ==
  /\ s2p = "UP" /\ s2p' = "DOWN"
  /\ property_cache' = {} /\ persist' = [a \in Actors |-> Idle]
  /\ UNCHANGED <<CONF, CONF_OLD, data, persists, complete, begun, start>>

\* AddProperty() for a log level or a device.  RemoveProperties() has no effect on the cache.
AddProperty(key, value) ==
  /\ s2p = "UP"
  /\ property_cache' = Override(property_cache, {[key |-> key, value |-> value]})
  /\ UNCHANGED <<s2p, CONF, CONF_OLD, data, persist, persists, complete, begun, start>>

-----------------------------------------------------------------------------
\* Persist(), by its calls.
At(a, step) == s2p = "UP" /\ persist[a].step = step
Go(a, step) == persist' = [persist EXCEPT ![a].step = step]

Begin(a) ==
  /\ At(a, "IDLE") /\ persists < MaxPersists
  /\ persists' = persists + 1
  /\ begun' = IF begun = 0 THEN 1 ELSE 2
  /\ LET alone == \A b \in Actors : persist[b].step = "IDLE" IN
     persist' = [b \in Actors |->
                   IF b = a THEN [Idle EXCEPT !.step = "REMOVE", !.alone = alone, !.inode = persists + 1]
                   ELSE [persist[b] EXCEPT !.alone = FALSE]]
  /\ UNCHANGED <<s2p, property_cache, CONF, CONF_OLD, data, complete, start>>

Remove(a) ==
  /\ At(a, "REMOVE") /\ Go(a, "RENAME")
  /\ CONF_OLD' = NoInode
  /\ UNCHANGED <<s2p, property_cache, CONF, data, persists, complete, begun, start>>

\* As Rename, if the file were copied over instead of being renamed away, and not yet copied.
RenameNothing(a) ==
  /\ At(a, "RENAME") /\ Go(a, "OPEN")
  /\ UNCHANGED <<s2p, property_cache, CONF, CONF_OLD, data, persists, complete, begun, start>>

\* The error code of rename() is not looked at.
Rename(a) ==
  /\ At(a, "RENAME") /\ Go(a, "OPEN")
  /\ IF CONF = NoInode THEN UNCHANGED <<CONF, CONF_OLD>>
     ELSE CONF_OLD' = CONF /\ CONF' = NoInode
  /\ UNCHANGED <<s2p, property_cache, data, persists, complete, begun, start>>

\* The stream is opened, which empties a file that the other actor has created in the meantime, and
\* the properties are copied.  A change of the map during the copy is undefined: s2p crashes (Kill) or
\* has the old or the new value.
Open(a) ==
  /\ At(a, "OPEN")
  /\ LET inode == IF CONF = NoInode THEN persist[a].inode ELSE CONF IN
     /\ CONF' = inode /\ data' = [data EXCEPT ![inode] = NoLines]
     /\ persist' = [persist EXCEPT ![a].step = "WRITE", ![a].inode = inode,
                                   ![a].lines = Lines(property_cache)]
  /\ UNCHANGED <<s2p, property_cache, CONF_OLD, persists, complete, begun, start>>

\* What may be in a file of which not all has been written.
Incomplete(lines) ==
  UNION {{SubSeq(lines, 1, k)}
           \cup {Append(SubSeq(lines, 1, k), [lines[k + 1] EXCEPT !.value = v]) : v \in {"CUT", "NOTHING"}} :
         k \in 0..Len(lines) - 1}

\* Two streams on one file write over each other.
Shares(a) == \E b \in Actors \ {a} : persist[b].step = "WRITE" /\ persist[b].inode = persist[a].inode
Put(a, contents) ==
  \E c \in contents :
    \/ data' = [data EXCEPT ![persist[a].inode] = c]
    \/ /\ Shares(a)
       /\ \E v \in {"CUT", "NOTHING"} :
            data' = [data EXCEPT ![persist[a].inode] = Append(c, [key |-> KeyOrder[1], value |-> v])]

\* The stream writes when its buffer is full.
Write(a) ==
  /\ At(a, "WRITE")
  /\ \E c \in Incomplete(persist[a].lines) : Len(c) > Len(data[persist[a].inode]) /\ Put(a, {c})
  /\ UNCHANGED <<s2p, property_cache, CONF, CONF_OLD, persist, persists, complete, begun, start>>

\* The rest is written when the stream is destroyed.
Close(a) ==
  /\ At(a, "WRITE")
  /\ Put(a, {persist[a].lines})
  /\ persist' = [persist EXCEPT ![a] = Idle]
  /\ IF persist[a].alone THEN complete' = persist[a].lines /\ begun' = 0 ELSE UNCHANGED <<complete, begun>>
  /\ UNCHANGED <<s2p, property_cache, CONF, CONF_OLD, persists, start>>

\* Writing fails, unnoticed if it was the last buffer.
WriteFails(a) ==
  /\ At(a, "WRITE")
  /\ persist' = [persist EXCEPT ![a] = Idle]
  /\ UNCHANGED <<s2p, property_cache, CONF, CONF_OLD, data, persists, complete, begun, start>>

Next ==
  \/ \E c \in CommandLines, i \in BOOLEAN : Start(c, i)
  \/ Kill
  \/ \E k \in {"LOG_LEVEL", "DEVICE_0_0"} : AddProperty(k, "B")
  \/ \E a \in Actors : Begin(a) \/ Remove(a) \/ Rename(a) \/ Open(a) \/ Write(a) \/ Close(a) \/ WriteFails(a)

-----------------------------------------------------------------------------
\* Does the file have these lines, all of them?
Has(inode, lines) == inode # NoInode /\ data[inode] = lines

\* Until a second Persist() begins that has not got to its end, the last complete configuration is in
\* one of the two files, wherever s2p was killed and whatever could not be written
\* (property_handler.cpp:124-140).
ConfigSurvives == begun < 2 /\ complete # NoLines => Has(CONF, complete) \/ Has(CONF_OLD, complete)

\* A start without arguments from a file Persist() has written finds all of it and knows every
\* property; and the command line has priority, unless the file has a device with its LUN and the
\* command line does not (property_handler.cpp:19-58, s2p_core.cpp:137-201).
ConfigFound ==
  /\ start.arguments = {} /\ start.refused = "NO" /\ "DEVICE_0" \notin Keys(Props(start.conf)) =>
       start.cache = Props(start.conf)
  /\ start.refused = "UNKNOWN" =>
       start.arguments # {} \/ \E h \in HandWritten : start.conf = Lines(h)
  /\ start.refused = "NO" =>
       \A p \in start.arguments :
         Normal(p.key) = p.key \/ Normal(p.key) \notin Keys(Props(start.conf)) \cup Keys(start.arguments) =>
           [p EXCEPT !.key = Normal(@)] \in start.cache
=============================================================================
