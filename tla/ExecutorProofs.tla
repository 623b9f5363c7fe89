---------------------------- MODULE ExecutorProofs ----------------------------
(***************************************************************************)
(* Proofs about Executor, for every set of IDs, LUNs and image files and   *)
(* commands of any length: the devices stay consistent between any two     *)
(* steps of a command, the list of reserved files and the image folder     *)
(* agree with the drives, ATTACH attaches all its devices or none, and a   *)
(* restart attaches the devices there were.                                *)
(***************************************************************************)
EXTENDS Executor, SequenceTheorems, FiniteSetTheorems, TLAPS

Todo == Head(todo)

\* The first definition of a command, and what is left after it.
LEMMA TodoParts ==
  ASSUME todo \in Seq(Definition), todo # <<>>
  PROVE  /\ Todo \in Definition /\ Todo = todo[1]
         /\ Len(todo) \in Nat \ {0} /\ DOMAIN todo = 1..Len(todo)
         /\ Tail(todo) \in Seq(Definition) /\ Len(Tail(todo)) = Len(todo) - 1
         /\ DOMAIN Tail(todo) = 1..(Len(todo) - 1)
         /\ \A i \in 1..(Len(todo) - 1) : Tail(todo)[i] = todo[i + 1]
BY HeadTailProperties, EmptySeq, LenProperties DEF Todo

\* What a command is about.
CommandOK ==
  /\ op \in {"NONE", "ATTACH", "DETACH", "INSERT", "EJECT"}
  /\ todo \in Seq(Definition) /\ given \in Seq(Definition)
  /\ Idle <=> todo = <<>>
  /\ before \in [Slot -> DeviceRecord]

\* The tables.
TablesOK ==
  /\ dev \in [Slot -> DeviceRecord]
  /\ reserved_files \in [File -> Slot \cup {NoSlot}]
  /\ property_cache \in [Slot -> Properties]
  /\ reserved_ids \in SUBSET Ids
  /\ images \in SUBSET File
  /\ shrunk \in BOOLEAN

\* TypeOK falls into the tables of the process and the members of the command.
LEMMA TypeParts == TypeOK <=> TablesOK /\ CommandOK
BY DEF TypeOK, TablesOK, CommandOK

\* An empty table of devices is a table.
LEMMA NoDevicesType == NoDevices \in [Slot -> DeviceRecord]
BY DEF NoDevices, NoDevice, DeviceRecord, Maybe, NoNames, PartialData

\* The end of a command leaves no command.
LEMMA FinishTypes ==
  ASSUME Finish
  PROVE  CommandOK'
BY EmptySeq, NoDevicesType DEF Finish, CommandOK, Idle

\* The next definition of a command is one of its definitions.
LEMMA ProceedTypes ==
  ASSUME CommandOK, ~Idle, Proceed
  PROVE  CommandOK'
<1>1. CASE Finish
  BY <1>1, FinishTypes
<1>2. CASE /\ Len(todo) # 1 /\ todo' = Tail(todo)
           /\ UNCHANGED <<op, given, before>>
  <2>1. Tail(todo) \in Seq(Definition) /\ Len(Tail(todo)) = Len(todo) - 1
        /\ Len(todo) \in Nat \ {0}
    BY TodoParts DEF CommandOK
  <2>2. Tail(todo) # <<>>
    <3>1. Len(<<>>) = 0
      BY EmptySeq
    <3>2. Len(Tail(todo)) # 0
      BY <1>2, <2>1
    <3>3. QED
      BY <3>1, <3>2, Zenon
  <2>3. QED
    BY <1>2, <2>1, <2>2 DEF CommandOK, Idle
<1>3. QED
  BY <1>1, <1>2 DEF Proceed

\* The definitions of a command are definitions, and those of an ATTACH name a type.
LEMMA DefinitionTypes ==
  ASSUME NEW o \in {"ATTACH", "DETACH", "INSERT", "EJECT"}
  PROVE  /\ Definitions(o) \subseteq Definition
         /\ o = "ATTACH" => \A d \in Definitions(o) : d.type # NoType
<1>1. GivenName \subseteq PartialData /\ NoNames \in PartialData
  BY ExecutorAssumption DEF NoNames, PartialData
<1>2. QED
  BY <1>1 DEF Definitions, Definition, Maybe, Type, NoType

\* The product data of a new device are complete and fit.
LEMMA NameTypes ==
  ASSUME NEW d \in Definition, d.type \in Type
  PROVE  /\ NameOf(d) \in ProductData /\ NameOf(d) \in PartialData
         /\ NameFits(d.name) => NameFits(NameOf(d))
<1> DEFINE v == d.name.vendor
           p == d.name.product
           e == DefaultName[d.type]
<1>1. v \in Name \cup {NoName} /\ p \in Name \cup {NoName}
  BY DEF Definition, PartialData
<1>2. e \in ProductData /\ NameFits(e) /\ NoName \notin Name
  BY ExecutorAssumption
<1>3. /\ NameOf(d).vendor = IF v = NoName THEN e.vendor ELSE v
      /\ NameOf(d).product = IF p = NoName THEN e.product ELSE p
      /\ NameOf(d) = [vendor |-> NameOf(d).vendor, product |-> NameOf(d).product]
  BY DEF NameOf, Part
<1> HIDE DEF v, p, e
<1>4. e.vendor \in Name /\ e.product \in Name
  BY <1>2 DEF ProductData
<1>5. NameOf(d).vendor \in Name /\ NameOf(d).product \in Name
  BY <1>1, <1>3, <1>4
<1>6. NameOf(d) \in ProductData /\ NameOf(d) \in PartialData
  BY <1>3, <1>5 DEF ProductData, PartialData
<1>7. ASSUME NameFits(d.name)
      PROVE  NameFits(NameOf(d))
  <2>1. /\ v # NoName => Length[v] <= 8
        /\ p # NoName => Length[p] <= 16
    BY <1>7 DEF NameFits, v, p
  <2>2. /\ e.vendor # NoName => Length[e.vendor] <= 8
        /\ e.product # NoName => Length[e.product] <= 16
    BY <1>2 DEF NameFits
  <2>3. QED
    BY <1>2, <1>3, <1>4, <2>1, <2>2 DEF NameFits
<1>8. QED
  BY <1>6, <1>7

\* Received commands.
LEMMA ReceivedTypes ==
  ASSUME TypeOK, NEW o \in {"ATTACH", "DETACH", "INSERT", "EJECT"}, NEW n \in 1..MaxDevices,
         NEW ds \in [1..n -> Definitions(o)], ProcessCmd(o, ds)
  PROVE  CommandOK'
<1>1. Definitions(o) \subseteq Definition
  BY DefinitionTypes
<1>2. n \in Nat \ {0}
  BY ExecutorAssumption
<1>3. ds \in Seq(Definition) /\ ds # <<>>
  BY <1>1, <1>2, SeqDef
<1>4. QED
  BY <1>3 DEF ProcessCmd, CommandOK, TypeOK, Idle

-------------------------------------------------------------------------------
(* The operations on one device, in terms of the tables. *)

\* The state that the operators work on, in terms of the variables.
LEMMA InTables ==
  /\ State.dev = dev /\ State.files = reserved_files /\ State.props = property_cache
  /\ \A s : Present(State, s) <=> dev[s].type # NoType
BY DEF State, Present

\* ATTACH accepts known types only, and names that fit.
LEMMA MayAttachParts ==
  ASSUME NEW st, NEW d, NEW ids, MayAttach(st, d, ids)
  PROVE  d.type # NoType /\ NameFits(d.name)
BY DEF MayAttach, Creatable

\* The list of reserved files after UnreserveFile() of the file of slot s.
LEMMA UnreserveTables ==
  ASSUME TablesOK, NEW s \in Slot
  PROVE  /\ Unreserve(State, s) \in [File -> Slot \cup {NoSlot}]
         /\ \A f \in File : Unreserve(State, s)[f] = IF f = dev[s].file THEN NoSlot ELSE reserved_files[f]
BY ExecutorAssumption DEF Unreserve, State, TablesOK, DeviceRecord, Maybe

\* ReserveFile() changes the entry of its file only.
LEMMA ReserveTables ==
  ASSUME TablesOK, NEW s \in Slot, NEW f \in Maybe
  PROVE  /\ Reserve(State, s, f) \in [File -> Slot \cup {NoSlot}]
         /\ \A g \in File : Reserve(State, s, f)[g] = IF g = f THEN s ELSE reserved_files[g]
BY ExecutorAssumption DEF Reserve, State, TablesOK, Maybe

\* The properties of a new device are properties.
LEMMA SetUpTables ==
  ASSUME TablesOK, NEW s \in Slot, NEW t \in Type \cup {NoType}, NEW n \in PartialData, NEW f \in Maybe
  PROVE  SetUpDeviceProperties(State, s, t, n, f) \in [Slot -> Properties]
<1>1. Swapped(n) \in PartialData
  BY DEF Swapped, PartialData
<1>2. [type |-> t, name |-> Swapped(n), file |-> f] \in Properties
  BY <1>1 DEF Properties
<1>3. QED
  BY <1>2 DEF SetUpDeviceProperties, State, TablesOK

\* What an ATTACH of one device changes.
LEMMA AttachedTables ==
  ASSUME TablesOK, NEW d \in Definition, d.type # NoType, Become(Attached(State, d)),
         UNCHANGED <<reserved_ids, images, shrunk>>
  PROVE  /\ TablesOK'
         /\ FileOf(d) \in Maybe
         /\ dev'[d.slot] = [type |-> d.type, name |-> NameOf(d), removed |-> SupportsImageFile(d.type) /\ FileOf(d) = NoFile,
                            file |-> FileOf(d), last |-> NoFile]
         /\ \A s \in Slot \ {d.slot} : dev'[s] = dev[s]
         /\ \A f \in File : reserved_files'[f] = IF f = FileOf(d) THEN d.slot ELSE reserved_files[f]
<1> DEFINE r == [type |-> d.type, name |-> NameOf(d), removed |-> SupportsImageFile(d.type) /\ FileOf(d) = NoFile,
                 file |-> FileOf(d), last |-> NoFile]
<1>1. /\ d.slot \in Slot /\ d.type \in Type /\ FileOf(d) \in Maybe
      /\ NameOf(d) \in PartialData
  BY NameTypes DEF Definition, FileOf, Maybe
<1>2. r \in DeviceRecord
  BY <1>1 DEF DeviceRecord, Maybe
<1>3. /\ dev' = [dev EXCEPT ![d.slot] = r]
      /\ reserved_files' = Reserve(State, d.slot, FileOf(d))
      /\ property_cache' = SetUpDeviceProperties(State, d.slot, d.type, NameOf(d), FileOf(d))
  BY DEF Become, Attached, State
<1> HIDE DEF r
<1>4. dev' \in [Slot -> DeviceRecord]
  BY <1>1, <1>2, <1>3 DEF TablesOK
<1>5. /\ reserved_files' \in [File -> Slot \cup {NoSlot}]
      /\ property_cache' \in [Slot -> Properties]
      /\ \A f \in File : reserved_files'[f] = IF f = FileOf(d) THEN d.slot ELSE reserved_files[f]
  BY <1>1, <1>3, ReserveTables, SetUpTables
<1>6. TablesOK'
  BY <1>4, <1>5 DEF TablesOK
<1>7. dev'[d.slot] = r /\ \A s \in Slot \ {d.slot} : dev'[s] = dev[s]
  BY <1>1, <1>3 DEF TablesOK
<1>8. QED
  BY <1>1, <1>5, <1>6, <1>7 DEF r

\* What an INSERT into one device changes.
LEMMA InsertedTables ==
  ASSUME TablesOK, NEW d \in Definition, MayInsert(State, d),
         Become(Inserted(State, d)), UNCHANGED <<reserved_ids, images, shrunk>>
  PROVE  /\ TablesOK'
         /\ dev'[d.slot].type = dev[d.slot].type /\ ~dev'[d.slot].removed
         /\ dev'[d.slot].name = dev[d.slot].name
         /\ dev'[d.slot].file = FileToInsert(State, d) /\ dev'[d.slot].last = dev[d.slot].last
         /\ \A s \in Slot \ {d.slot} : dev'[s] = dev[s]
         /\ \A f \in File : reserved_files'[f] =
              IF f = FileToInsert(State, d) THEN d.slot ELSE reserved_files[f]
<1> DEFINE f == FileToInsert(State, d)
           r == [dev[d.slot] EXCEPT !.file = f, !.removed = FALSE]
<1>1. d.slot \in Slot /\ dev[d.slot] \in DeviceRecord /\ f \in Maybe
  BY DEF TablesOK, Definition, FileToInsert, State, DeviceRecord
<1>2. /\ dev' = [dev EXCEPT ![d.slot] = r]
      /\ reserved_files' = Reserve(State, d.slot, f)
      /\ property_cache' = SetUpDeviceProperties(State, d.slot, "SCRM", dev[d.slot].name, f)
  BY <1>1 DEF Become, Inserted, State, TablesOK
<1> HIDE DEF f
<1>3. r \in DeviceRecord /\ r.type = dev[d.slot].type /\ ~r.removed /\ r.file = f
      /\ r.last = dev[d.slot].last /\ r.name = dev[d.slot].name
      /\ dev[d.slot].name \in PartialData
  BY <1>1 DEF DeviceRecord
<1> HIDE DEF r
<1>4. /\ dev' \in [Slot -> DeviceRecord]
      /\ dev'[d.slot] = r /\ \A s \in Slot \ {d.slot} : dev'[s] = dev[s]
  BY <1>1, <1>2, <1>3 DEF TablesOK
<1>5. /\ reserved_files' \in [File -> Slot \cup {NoSlot}]
      /\ property_cache' \in [Slot -> Properties]
      /\ \A g \in File : reserved_files'[g] = IF g = f THEN d.slot ELSE reserved_files[g]
  BY <1>1, <1>2, <1>3, ReserveTables, SetUpTables DEF Type
<1>6. TablesOK'
  BY <1>4, <1>5 DEF TablesOK
<1>7. QED
  BY <1>3, <1>4, <1>5, <1>6 DEF f

\* The file of a failed INSERT is recorded, the medium stays removed.
LEMMA NotOpenedTables ==
  ASSUME TablesOK, NEW d \in Definition, Become(NotOpened(State, d)),
         UNCHANGED <<reserved_ids, images, shrunk>>
  PROVE  /\ TablesOK'
         /\ \A s \in Slot : dev'[s].type = dev[s].type
<1> DEFINE f == FileToInsert(State, d)
           r == [dev[d.slot] EXCEPT !.file = f]
<1>1. d.slot \in Slot /\ dev[d.slot] \in DeviceRecord /\ f \in Maybe
  BY DEF TablesOK, Definition, FileToInsert, State, DeviceRecord
<1>2. /\ dev' = dev \/ dev' = [dev EXCEPT ![d.slot] = r]
      /\ UNCHANGED <<reserved_files, property_cache>>
  BY <1>1 DEF Become, NotOpened, State, TablesOK
<1> HIDE DEF f
<1>3. r \in DeviceRecord /\ r.type = dev[d.slot].type
  BY <1>1 DEF DeviceRecord
<1> HIDE DEF r
<1>4. QED
  BY <1>1, <1>2, <1>3 DEF TablesOK

\* What an EJECT of one device changes.
LEMMA EjectedTables ==
  ASSUME TablesOK, NEW s \in Slot, Become(Ejected(State, s)),
         UNCHANGED <<reserved_ids, images>>, shrunk' \in BOOLEAN
  PROVE  /\ TablesOK'
         /\ dev'[s].type = dev[s].type
         /\ \A t \in Slot \ {s} : dev'[t] = dev[t]
         /\ dev[s].removed => UNCHANGED <<dev, reserved_files>>
         /\ ~dev[s].removed =>
              /\ dev'[s].removed /\ dev'[s].file = NoFile
              /\ \A f \in File :
                   reserved_files'[f] = IF f = dev[s].file THEN NoSlot ELSE reserved_files[f]
<1>1. CASE dev[s].removed
  BY <1>1 DEF Become, Ejected, State, TablesOK
<1>2. CASE ~dev[s].removed
  <2> DEFINE r == [type |-> dev[s].type, name |-> dev[s].name, removed |-> TRUE, file |-> NoFile, last |-> dev[s].file]
  <2>1. r \in DeviceRecord
    BY DEF TablesOK, DeviceRecord, Maybe
  <2>2. /\ dev' = [dev EXCEPT ![s] = r]
        /\ reserved_files' = Unreserve(State, s)
        /\ UNCHANGED property_cache
    BY <1>2 DEF Become, Ejected, State, TablesOK
  <2>3. r.type = dev[s].type /\ r.removed /\ r.file = NoFile
    OBVIOUS
  <2> HIDE DEF r
  <2>4. /\ dev' \in [Slot -> DeviceRecord]
        /\ dev'[s] = r /\ \A t \in Slot \ {s} : dev'[t] = dev[t]
    BY <2>1, <2>2 DEF TablesOK
  <2>5. /\ reserved_files' \in [File -> Slot \cup {NoSlot}]
        /\ \A f \in File : reserved_files'[f] = IF f = dev[s].file THEN NoSlot ELSE reserved_files[f]
    BY <2>2, UnreserveTables
  <2>6. TablesOK'
    BY <2>2, <2>4, <2>5 DEF TablesOK
  <2>7. QED
    BY <1>2, <2>3, <2>4, <2>5, <2>6
<1>3. QED
  BY <1>1, <1>2

\* What a DETACH of one device changes: its file is free again.
LEMMA DetachedTables ==
  ASSUME TablesOK, NEW s \in Slot, Become(Detached(State, s)),
         UNCHANGED <<reserved_ids, images>>, shrunk' \in BOOLEAN
  PROVE  /\ TablesOK'
         /\ dev'[s] = NoDevice
         /\ \A t \in Slot \ {s} : dev'[t] = dev[t]
         /\ \A f \in File : reserved_files'[f] = IF f = dev[s].file THEN NoSlot ELSE reserved_files[f]
<1>1. NoDevice \in DeviceRecord
  BY DEF NoDevice, DeviceRecord, Maybe, NoNames, PartialData
<1>2. /\ dev' = [dev EXCEPT ![s] = NoDevice]
      /\ reserved_files' = Unreserve(State, s)
      /\ UNCHANGED property_cache
  BY DEF Become, Detached, State
<1>3. /\ dev' \in [Slot -> DeviceRecord]
      /\ dev'[s] = NoDevice /\ \A t \in Slot \ {s} : dev'[t] = dev[t]
  BY <1>1, <1>2 DEF TablesOK
<1>4. /\ reserved_files' \in [File -> Slot \cup {NoSlot}]
      /\ \A f \in File : reserved_files'[f] = IF f = dev[s].file THEN NoSlot ELSE reserved_files[f]
  BY <1>2, UnreserveTables
<1>5. QED
  BY <1>2, <1>3, <1>4 DEF TablesOK

\* DetachAll() leaves no device.
LEMMA DetachAllTables ==
  ASSUME TablesOK, DetachAll
  PROVE  /\ TablesOK' /\ dev' = NoDevices
         /\ \A f \in File : reserved_files'[f] =
              IF \E s \in Slot : dev[s].type # NoType /\ dev[s].file = f THEN NoSlot ELSE reserved_files[f]
<1>1. /\ dev' = NoDevices /\ dev' \in [Slot -> DeviceRecord]
      /\ UNCHANGED <<property_cache, reserved_ids, images>> /\ shrunk' = TRUE
      /\ reserved_files' = [f \in File |->
            IF \E s \in Slot : dev[s].type # NoType /\ dev[s].file = f THEN NoSlot ELSE reserved_files[f]]
  BY NoDevicesType, InTables DEF DetachAll
<1>2. reserved_files' \in [File -> Slot \cup {NoSlot}]
  BY <1>1 DEF TablesOK
<1>3. QED
  BY <1>1, <1>2 DEF TablesOK

-------------------------------------------------------------------------------
(* The devices are consistent. *)

SetsOK == Lun0Present /\ ReservedIdsFree /\ UniqueTypes

\* Only types, IDs and LUNs matter for this.
LEMMA SameTypes ==
  ASSUME SetsOK, UNCHANGED reserved_ids, \A s \in Slot : dev'[s].type = dev[s].type
  PROVE  SetsOK'
BY DEF SetsOK, Lun0Present, ReservedIdsFree, UniqueTypes, Present, State

\* A device that may be attached keeps the rules for IDs and LUNs.
LEMMA AttachKeepsSets ==
  ASSUME SetsOK, NEW d \in Definition, MayAttach(State, d, reserved_ids), Attachable(State, d),
         UNCHANGED reserved_ids, dev'[d.slot].type = d.type,
         \A s \in Slot \ {d.slot} : dev'[s] = dev[s]
  PROVE  SetsOK'
<1>1. /\ d.slot \in Slot /\ dev[d.slot].type = NoType
      /\ Id(d.slot) \notin reserved_ids
      /\ Unique(d.type) => \A s \in Slot : dev[s].type # d.type
  BY InTables DEF Definition, MayAttach, Creatable
<1>2. /\ \A s \in Slot : dev[s].type # NoType =>
            \E t \in Slot : dev[t].type # NoType /\ Id(t) = Id(s) /\ Unit(t) = 0
      /\ \A s \in Slot : dev[s].type # NoType => Id(s) \notin reserved_ids
      /\ \A s, t \in Slot : dev[s].type = dev[t].type /\ Unique(dev[s].type) => s = t
  BY InTables DEF SetsOK, Lun0Present, ReservedIdsFree, UniqueTypes
<1>3. Unit(d.slot) = 0 \/ \E s \in Slot : dev[s].type # NoType /\ Id(s) = Id(d.slot)
  BY InTables DEF Attachable, HasController, AttachedSlots
<1>4. \A s \in Slot : dev'[s].type = IF s = d.slot THEN d.type ELSE dev[s].type
  OBVIOUS
<1>5. \A s \in Slot : dev'[s].type # NoType =>
        \E t \in Slot : dev'[t].type # NoType /\ Id(t) = Id(s) /\ Unit(t) = 0
  <2> SUFFICES ASSUME NEW s \in Slot, dev'[s].type # NoType
               PROVE  \E t \in Slot : dev'[t].type # NoType /\ Id(t) = Id(s) /\ Unit(t) = 0
    OBVIOUS
  <2>1. CASE \E u \in Slot : dev[u].type # NoType /\ Id(u) = Id(s)
    <3>1. PICK t \in Slot : dev[t].type # NoType /\ Id(t) = Id(s) /\ Unit(t) = 0
      BY <1>2, <2>1
    <3>2. t # d.slot
      BY <1>1, <3>1
    <3>3. QED
      BY <1>4, <3>1, <3>2
  <2>2. CASE s = d.slot /\ Unit(d.slot) = 0
    BY <1>1, <2>2
  <2>3. QED
    BY <1>3, <1>4, <2>1, <2>2
<1>6. \A s \in Slot : dev'[s].type # NoType => Id(s) \notin reserved_ids
  BY <1>1, <1>2, <1>4
<1>7. \A s, t \in Slot : dev'[s].type = dev'[t].type /\ Unique(dev'[s].type) => s = t
  BY <1>1, <1>2, <1>4
<1>8. QED
  BY <1>5, <1>6, <1>7 DEF SetsOK, Lun0Present, ReservedIdsFree, UniqueTypes, Present, State

\* A device that may be detached keeps them, because LUN 0 goes last.
LEMMA DetachKeepsSets ==
  ASSUME SetsOK, NEW d \in Slot, MayDetach(State, d), UNCHANGED reserved_ids,
         dev'[d] = NoDevice, \A s \in Slot \ {d} : dev'[s] = dev[s]
  PROVE  SetsOK'
<1>1. Unit(d) = 0 => \A s \in Slot : dev[s].type # NoType => (Id(s) = Id(d) => s = d)
  BY InTables DEF MayDetach, AttachedSlots
<1>2. dev'[d].type = NoType /\ ~Unique(NoType)
  BY DEF NoDevice, NoType, Unique
<1>3. \A s \in Slot : dev'[s].type # NoType =>
        \E t \in Slot : dev'[t].type # NoType /\ Id(t) = Id(s) /\ Unit(t) = 0
  <2> SUFFICES ASSUME NEW s \in Slot, dev'[s].type # NoType
               PROVE  \E t \in Slot : dev'[t].type # NoType /\ Id(t) = Id(s) /\ Unit(t) = 0
    OBVIOUS
  <2>1. s # d /\ dev[s].type # NoType
    BY <1>2
  <2>2. PICK t \in Slot : dev[t].type # NoType /\ Id(t) = Id(s) /\ Unit(t) = 0
    BY <2>1, InTables DEF SetsOK, Lun0Present
  <2>3. t # d
    BY <1>1, <2>1, <2>2
  <2>4. QED
    BY <2>2, <2>3
<1>4. \A s \in Slot : dev'[s].type \in {dev[s].type, NoType}
  BY <1>2
<1>5. \A s \in Slot : dev'[s].type # NoType => Id(s) \notin reserved_ids
  BY <1>4, InTables DEF SetsOK, ReservedIdsFree
<1>6. \A s, t \in Slot : dev'[s].type = dev'[t].type /\ Unique(dev'[s].type) => s = t
  BY <1>2, <1>4 DEF SetsOK, UniqueTypes
<1>7. QED
  BY <1>3, <1>5, <1>6 DEF SetsOK, Lun0Present, ReservedIdsFree, UniqueTypes, Present, State

\* No devices keep them.
LEMMA NoneKeepsSets ==
  ASSUME dev' = NoDevices
  PROVE  SetsOK'
<1>1. \A s \in Slot : dev'[s].type = NoType /\ ~Unique(NoType)
  BY DEF NoDevices, NoDevice, NoType, Unique
<1>2. QED
  BY <1>1 DEF SetsOK, Lun0Present, ReservedIdsFree, UniqueTypes, Present, State

\* One step, whatever becomes of the command.
LEMMA KeepsDevices ==
  ASSUME TypeOK, SetsOK, [Next]_vars
  PROVE  TypeOK' /\ SetsOK'
<1>1. TablesOK /\ CommandOK
  BY TypeParts
<1>2. ~Idle => Todo \in Definition /\ Todo.slot \in Slot
  BY <1>1, TodoParts DEF CommandOK, Definition
<1>3. CASE \E o \in {"ATTACH", "DETACH", "INSERT", "EJECT"}, n \in 1..MaxDevices :
             \E ds \in [1..n -> Definitions(o)] : ProcessCmd(o, ds)
  <2>1. CommandOK'
    BY <1>3, ReceivedTypes
  <2>2. UNCHANGED <<dev, reserved_files, property_cache, reserved_ids, images, shrunk>>
    BY <1>3 DEF ProcessCmd, devices
  <2>3. QED
    BY <1>1, <2>1, <2>2, SameTypes DEF TypeOK, TablesOK, CommandOK
<1>4. CASE Attach
  <2>1. ~Idle /\ UNCHANGED <<reserved_ids, images, shrunk>>
    BY <1>4 DEF Attach, Idle
  <2>2. CASE /\ MayAttach(State, Todo, reserved_ids) /\ Attachable(State, Todo)
             /\ Become(Attached(State, Todo)) /\ Proceed
    <3>1. CommandOK'
      BY <1>1, <2>1, <2>2, ProceedTypes
    <3>2. /\ TablesOK' /\ dev'[Todo.slot].type = Todo.type
          /\ \A s \in Slot \ {Todo.slot} : dev'[s] = dev[s]
      <4> DEFINE d == Todo
      <4>1. TablesOK /\ d \in Definition /\ Become(Attached(State, d))
        BY <1>1, <1>2, <2>1, <2>2
      <4>0. d.type # NoType
        BY <2>2, MayAttachParts
      <4>2. UNCHANGED <<reserved_ids, images, shrunk>>
        BY <2>1
      <4> HIDE DEF d
      <4>3. /\ TablesOK' /\ dev'[d.slot].type = d.type
            /\ \A s \in Slot \ {d.slot} : dev'[s] = dev[s]
        <5>1. /\ TablesOK' /\ \A s \in Slot \ {d.slot} : dev'[s] = dev[s]
              /\ dev'[d.slot] = [type |-> d.type, name |-> NameOf(d), removed |-> SupportsImageFile(d.type) /\ FileOf(d) = NoFile,
                                 file |-> FileOf(d), last |-> NoFile]
          BY <4>0, <4>1, <4>2, AttachedTables, Zenon
        <5>2. QED
          BY <5>1
      <4>4. QED
        BY <4>3 DEF d
    <3>3. SetsOK'
      BY <1>2, <2>1, <2>2, <3>2, AttachKeepsSets
    <3>4. QED
      BY <3>1, <3>2, <3>3 DEF TypeOK, TablesOK, CommandOK
  <2>3. CASE Finish /\ UNCHANGED devices
    BY <1>1, <2>1, <2>3, FinishTypes, SameTypes DEF devices, TypeOK, TablesOK, CommandOK
  <2>4. QED
    BY <1>4, <2>2, <2>3 DEF Attach, Todo
<1>5. CASE Insert
  <2>1. ~Idle /\ UNCHANGED <<reserved_ids, images, shrunk>>
    BY <1>5 DEF Insert, Idle
  <2>2. CASE MayInsert(State, Todo) /\ Become(Inserted(State, Todo)) /\ Proceed
    <3>1. CommandOK'
      BY <1>1, <2>1, <2>2, ProceedTypes
    <3>2. TablesOK' /\ \A s \in Slot : dev'[s].type = dev[s].type
      BY <1>1, <1>2, <2>1, <2>2, InsertedTables
    <3>3. QED
      BY <2>1, <3>1, <3>2, SameTypes DEF TypeOK, TablesOK, CommandOK
  <2>3. CASE Become(IF MayInsert(State, Todo) THEN NotOpened(State, Todo) ELSE State) /\ Finish
    <3>1. CommandOK'
      BY <2>3, FinishTypes
    <3>2. TablesOK' /\ \A s \in Slot : dev'[s].type = dev[s].type
      <4>1. CASE Become(NotOpened(State, Todo))
        BY <1>1, <1>2, <2>1, <4>1, NotOpenedTables
      <4>2. CASE Become(State)
        BY <1>1, <2>1, <4>2, InTables DEF Become, TablesOK
      <4>3. QED
        BY <2>3, <4>1, <4>2
    <3>3. QED
      BY <2>1, <3>1, <3>2, SameTypes DEF TypeOK, TablesOK, CommandOK
  <2>4. QED
    BY <1>5, <2>2, <2>3 DEF Insert, Todo
<1>6. CASE Eject
  <2>1. /\ ~Idle /\ UNCHANGED <<reserved_ids, images>> /\ shrunk' = TRUE
        /\ Become(Ejected(State, Todo.slot)) /\ Proceed
    BY <1>6 DEF Eject, Idle, Todo
  <2>2. CommandOK'
    BY <1>1, <2>1, ProceedTypes
  <2>3. TablesOK' /\ \A s \in Slot : dev'[s].type = dev[s].type
    BY <1>1, <1>2, <2>1, EjectedTables
  <2>4. QED
    BY <2>1, <2>2, <2>3, SameTypes DEF TypeOK, TablesOK, CommandOK
<1>7. CASE Detach
  <2>1. ~Idle /\ UNCHANGED <<reserved_ids, images>>
    BY <1>7 DEF Detach, Idle
  <2>2. CASE /\ MayDetach(State, Todo.slot) /\ Become(Detached(State, Todo.slot))
             /\ Proceed /\ shrunk' = TRUE
    <3>1. CommandOK'
      BY <1>1, <2>1, <2>2, ProceedTypes
    <3>2. /\ TablesOK' /\ dev'[Todo.slot] = NoDevice
          /\ \A s \in Slot \ {Todo.slot} : dev'[s] = dev[s]
      BY <1>1, <1>2, <2>1, <2>2, DetachedTables
    <3>3. SetsOK'
      BY <1>2, <2>1, <2>2, <3>2, DetachKeepsSets
    <3>4. QED
      BY <3>1, <3>2, <3>3 DEF TypeOK, TablesOK, CommandOK
  <2>3. CASE Finish /\ UNCHANGED <<devices, shrunk>>
    BY <1>1, <2>1, <2>3, FinishTypes, SameTypes DEF devices, TypeOK, TablesOK, CommandOK
  <2>4. QED
    BY <1>7, <2>2, <2>3 DEF Detach, Todo
<1>8. CASE DetachAll
  <2>1. TablesOK' /\ SetsOK'
    BY <1>1, <1>8, DetachAllTables, NoneKeepsSets
  <2>2. CommandOK'
    BY <1>1, <1>8 DEF DetachAll, executing, CommandOK, Idle
  <2>3. QED
    BY <2>1, <2>2 DEF TypeOK, TablesOK, CommandOK
<1>9. CASE \E ids \in SUBSET Ids : ReserveIds(ids)
  <2>1. PICK ids \in SUBSET Ids : ReserveIds(ids)
    BY <1>9
  <2>2. /\ reserved_ids' = ids
        /\ \A s \in Slot : dev[s].type # NoType => Id(s) \notin ids
        /\ UNCHANGED <<devices, images, executing, shrunk>>
    BY <2>1, InTables DEF ReserveIds, HasController, AttachedSlots, Ids
  <2>3. TypeOK'
    BY <2>2 DEF TypeOK, devices, executing, Idle
  <2>4. SetsOK'
    BY <2>2 DEF devices, SetsOK, Lun0Present, ReservedIdsFree, UniqueTypes, Present, State
  <2>5. QED
    BY <2>3, <2>4
<1>10. CASE \/ \E f \in File : CreateImage(f) \/ DeleteImage(f)
            \/ \E from, to \in File : RenameImage(from, to) \/ CopyImage(from, to)
  <2>1. images' \in SUBSET File
    BY <1>1, <1>10 DEF CreateImage, DeleteImage, RenameImage, CopyImage, MayMove, TablesOK
  <2>2. UNCHANGED <<devices, reserved_ids, executing, shrunk>>
    BY <1>10 DEF CreateImage, DeleteImage, RenameImage, CopyImage
  <2>3. TypeOK'
    BY <2>1, <2>2 DEF TypeOK, devices, executing, Idle
  <2>4. QED
    BY <2>2, <2>3, SameTypes DEF devices
<1>11. CASE \E s \in Slot : HostEject(s)
  <2>1. PICK s \in Slot : HostEject(s)
    BY <1>11
  <2>2. /\ UNCHANGED <<reserved_ids, images, executing>> /\ shrunk' = TRUE
        /\ Become(Ejected(State, s))
    BY <2>1 DEF HostEject
  <2>3. TablesOK' /\ \A t \in Slot : dev'[t].type = dev[t].type
    BY <1>1, <2>2, EjectedTables
  <2>4. CommandOK'
    BY <1>1, <2>2 DEF executing, CommandOK, Idle
  <2>5. QED
    BY <2>2, <2>3, <2>4, SameTypes DEF TypeOK, TablesOK, CommandOK
<1>12. CASE UNCHANGED vars
  <2>1. TypeOK'
    BY <1>12 DEF vars, devices, executing, TypeOK, Idle
  <2>2. QED
    BY <1>12, <2>1, SameTypes DEF vars, devices
<1>13. QED
  BY <1>3, <1>4, <1>5, <1>6, <1>7, <1>8, <1>9, <1>10, <1>11, <1>12 DEF Next

\* The devices are consistent at the start.
LEMMA InitDevices == Init => TypeOK /\ SetsOK
<1> SUFFICES ASSUME Init PROVE TypeOK /\ SetsOK
  OBVIOUS
<1>1. \A s \in Slot : dev[s].type = NoType /\ ~Unique(NoType)
  BY DEF Init, NoDevices, NoDevice, NoType, Unique
<1>2. SetsOK
  BY <1>1 DEF SetsOK, Lun0Present, ReservedIdsFree, UniqueTypes, Present, State
<1>3. TablesOK
  BY NoDevicesType
  DEF Init, TablesOK, NoFiles, NoProperties, Properties, Maybe, NoNames, PartialData
<1>4. CommandOK
  BY NoDevicesType, EmptySeq DEF Init, CommandOK, Idle
<1>5. QED
  BY <1>2, <1>3, <1>4, TypeParts

\* Every target has LUN 0, no device has a reserved ID, and a device of a unique type is
\* attached once, between any two steps of the commands that attach and detach them.
THEOREM DevicesStayConsistent == Spec => []DevicesConsistent
<1>1. TypeOK /\ SetsOK /\ [Next]_vars => TypeOK' /\ SetsOK'
  BY KeepsDevices
<1>2. TypeOK /\ SetsOK => DevicesConsistent
  BY DEF SetsOK, DevicesConsistent
<1>3. QED
  BY <1>1, <1>2, InitDevices, PTL DEF Spec

-------------------------------------------------------------------------------
(* The files. *)

\* No drive without a medium, and no free slot, has a file.
NamesFit == \A s \in Slot : dev[s].removed \/ dev[s].type = NoType => dev[s].file = NoFile

FilesOK == FilesMatch /\ UsedExists /\ NamesFit

\* The files that are still to be inserted exist: images change between commands only.
PendingExist ==
  op = "INSERT" => \A k \in DOMAIN todo :
    \/ todo[k].file \in images
    \/ todo[k].file = NoFile /\ dev[todo[k].slot].last \in images \cup {NoFile}

FilesInv == FilesOK /\ PendingExist

\* A file in a drive is reserved, a medium that is there too.
LEMMA FileReserved ==
  ASSUME FilesOK, TablesOK, NEW s \in Slot, dev[s].file # NoFile
  PROVE  dev[s].file \in File /\ reserved_files[dev[s].file] = s /\ ~dev[s].removed
<1>1. dev[s].file \in File
  BY DEF TablesOK, DeviceRecord, Maybe
<1>2. ~dev[s].removed
  BY DEF FilesOK, NamesFit
<1>3. QED
  BY <1>1, <1>2 DEF FilesOK, FilesMatch

\* A file comes into a slot that has none.
LEMMA FileEnters ==
  ASSUME FilesOK, TablesOK, NEW s \in Slot, NEW f \in Maybe,
         f # NoFile => reserved_files[f] = NoSlot /\ f \in images,
         dev[s].file = NoFile, UNCHANGED images,
         dev'[s].file = f, dev'[s].removed \/ dev'[s].type = NoType => f = NoFile,
         f # NoFile => ~dev'[s].removed,
         \A t \in Slot \ {s} : dev'[t] = dev[t],
         \A g \in File : reserved_files'[g] = IF g = f THEN s ELSE reserved_files[g]
  PROVE  FilesOK'
<1>1. NamesFit'
  BY DEF FilesOK, NamesFit
<1>2. UsedExists'
  BY DEF FilesOK, UsedExists
<1>3. ASSUME NEW g \in File, NEW t \in Slot
      PROVE  reserved_files'[g] = t <=> dev'[t].file = g /\ ~dev'[t].removed
  <2>0. g # NoFile
    BY ExecutorAssumption
  <2>1. reserved_files[g] # s
    BY <2>0 DEF FilesOK, FilesMatch
  <2>2. CASE t = s
    BY <2>0, <2>1, <2>2
  <2>3. CASE t # s /\ g = f
    <3>1. reserved_files[g] = NoSlot /\ NoSlot # t
      BY <2>0, <2>3, ExecutorAssumption
    <3>2. ~(dev[t].file = g /\ ~dev[t].removed)
      BY <3>1 DEF FilesOK, FilesMatch
    <3>3. QED
      BY <2>3, <3>2
  <2>4. CASE t # s /\ g # f
    BY <2>4 DEF FilesOK, FilesMatch
  <2>5. QED
    BY <2>2, <2>3, <2>4
<1>4. QED
  BY <1>1, <1>2, <1>3 DEF FilesOK, FilesMatch

\* The file of a slot leaves it.
LEMMA FileLeaves ==
  ASSUME FilesOK, TablesOK, NEW s \in Slot, UNCHANGED images,
         dev'[s].file = NoFile,
         \A t \in Slot \ {s} : dev'[t] = dev[t],
         \A g \in File : reserved_files'[g] = IF g = dev[s].file THEN NoSlot ELSE reserved_files[g]
  PROVE  FilesOK'
<1>1. NamesFit'
  BY DEF FilesOK, NamesFit
<1>2. UsedExists'
  BY DEF FilesOK, UsedExists
<1>3. ASSUME NEW g \in File, NEW t \in Slot
      PROVE  reserved_files'[g] = t <=> dev'[t].file = g /\ ~dev'[t].removed
  <2>0. g # NoFile /\ NoSlot # t
    BY ExecutorAssumption
  <2>1. g = dev[s].file => reserved_files[g] = s
    BY <2>0, FileReserved
  <2>2. reserved_files[g] = s => g = dev[s].file
    BY DEF FilesOK, FilesMatch
  <2>3. CASE t = s
    BY <2>0, <2>2, <2>3
  <2>4. CASE t # s
    BY <2>0, <2>1, <2>4 DEF FilesOK, FilesMatch
  <2>5. QED
    BY <2>3, <2>4
<1>4. QED
  BY <1>1, <1>2, <1>3 DEF FilesOK, FilesMatch

\* Nothing changes but the types, or the images around the files in use.
LEMMA FilesStay ==
  ASSUME FilesOK, TablesOK, UNCHANGED <<dev, reserved_files>>,
         \A f \in images \ images' : f \in File /\ reserved_files[f] = NoSlot
  PROVE  FilesOK'
<1>1. UsedExists'
  <2> SUFFICES ASSUME NEW s \in Slot, dev[s].file # NoFile
               PROVE  dev[s].file \in images'
    BY DEF UsedExists
  <2>1. reserved_files[dev[s].file] = s /\ s # NoSlot
    BY FileReserved, ExecutorAssumption
  <2>2. dev[s].file \in images
    BY DEF FilesOK, UsedExists
  <2>3. QED
    BY <2>1, <2>2
<1>2. QED
  BY <1>1 DEF FilesOK, FilesMatch, NamesFit

\* DETACH_ALL frees every file.
LEMMA AllFilesLeave ==
  ASSUME FilesOK, TablesOK, DetachAll
  PROVE  FilesOK'
<1>1. /\ dev' = NoDevices
      /\ \A f \in File : reserved_files'[f] =
           IF \E s \in Slot : dev[s].type # NoType /\ dev[s].file = f THEN NoSlot ELSE reserved_files[f]
  BY DetachAllTables
<1>2. \A s \in Slot : dev'[s].file = NoFile
  BY <1>1 DEF NoDevices, NoDevice
<1>3. ASSUME NEW g \in File
      PROVE  reserved_files'[g] = NoSlot
  <2>0. g # NoFile
    BY ExecutorAssumption
  <2>1. CASE reserved_files[g] \in Slot
    <3> DEFINE s == reserved_files[g]
    <3>1. s \in Slot /\ dev[s].file = g
      BY <2>1 DEF FilesOK, FilesMatch
    <3>2. dev[s].type # NoType
      BY <2>0, <3>1 DEF FilesOK, NamesFit
    <3>3. QED
      BY <1>1, <3>1, <3>2
  <2>2. CASE reserved_files[g] = NoSlot
    BY <1>1, <2>2
  <2>3. QED
    BY <2>1, <2>2 DEF TablesOK
<1>4. QED
  BY <1>2, <1>3, ExecutorAssumption DEF FilesOK, FilesMatch, UsedExists, NamesFit

\* The command in execution ends, or goes on with the same operation.
LEMMA SameOperation ==
  ASSUME Proceed \/ Finish
  PROVE  op' \in {op, "NONE"}
BY DEF Proceed, Finish

\* An ATTACH, of which a device can fail, keeps files and devices together.
LEMMA AttachKeepsFiles ==
  ASSUME FilesOK, TypeOK, Attach
  PROVE  FilesOK'
<1>1. TablesOK /\ op = "ATTACH" /\ UNCHANGED <<reserved_ids, images, shrunk>>
  BY TypeParts DEF Attach
<1> DEFINE d == Todo
<1>2. d \in Definition /\ d.slot \in Slot
  BY <1>1, TodoParts DEF TypeOK, Idle, Definition
<1> HIDE DEF d
<1>3. CASE MayAttach(State, d, reserved_ids) /\ Become(Attached(State, d))
  <2> DEFINE f == FileOf(d)
  <2>1. /\ dev[d.slot].type = NoType
        /\ f # NoFile => reserved_files[d.file] = NoSlot /\ d.file \in images /\ f = d.file
    BY <1>3, InTables DEF MayAttach, Usable, FileOf
  <2>2. /\ f \in Maybe
        /\ dev'[d.slot] = [type |-> d.type, name |-> NameOf(d), removed |-> SupportsImageFile(d.type) /\ f = NoFile,
                           file |-> f, last |-> NoFile]
        /\ \A t \in Slot \ {d.slot} : dev'[t] = dev[t]
        /\ \A g \in File : reserved_files'[g] = IF g = f THEN d.slot ELSE reserved_files[g]
    BY <1>1, <1>2, <1>3, MayAttachParts, AttachedTables, Zenon
  <2>3. f # NoFile => d.type # NoType
    BY DEF FileOf, SupportsImageFile, NoType
  <2> HIDE DEF f
  <2>4. /\ dev'[d.slot].file = f /\ dev'[d.slot].type = d.type
        /\ dev'[d.slot].removed = (SupportsImageFile(d.type) /\ f = NoFile)
    <3> DEFINE r == SupportsImageFile(d.type) /\ f = NoFile
    <3>1. dev'[d.slot] = [type |-> d.type, name |-> NameOf(d), removed |-> r, file |-> f, last |-> NoFile]
      BY <2>2, Zenon
    <3> HIDE DEF r
    <3>2. dev'[d.slot].file = f /\ dev'[d.slot].type = d.type /\ dev'[d.slot].removed = r
      BY <3>1
    <3>3. QED
      BY <3>2, Zenon DEF r
  <2>5. /\ dev'[d.slot].removed => f = NoFile
        /\ f # NoFile => ~dev'[d.slot].removed
    BY <2>4, Zenon
  <2>6. dev[d.slot].file = NoFile
    BY <1>2, <2>1 DEF FilesOK, NamesFit
  <2>7. QED
    BY <1>1, <1>2, <2>1, <2>2, <2>3, <2>4, <2>5, <2>6, FileEnters
<1>4. CASE UNCHANGED devices
  BY <1>1, <1>4, FilesStay DEF devices
<1>5. QED
  BY <1>3, <1>4 DEF Attach, d, Todo

\* An INSERT keeps files and devices together, when its files exist.
LEMMA InsertKeepsFiles ==
  ASSUME FilesInv, TypeOK, Insert
  PROVE  FilesInv'
<1>1. TablesOK /\ op = "INSERT" /\ UNCHANGED <<reserved_ids, images, shrunk>>
  BY TypeParts DEF Insert
<1> DEFINE d == Todo
           f == FileToInsert(State, d)
<1>2. /\ d \in Definition /\ d.slot \in Slot 
      /\ todo # <<>> /\ todo \in Seq(Definition)
      /\ 1 \in DOMAIN todo /\ d = todo[1]
  BY <1>1, TodoParts DEF TypeOK, Idle, Definition
<1>0. f \in images \cup {NoFile}
  <2>1. \/ d.file \in images
        \/ d.file = NoFile /\ dev[d.slot].last \in images \cup {NoFile}
    BY <1>1, <1>2 DEF FilesInv, PendingExist
  <2>2. f = IF d.file # NoFile THEN d.file ELSE dev[d.slot].last
    BY DEF FileToInsert, State
  <2>3. QED
    BY <2>1, <2>2, <1>1, ExecutorAssumption DEF TablesOK
<1> HIDE DEF d
<1>3. CASE /\ MayInsert(State, d) /\ Usable(State, f)
           /\ Become(Inserted(State, d)) /\ Proceed
  <2>1. /\ f # NoFile /\ dev[d.slot].removed /\ dev[d.slot].type # NoType
        /\ reserved_files[f] = NoSlot /\ f \in images
    BY <1>3, InTables DEF MayInsert, Usable, NoType
  <2>2. f \in Maybe /\ dev[d.slot].file = NoFile
    BY <1>0, <1>1, <1>2, <2>1 DEF TablesOK, Maybe, FilesInv, FilesOK, NamesFit
  <2>3. /\ dev'[d.slot].type = dev[d.slot].type /\ ~dev'[d.slot].removed
        /\ dev'[d.slot].file = f /\ dev'[d.slot].last = dev[d.slot].last
        /\ \A s \in Slot \ {d.slot} : dev'[s] = dev[s]
        /\ \A g \in File : reserved_files'[g] = IF g = f THEN d.slot ELSE reserved_files[g]
    BY <1>1, <1>2, <1>3, InsertedTables, Zenon
  <2> HIDE DEF f
  <2>4. FilesOK'
    BY <1>1, <1>2, <2>1, <2>2, <2>3, FileEnters DEF FilesInv
  <2>5. PendingExist'
    <3>1. CASE Finish
      BY <3>1 DEF PendingExist, Finish
    <3>2. CASE todo' = Tail(todo)
      <4> SUFFICES ASSUME NEW k \in DOMAIN todo'
                   PROVE  \/ todo'[k].file \in images'
                          \/ todo'[k].file = NoFile /\ dev'[todo'[k].slot].last \in images' \cup {NoFile}
        BY DEF PendingExist
      <4> DEFINE e == todo[k + 1]
      <4>1. k + 1 \in DOMAIN todo /\ todo'[k] = e /\ e \in Definition
        BY <1>2, <3>2, TodoParts
      <4>2. \/ e.file \in images
            \/ e.file = NoFile /\ dev[e.slot].last \in images \cup {NoFile}
        BY <1>1, <4>1 DEF FilesInv, PendingExist
      <4> HIDE DEF e
      <4>3. e.slot \in Slot
        BY <4>1 DEF Definition
      <4>4. dev'[e.slot].last = dev[e.slot].last
        BY <2>3, <4>3
      <4>5. QED
        BY <1>1, <4>1, <4>2, <4>4
    <3>3. QED
      BY <1>3, <3>1, <3>2 DEF Proceed
  <2>6. QED
    BY <2>4, <2>5 DEF FilesInv
<1>4. CASE /\ ~(MayInsert(State, d) /\ Usable(State, f))
           /\ Become(IF MayInsert(State, d) THEN NotOpened(State, d) ELSE State) /\ Finish
  <2>1. UNCHANGED <<dev, reserved_files>>
    <3>1. CASE ~MayInsert(State, d)
      BY <1>4, <3>1 DEF Become, State
    <3>2. CASE MayInsert(State, d)
      <4>1. f # NoFile /\ f \in images
        BY <1>0, <3>2 DEF MayInsert
      <4>2. State.files[f] # NoSlot
        BY <1>4, <3>2, <4>1 DEF Usable
      <4>3. NotOpened(State, d) = State
        BY <4>2 DEF NotOpened
      <4>4. QED
        BY <1>4, <3>2, <4>3 DEF Become, State
    <3>3. QED
      BY <3>1, <3>2
  <2>2. FilesOK'
    BY <1>1, <2>1, FilesStay DEF FilesInv
  <2>3. QED
    BY <1>4, <2>2 DEF FilesInv, PendingExist, Finish
<1>5. QED
  BY <1>3, <1>4 DEF Insert, d, Todo

\* Ejected() and Detached() take the file of a slot out of its drive.
LEMMA EjectKeepsFiles ==
  ASSUME FilesOK, TablesOK, NEW s \in Slot, Become(Ejected(State, s)),
         UNCHANGED <<reserved_ids, images>>, shrunk' \in BOOLEAN
  PROVE  FilesOK'
<1>1. /\ \A t \in Slot \ {s} : dev'[t] = dev[t]
      /\ dev[s].removed => UNCHANGED <<dev, reserved_files>>
      /\ ~dev[s].removed =>
           /\ dev'[s].file = NoFile
           /\ \A f \in File : reserved_files'[f] = IF f = dev[s].file THEN NoSlot ELSE reserved_files[f]
  BY EjectedTables
<1>2. CASE dev[s].removed
  BY <1>1, <1>2, FilesStay
<1>3. CASE ~dev[s].removed
  BY <1>1, <1>3, FileLeaves
<1>4. QED
  BY <1>2, <1>3

\* A DETACH of one device keeps files and devices together.
LEMMA DetachKeepsFiles ==
  ASSUME FilesOK, TablesOK, NEW s \in Slot, Become(Detached(State, s)),
         UNCHANGED <<reserved_ids, images>>, shrunk' \in BOOLEAN
  PROVE  FilesOK'
<1>1. /\ dev'[s] = NoDevice /\ \A t \in Slot \ {s} : dev'[t] = dev[t]
      /\ \A f \in File : reserved_files'[f] = IF f = dev[s].file THEN NoSlot ELSE reserved_files[f]
  BY DetachedTables
<1>2. dev'[s].file = NoFile
  BY <1>1 DEF NoDevice
<1>3. QED
  BY <1>1, <1>2, FileLeaves

\* A command is received only if the files it inserts exist.
LEMMA ReceivedPending ==
  ASSUME ~MissingFiles, TypeOK, NEW o \in {"ATTACH", "DETACH", "INSERT", "EJECT"},
         NEW n \in 1..MaxDevices, NEW ds \in [1..n -> Definitions(o)], ProcessCmd(o, ds)
  PROVE  PendingExist'
<1> SUFFICES ASSUME o = "INSERT", NEW k \in DOMAIN ds
             PROVE  \/ ds[k].file \in images
                    \/ ds[k].file = NoFile /\ dev[ds[k].slot].last \in images \cup {NoFile}
  BY DEF ProcessCmd, PendingExist, devices
<1>1. FileToInsert(State, ds[k]) = NoFile \/ FileToInsert(State, ds[k]) \in images
  BY DEF ProcessCmd
<1>2. FileToInsert(State, ds[k]) = IF ds[k].file # NoFile THEN ds[k].file ELSE dev[ds[k].slot].last
  BY DEF FileToInsert, State
<1>3. QED
  BY <1>1, <1>2

\* Every step keeps files and devices together, when all files exist.
LEMMA KeepsFiles ==
  ASSUME ~MissingFiles, TypeOK, FilesInv, [Next]_vars
  PROVE  FilesInv'
<1>1. TablesOK /\ CommandOK /\ FilesOK
  BY TypeParts DEF FilesInv
<1>2. ~Idle => Todo.slot \in Slot
  BY <1>1, TodoParts DEF CommandOK, Definition
<1>3. CASE \E o \in {"ATTACH", "DETACH", "INSERT", "EJECT"}, n \in 1..MaxDevices :
             \E ds \in [1..n -> Definitions(o)] : ProcessCmd(o, ds)
  <2>1. PendingExist'
    BY <1>3, ReceivedPending
  <2>2. UNCHANGED <<dev, reserved_files, images>>
    BY <1>3 DEF ProcessCmd, devices
  <2>3. QED
    BY <1>1, <2>1, <2>2, FilesStay DEF FilesInv
<1>4. CASE Attach
  BY <1>1, <1>4, AttachKeepsFiles, SameOperation DEF FilesInv, PendingExist, Attach
<1>5. CASE Insert
  BY <1>5, InsertKeepsFiles
<1>6. CASE Eject
  <2>1. /\ op = "EJECT" /\ ~Idle /\ Become(Ejected(State, Todo.slot)) /\ Proceed
        /\ UNCHANGED <<reserved_ids, images>> /\ shrunk' = TRUE
    BY <1>6 DEF Eject, Idle, Todo
  <2>2. FilesOK'
    BY <1>1, <1>2, <2>1, EjectKeepsFiles
  <2>3. QED
    BY <2>1, <2>2, SameOperation DEF FilesInv, PendingExist
<1>7. CASE Detach
  <2>1. op = "DETACH" /\ ~Idle /\ UNCHANGED <<reserved_ids, images>>
    BY <1>7 DEF Detach, Idle
  <2>2. CASE Become(Detached(State, Todo.slot)) /\ Proceed /\ shrunk' = TRUE
    <3>1. FilesOK'
      BY <1>1, <1>2, <2>1, <2>2, DetachKeepsFiles
    <3>2. QED
      BY <2>1, <2>2, <3>1, SameOperation DEF FilesInv, PendingExist
  <2>3. CASE Finish /\ UNCHANGED <<devices, shrunk>>
    BY <1>1, <2>1, <2>3, FilesStay DEF devices, FilesInv, PendingExist, Finish
  <2>4. QED
    BY <1>7, <2>2, <2>3 DEF Detach, Todo
<1>8. CASE DetachAll
  BY <1>1, <1>8, AllFilesLeave DEF FilesInv, PendingExist, DetachAll, Idle, executing
<1>9. CASE \E ids \in SUBSET Ids : ReserveIds(ids)
  BY <1>1, <1>9, FilesStay DEF FilesInv, PendingExist, ReserveIds, Idle, executing, devices
<1>10. CASE \/ \E f \in File : CreateImage(f) \/ DeleteImage(f)
            \/ \E from, to \in File : RenameImage(from, to) \/ CopyImage(from, to)
  <2>1. \A f \in images \ images' : f \in File /\ reserved_files[f] = NoSlot
    BY <1>1, <1>10 DEF CreateImage, DeleteImage, RenameImage, CopyImage, MayMove, NotInUse
  <2>2. Idle /\ UNCHANGED <<devices, reserved_ids, executing, shrunk>>
    BY <1>10 DEF CreateImage, DeleteImage, RenameImage, CopyImage
  <2>3. QED
    BY <1>1, <2>1, <2>2, FilesStay DEF FilesInv, PendingExist, Idle, executing, devices
<1>11. CASE \E s \in Slot : HostEject(s)
  <2>1. PICK s \in Slot : HostEject(s)
    BY <1>11
  <2>2. /\ UNCHANGED <<reserved_ids, images, executing>> /\ shrunk' = TRUE
        /\ Idle /\ Become(Ejected(State, s))
    BY <2>1 DEF HostEject
  <2>3. FilesOK'
    BY <1>1, <2>2, EjectKeepsFiles
  <2>4. QED
    BY <2>2, <2>3 DEF FilesInv, PendingExist, Idle, executing
<1>12. CASE UNCHANGED vars
  BY <1>1, <1>12, FilesStay DEF FilesInv, PendingExist, vars, devices, executing
<1>13. QED
  BY <1>3, <1>4, <1>5, <1>6, <1>7, <1>8, <1>9, <1>10, <1>11, <1>12 DEF Next

\* No file is in use at the start.
LEMMA InitFiles == Init => FilesInv
<1> SUFFICES ASSUME Init PROVE FilesInv
  OBVIOUS
<1>1. \A s \in Slot : dev[s].file = NoFile
  BY DEF Init, NoDevices, NoDevice
<1>2. \A f \in File : reserved_files[f] = NoSlot /\ f # NoFile
  BY ExecutorAssumption DEF Init, NoFiles
<1>3. QED
  BY <1>1, <1>2, ExecutorAssumption DEF Init, FilesInv, FilesOK, FilesMatch, UsedExists, NamesFit,
     PendingExist

\* An image file is in the list of reserved files exactly as long as it is in a drive, and
\* never deleted or renamed while it is.  INSERT of a file that does not exist leaves its
\* name in the drive (SetFilename() before Open()), and detaching this drive takes the
\* entry of that name from another drive's file: the commands name files that exist.
THEOREM FilesStayConsistent ==
  ASSUME ~MissingFiles
  PROVE  Spec => []FilesConsistent
<1>1. TypeOK /\ SetsOK /\ FilesInv /\ [Next]_vars => TypeOK' /\ SetsOK' /\ FilesInv'
  BY KeepsDevices, KeepsFiles
<1>2. FilesInv => FilesConsistent
  BY DEF FilesInv, FilesOK, FilesConsistent
<1>3. QED
  BY <1>1, <1>2, InitDevices, InitFiles, PTL DEF Spec

-------------------------------------------------------------------------------
(* ATTACH attaches all devices of a command or none. *)

\* MayAttach() in terms of the tables.
Ready(d) ==
  /\ dev[d.slot].type = NoType
  /\ Id(d.slot) \notin reserved_ids
  /\ d.type # NoType /\ NameFits(d.name)
  /\ Unique(d.type) => \A s \in Slot : dev[s].type # d.type
  /\ d.type = "SCHD" => d.file # NoFile
  /\ FileOf(d) # NoFile => reserved_files[FileOf(d)] = NoSlot /\ FileOf(d) \in images

\* The checks of ATTACH, in terms of the variables.
LEMMA ReadyToAttach == \A d : MayAttach(State, d, reserved_ids) <=> Ready(d)
BY DEF MayAttach, Ready, Present, Creatable, Usable, FileOf, State

\* There is a controller for the i-th device to come, or there will be in time.
ControllerFor(i) ==
  \/ \E s \in Slot : dev[s].type # NoType /\ Id(s) = Id(todo[i].slot)
  \/ \E j \in 1..i : Id(todo[j].slot) = Id(todo[i].slot) /\ Unit(todo[j].slot) = 0

\* How many devices of the command are done.
Done == Len(given) - Len(todo)

\* The devices to come are the last ones of the command.
Aligned ==
  /\ Len(todo) <= Len(given)
  /\ \A i \in DOMAIN todo : todo[i] = given[Done + i] /\ todo[i].type # NoType

\* What was attached is there, and what is to come can be attached.
OnTheWay ==
  /\ \A i \in DOMAIN todo : Ready(todo[i]) /\ ControllerFor(i)
  /\ \A k \in 1..Done : dev[given[k].slot].type = given[k].type

AttachInv == op = "ATTACH" => Aligned /\ (Compatible(given) => OnTheWay)

\* Two devices of a command that do not get in each other's way.
LEMMA Apart ==
  ASSUME given \in Seq(Definition), Compatible(given), NEW j \in DOMAIN given,
         NEW k \in DOMAIN given, j < k
  PROVE  /\ given[j].slot # given[k].slot
         /\ FileOf(given[j]) # NoFile => FileOf(given[j]) # FileOf(given[k])
         /\ Unique(given[j].type) => given[j].type # given[k].type
         /\ Id(given[j].slot) = Id(given[k].slot) => Unit(given[k].slot) # 0
BY DEF Compatible

\* The dry run looks at the devices one by one, which is enough for compatible ones.
LEMMA ReceivedAttach ==
  ASSUME TypeOK, NEW n \in 1..MaxDevices, NEW ds \in [1..n -> Definitions("ATTACH")],
         ProcessCmd("ATTACH", ds)
  PROVE  AttachInv'
<1>1. /\ todo' = ds /\ given' = ds /\ UNCHANGED <<dev, reserved_files, reserved_ids, images>>
      /\ PassesDryRun("ATTACH", State, ds, reserved_ids)
  BY DEF ProcessCmd, devices
<1>2. n \in Nat /\ Len(ds) = n /\ DOMAIN ds = 1..n
  BY ExecutorAssumption
<1>3. \A i \in DOMAIN ds : ds[i] \in Definition /\ ds[i].type # NoType /\ Ready(ds[i])
  <2>1. \A i \in DOMAIN ds : Validated("ATTACH", State, ds[i], reserved_ids)
    BY <1>1 DEF PassesDryRun
  <2>2. \A i \in DOMAIN ds : ds[i] \in Definition
    BY DefinitionTypes
  <2>3. QED
    BY <2>1, <2>2, ReadyToAttach DEF Validated, Ready
<1>4. Aligned'
  BY <1>1, <1>2, <1>3 DEF Aligned, Done
<1>5. ASSUME Compatible(ds)
      PROVE  OnTheWay'
  <2>1. ASSUME NEW i \in DOMAIN ds
        PROVE  \/ \E s \in Slot : dev[s].type # NoType /\ Id(s) = Id(ds[i].slot)
               \/ \E j \in 1..i : Id(ds[j].slot) = Id(ds[i].slot) /\ Unit(ds[j].slot) = 0
    <3> DEFINE slots == AttachedSlots(State) \cup {ds[k].slot : k \in DOMAIN ds}
    <3>1. PICK t \in slots : Id(t) = Id(ds[i].slot) /\ Unit(t) = 0
      BY <1>1 DEF PassesDryRun, EnsureLun0
    <3>2. CASE t \in AttachedSlots(State)
      BY <3>1, <3>2, InTables DEF AttachedSlots
    <3>3. CASE t \in {ds[k].slot : k \in DOMAIN ds}
      <4>1. PICK k \in DOMAIN ds : t = ds[k].slot
        BY <3>3
      <4>2. ~(i < k)
        BY <1>5, <3>1, <4>1 DEF Compatible
      <4>3. k \in 1..i
        BY <1>2, <4>2
      <4>4. QED
        BY <3>1, <4>1, <4>3
    <3>4. QED
      BY <3>1, <3>2, <3>3
  <2>2. \A i \in DOMAIN todo' : ControllerFor(i)'
    BY <1>1, <2>1 DEF ControllerFor
  <2>3. \A i \in DOMAIN todo' : Ready(todo[i])'
    BY <1>1, <1>3 DEF Ready
  <2>4. \A k \in 1..Done' : FALSE
    BY <1>1, <1>2 DEF Done
  <2>5. QED
    BY <2>2, <2>3, <2>4 DEF OnTheWay
<1>6. QED
  BY <1>1, <1>4, <1>5 DEF AttachInv

\* Where the next device is in the command.
LEMMA Positions ==
  ASSUME TypeOK, op = "ATTACH", Aligned
  PROVE  /\ todo \in Seq(Definition) /\ given \in Seq(Definition) /\ todo # <<>>
         /\ DOMAIN given = 1..Len(given) /\ DOMAIN todo = 1..Len(todo)
         /\ Done \in Nat /\ Len(todo) \in Nat \ {0} /\ Len(given) = Done + Len(todo)
         /\ Todo = given[Done + 1] /\ Todo = todo[1] /\ Todo \in Definition /\ Todo.slot \in Slot
         /\ \A k \in DOMAIN given : given[k] \in Definition /\ given[k].slot \in Slot
         /\ \A i \in DOMAIN todo : todo[i] \in Definition
<1>1. todo \in Seq(Definition) /\ given \in Seq(Definition) /\ todo # <<>>
  BY DEF TypeOK, Idle
<1>2. Len(given) \in Nat /\ DOMAIN given = 1..Len(given)
  BY <1>1, LenProperties
<1>3. /\ Todo \in Definition /\ Todo = todo[1]
      /\ Len(todo) \in Nat \ {0} /\ DOMAIN todo = 1..Len(todo)
  BY <1>1, TodoParts
<1>4. Done \in Nat /\ Len(given) = Done + Len(todo)
  BY <1>2, <1>3 DEF Aligned, Done
<1>5. /\ \A k \in DOMAIN given : given[k] \in Definition
      /\ \A i \in DOMAIN todo : todo[i] \in Definition
  BY <1>1, <1>2, <1>3, ElementOfSeq
<1>6. QED
  BY <1>1, <1>2, <1>3, <1>4, <1>5 DEF Aligned, Definition

\* A device that is attached leaves the others, and those to come, as they are.
LEMMA AttachOne ==
  ASSUME TypeOK, op = "ATTACH", Aligned, Compatible(given), OnTheWay,
         Become(Attached(State, Todo)), UNCHANGED <<reserved_ids, images, shrunk>>
  PROVE  /\ dev'[Todo.slot].type = Todo.type
         /\ \A s \in Slot \ {Todo.slot} : dev'[s] = dev[s]
         /\ \A f \in File : reserved_files'[f] = IF f = FileOf(Todo) THEN Todo.slot ELSE reserved_files[f]
<1>1. Todo \in Definition /\ Todo.type # NoType /\ TablesOK
  BY Positions, TypeParts DEF Aligned
<1> DEFINE d == Todo
<1>2. d \in Definition /\ d.type # NoType /\ Become(Attached(State, d))
  BY <1>1
<1> HIDE DEF d
<1>3. /\ dev'[d.slot] = [type |-> d.type, name |-> NameOf(d), removed |-> SupportsImageFile(d.type) /\ FileOf(d) = NoFile,
                         file |-> FileOf(d), last |-> NoFile]
      /\ \A s \in Slot \ {d.slot} : dev'[s] = dev[s]
      /\ \A f \in File : reserved_files'[f] = IF f = FileOf(d) THEN d.slot ELSE reserved_files[f]
  BY <1>1, <1>2, AttachedTables, Zenon
<1>4. dev'[d.slot].type = d.type
  BY <1>3
<1>5. QED
  BY <1>3, <1>4, Zenon DEF d

\* Every device done is there, the next one included.
LEMMA DoneAreThere ==
  ASSUME TypeOK, op = "ATTACH", Aligned, Compatible(given), OnTheWay,
         Become(Attached(State, Todo)), UNCHANGED <<reserved_ids, images, shrunk>>
  PROVE  \A k \in 1..(Done + 1) : dev'[given[k].slot].type = given[k].type
<1> SUFFICES ASSUME NEW k \in 1..(Done + 1)
             PROVE  dev'[given[k].slot].type = given[k].type
  OBVIOUS
<1>1. CASE k = Done + 1
  BY <1>1, AttachOne, Positions
<1>2. CASE k # Done + 1
  <2>1. k \in 1..Done /\ k \in DOMAIN given /\ Done + 1 \in DOMAIN given /\ k < Done + 1
    BY <1>2, Positions
  <2>2. given[k].slot # Todo.slot
    BY <2>1, Positions, Apart
  <2>3. given[k].slot \in Slot
    BY <2>1, Positions
  <2>4. dev'[given[k].slot] = dev[given[k].slot]
    BY <2>2, <2>3, AttachOne
  <2>5. QED
    BY <2>1, <2>4 DEF OnTheWay
<1>3. QED
  BY <1>1, <1>2

\* A device to come is as ready as before.
LEMMA StaysReady ==
  ASSUME TypeOK, op = "ATTACH", Aligned, Compatible(given), OnTheWay,
         Become(Attached(State, Todo)), UNCHANGED <<reserved_ids, images, shrunk>>,
         NEW i \in 1..(Len(todo) - 1)
  PROVE  LET e == todo[i + 1] IN
         /\ dev'[e.slot].type = NoType
         /\ Id(e.slot) \notin reserved_ids
         /\ e.type # NoType /\ NameFits(e.name)
         /\ Unique(e.type) => \A s \in Slot : dev'[s].type # e.type
         /\ e.type = "SCHD" => e.file # NoFile
         /\ FileOf(e) # NoFile => reserved_files'[FileOf(e)] = NoSlot /\ FileOf(e) \in images
<1> DEFINE e == todo[i + 1]
<1>0. /\ i + 1 \in DOMAIN todo /\ i \in Nat \ {0} /\ Done \in Nat
      /\ Done + 1 \in DOMAIN given /\ Done + 1 + i \in DOMAIN given /\ Done + 1 < Done + 1 + i
      /\ Done + (i + 1) = Done + 1 + i
  <2> DEFINE n == Len(todo)
             m == Done
  <2>1. /\ n \in Nat \ {0} /\ m \in Nat /\ Len(given) = m + n
        /\ DOMAIN todo = 1..n /\ DOMAIN given = 1..Len(given)
    BY Positions
  <2>2. i \in 1..(n - 1)
    OBVIOUS
  <2> HIDE DEF n, m
  <2>3. /\ i \in Nat \ {0} /\ i + 1 \in 1..n /\ m + 1 \in 1..(m + n) /\ m + 1 + i \in 1..(m + n)
        /\ m + 1 < m + 1 + i /\ m + (i + 1) = m + 1 + i
    BY <2>1, <2>2
  <2>4. QED
    BY <2>1, <2>3 DEF m
<1>1. e = given[Done + 1 + i] /\ e \in Definition
  BY <1>0, Positions DEF Aligned
<1>2. Ready(e)
  BY <1>0 DEF OnTheWay
<1> HIDE DEF e
<1>3. /\ Todo.slot # e.slot
      /\ FileOf(Todo) # NoFile => FileOf(Todo) # FileOf(e)
      /\ Unique(Todo.type) => Todo.type # e.type
  BY <1>0, <1>1, Positions, Apart
<1>4. e.slot \in Slot /\ FileOf(e) \in File \cup {NoFile}
  BY <1>1 DEF Definition, Maybe, FileOf
<1>5. dev'[e.slot] = dev[e.slot]
  BY <1>3, <1>4, AttachOne
<1>6. Unique(e.type) => \A s \in Slot : dev'[s].type # e.type
  BY <1>2, <1>3, AttachOne DEF Ready
<1>7. FileOf(e) # NoFile => reserved_files'[FileOf(e)] = NoSlot /\ FileOf(e) \in images
  BY <1>2, <1>3, <1>4, AttachOne DEF Ready
<1>8. QED
  BY <1>2, <1>5, <1>6, <1>7 DEF Ready, e

\* A definition that has a controller ahead of it keeps it after the first one is
\* attached.
LEMMA StaysControlled ==
  ASSUME TypeOK, op = "ATTACH", Aligned, Compatible(given), OnTheWay,
         Become(Attached(State, Todo)), UNCHANGED <<reserved_ids, images, shrunk>>,
         NEW i \in 1..(Len(todo) - 1), todo' = Tail(todo)
  PROVE  ControllerFor(i)'
<1>1. /\ i + 1 \in DOMAIN todo /\ todo'[i] = todo[i + 1]
      /\ \A j \in 1..i : todo'[j] = todo[j + 1]
  BY Positions, TodoParts
<1>2. ControllerFor(i + 1)
  BY <1>1 DEF OnTheWay
<1>3. Todo.type # NoType /\ 1 \in DOMAIN todo
  BY Positions DEF Aligned
<1>4. CASE \E s \in Slot : dev[s].type # NoType /\ Id(s) = Id(todo[i + 1].slot)
  <2>1. PICK s \in Slot : dev[s].type # NoType /\ Id(s) = Id(todo[i + 1].slot)
    BY <1>4
  <2>2. dev'[s].type # NoType
    BY <1>3, <2>1, AttachOne
  <2>3. QED
    BY <1>1, <2>1, <2>2 DEF ControllerFor
<1>5. CASE \E j \in 1..(i + 1) : Id(todo[j].slot) = Id(todo[i + 1].slot) /\ Unit(todo[j].slot) = 0
  <2>1. PICK j \in 1..(i + 1) : Id(todo[j].slot) = Id(todo[i + 1].slot) /\ Unit(todo[j].slot) = 0
    BY <1>5
  <2>2. CASE j = 1
    <3>1. dev'[Todo.slot].type # NoType /\ Id(Todo.slot) = Id(todo'[i].slot) /\ Todo.slot \in Slot
      BY <1>1, <1>3, <2>1, <2>2, AttachOne, Positions
    <3>2. QED
      BY <3>1 DEF ControllerFor
  <2>3. CASE j # 1
    <3>1. j - 1 \in 1..i /\ todo'[j - 1] = todo[j]
      BY <1>1, <2>1, <2>3
    <3>2. QED
      BY <1>1, <2>1, <3>1 DEF ControllerFor
  <2>4. QED
    BY <2>2, <2>3
<1>6. QED
  BY <1>2, <1>4, <1>5 DEF ControllerFor

\* The next device of compatible ones is always attached, unless its Init() fails.
LEMMA NextIsAttachable ==
  ASSUME TypeOK, op = "ATTACH", Aligned, OnTheWay
  PROVE  MayAttach(State, Todo, reserved_ids) /\ Attachable(State, Todo)
<1>1. 1 \in DOMAIN todo /\ Todo = todo[1]
  BY Positions
<1>2. Ready(Todo) /\ ControllerFor(1)
  BY <1>1 DEF OnTheWay
<1>3. \/ \E s \in Slot : dev[s].type # NoType /\ Id(s) = Id(Todo.slot)
      \/ Unit(Todo.slot) = 0
  BY <1>1, <1>2 DEF ControllerFor
<1>4. QED
  BY <1>2, <1>3, ReadyToAttach, InTables DEF Attachable, HasController, AttachedSlots

\* Attaching one device of several leaves the rest attachable.
LEMMA AttachKeepsInv ==
  ASSUME TypeOK, op = "ATTACH", AttachInv, Become(Attached(State, Todo)),
         todo' = Tail(todo), Len(todo) # 1,
         UNCHANGED <<reserved_ids, images, shrunk, op, given>>
  PROVE  AttachInv'
<1>1. Aligned /\ (Compatible(given) => OnTheWay)
  BY DEF AttachInv
<1> DEFINE n == Len(todo)
<1>2. /\ n \in Nat \ {0} /\ Len(todo') = n - 1 /\ DOMAIN todo = 1..n /\ DOMAIN todo' = 1..(n - 1)
      /\ \A i \in 1..(n - 1) : todo'[i] = todo[i + 1]
      /\ Len(given) \in Nat
  BY <1>1, Positions, TodoParts
<1>3. Done' = Done + 1 /\ Len(todo') <= Len(given)
  BY <1>1, <1>2 DEF Done, Aligned
<1>4. Aligned'
  <2> SUFFICES ASSUME NEW i \in 1..(n - 1)
               PROVE  todo'[i] = given[Done' + i] /\ todo'[i].type # NoType
    BY <1>2, <1>3 DEF Aligned
  <2>1. i + 1 \in 1..n /\ Done + (i + 1) = Done' + i
    <3>1. Done \in Nat
      BY <1>1, Positions
    <3> HIDE DEF n
    <3>2. QED
      BY <1>2, <1>3, <3>1
  <2>2. QED
    BY <1>1, <1>2, <2>1 DEF Aligned
<1>5. ASSUME Compatible(given)
      PROVE  OnTheWay'
  <2>1. OnTheWay
    BY <1>1, <1>5
  <2>2. \A k \in 1..Done' : dev'[given[k].slot].type = given[k].type
    BY <1>1, <1>3, <1>5, <2>1, DoneAreThere
  <2>3. ASSUME NEW i \in 1..(n - 1)
        PROVE  Ready(todo[i])'
    <3> DEFINE e == todo[i + 1]
    <3>1. /\ dev'[e.slot].type = NoType
          /\ Id(e.slot) \notin reserved_ids
          /\ e.type # NoType /\ NameFits(e.name)
          /\ Unique(e.type) => \A s \in Slot : dev'[s].type # e.type
          /\ e.type = "SCHD" => e.file # NoFile
          /\ FileOf(e) # NoFile => reserved_files'[FileOf(e)] = NoSlot /\ FileOf(e) \in images
      BY <1>1, <1>5, <2>1, StaysReady
    <3>2. todo'[i] = e
      BY <1>2
    <3> HIDE DEF e
    <3>3. QED
      BY <3>1, <3>2 DEF Ready
  <2>4. ASSUME NEW i \in 1..(n - 1)
        PROVE  ControllerFor(i)'
    BY <1>1, <1>5, <2>1, StaysControlled
  <2>5. QED
    BY <1>2, <2>2, <2>3, <2>4 DEF OnTheWay
<1>6. QED
  BY <1>4, <1>5 DEF AttachInv

\* A step other than those of Attach() does not concern an ATTACH in execution.
LEMMA OtherSteps ==
  ASSUME [Next]_vars, ~Attach,
         ~\E n \in 1..MaxDevices : \E ds \in [1..n -> Definitions("ATTACH")] : ProcessCmd("ATTACH", ds)
  PROVE  UNCHANGED vars \/ (op # "ATTACH" /\ op' # "ATTACH")
<1>1. CASE \E o \in {"ATTACH", "DETACH", "INSERT", "EJECT"}, n \in 1..MaxDevices :
             \E ds \in [1..n -> Definitions(o)] : ProcessCmd(o, ds)
  BY <1>1 DEF ProcessCmd, Idle
<1>2. CASE Insert \/ Eject \/ Detach
  BY <1>2, SameOperation DEF Insert, Eject, Detach
<1>3. CASE \/ DetachAll
           \/ \E ids \in SUBSET Ids : ReserveIds(ids)
           \/ \E f \in File : CreateImage(f) \/ DeleteImage(f)
           \/ \E from, to \in File : RenameImage(from, to) \/ CopyImage(from, to)
           \/ \E s \in Slot : HostEject(s)
  BY <1>3 DEF DetachAll, ReserveIds, CreateImage, DeleteImage, RenameImage, CopyImage,
              HostEject, Idle, executing
<1>4. QED
  BY <1>1, <1>2, <1>3 DEF Next

\* Every step keeps what is left of an ATTACH attachable.
LEMMA KeepsAttach ==
  ASSUME TypeOK, AttachInv, [Next]_vars
  PROVE  AttachInv'
<1>1. CASE \E n \in 1..MaxDevices : \E ds \in [1..n -> Definitions("ATTACH")] : ProcessCmd("ATTACH", ds)
  BY <1>1, ReceivedAttach
<1>2. CASE Attach
  <2>1. op = "ATTACH" /\ UNCHANGED <<reserved_ids, images, shrunk>>
    BY <1>2 DEF Attach
  <2>2. CASE Finish
    BY <2>2 DEF Finish, AttachInv
  <2>3. CASE /\ Become(Attached(State, Todo)) /\ Len(todo) # 1 /\ todo' = Tail(todo)
             /\ UNCHANGED <<op, given, before>>
    BY <2>1, <2>3, AttachKeepsInv
  <2>4. QED
    BY <1>2, <2>2, <2>3 DEF Attach, Proceed, Todo
<1>3. CASE UNCHANGED vars
  BY <1>3 DEF vars, devices, executing, AttachInv, Aligned, OnTheWay, Ready, ControllerFor, Done
<1>4. CASE op' # "ATTACH"
  BY <1>4 DEF AttachInv
<1>5. QED
  BY <1>1, <1>2, <1>3, <1>4, OtherSteps

\* The last step of an ATTACH of compatible devices attaches the last device.
LEMMA AttachEnds ==
  ASSUME TypeOK, AttachInv, [Next]_vars, op = "ATTACH", op' = "NONE", Compatible(given),
         InitMayFail => \A k \in DOMAIN given : given[k].type # "SCDP"
  PROVE  \A k \in DOMAIN given : dev'[given[k].slot].type = given[k].type
<1>1. Attach
  <2>1. ~UNCHANGED vars
    BY DEF vars, executing
  <2>2. ~\E n \in 1..MaxDevices : \E ds \in [1..n -> Definitions("ATTACH")] : ProcessCmd("ATTACH", ds)
    BY DEF ProcessCmd, Idle
  <2>3. QED
    BY <2>1, <2>2, OtherSteps
<1>2. Aligned /\ OnTheWay
  BY DEF AttachInv
<1>3. MayAttach(State, Todo, reserved_ids) /\ Attachable(State, Todo)
  BY <1>2, NextIsAttachable
<1>4. ~(InitMayFail /\ Todo.type = "SCDP")
  BY <1>2, Positions
<1>5. /\ Become(Attached(State, Todo)) /\ Proceed
      /\ UNCHANGED <<reserved_ids, images, shrunk>>
  BY <1>1, <1>3, <1>4 DEF Attach, Todo
<1>6. Len(todo) = 1
  BY <1>5 DEF Proceed
<1>7. DOMAIN given = 1..(Done + 1)
  BY <1>2, <1>6, Positions
<1>8. QED
  BY <1>2, <1>5, <1>7, DoneAreThere

\* An ATTACH whose devices do not get in each other's way, and whose Init() does not fail,
\* attaches all of them, whatever the devices are that there are before: what the dry run
\* of ProcessCmd() found out about each of them alone stays true until its turn comes.
THEOREM AttachesAllOrNothing == Spec => AttachAllOrNothing
<1>1. Init => AttachInv
  BY DEF Init, AttachInv
<1>2. TypeOK /\ SetsOK /\ AttachInv /\ [Next]_vars => TypeOK' /\ SetsOK' /\ AttachInv'
  BY KeepsDevices, KeepsAttach
<1>3. TypeOK /\ SetsOK /\ AttachInv /\ [Next]_vars
        => [op = "ATTACH" /\ op' = "NONE" /\ Compatible(given)
            /\ (InitMayFail => \A k \in DOMAIN given : given[k].type # "SCDP")
             => dev' = before \/ \A k \in DOMAIN given : dev'[given[k].slot].type = given[k].type]_vars
  BY AttachEnds
<1>4. QED
  BY <1>1, <1>2, <1>3, InitDevices, PTL DEF Spec, AttachAllOrNothing

-------------------------------------------------------------------------------
(* A restart attaches the devices that were attached, as long as none has gone. *)

\* A set of natural numbers has a smallest one.
LEMMA Smallest ==
  ASSUME NEW A, A \subseteq Nat, A # {}
  PROVE  \E n \in A : \A m \in A : n <= m
<1> DEFINE R == OpToRel(<, Nat)
<1>1. IsWellFoundedOn(R, Nat)
  BY NatLessThanWellFounded
<1>2. \A x, y \in Nat : x < y => <<x, y>> \in R
  BY DEF OpToRel
<1> HIDE DEF R
<1>3. PICK n \in A : \A m \in A : ~ (<<m, n>> \in R)
  BY <1>1, WFMin
<1>4. ASSUME NEW m \in A
      PROVE  n <= m
  <2>1. m \in Nat /\ n \in Nat
    OBVIOUS
  <2>2. ~(m < n)
    BY <1>2, <1>3, <2>1
  <2>3. QED
    BY <2>1, <2>2
<1>5. QED
  BY <1>4

\* Induction up to n.
LEMMA UpTo ==
  ASSUME NEW n \in Nat, NEW A, 0 \in A, \A i \in 0..n - 1 : i \in A => i + 1 \in A
  PROVE  \A i \in 0..n : i \in A
<1> DEFINE B == {i \in 0..n : i \notin A}
<1>1. SUFFICES ASSUME B # {}
               PROVE  FALSE
  OBVIOUS
<1>2. B \subseteq Nat
  OBVIOUS
<1>3. PICK i \in B : \A j \in B : i <= j
  BY <1>1, <1>2, Smallest
<1>4. i \in 1..n /\ i - 1 \in 0..n - 1 /\ i - 1 + 1 = i
  BY <1>3
<1>5. i - 1 \notin B
  BY <1>3, <1>4
<1>6. QED
  BY <1>3, <1>4, <1>5

\* IDs and LUNs are numbers, and identify a slot.
LEMMA SlotParts ==
  /\ \A s \in Slot : Id(s) \in Nat /\ Unit(s) \in Nat /\ FirstDigit(Unit(s)) \in Nat
  /\ \A s, t \in Slot : Id(s) = Id(t) /\ Unit(s) = Unit(t) => s = t
<1>1. \A n \in Nat : FirstDigit(n) \in Nat
  BY DEF FirstDigit
<1>2. Slot \subseteq Nat \X Nat
  BY ExecutorAssumption
<1>3. QED
  BY <1>1, <1>2 DEF Id, Unit

\* No slot is before itself, and LUN 0 is the first of its ID.
LEMMA LunZeroFirst ==
  /\ \A s \in Slot : ~Before(s, s)
  /\ \A s, t \in Slot : Id(s) = Id(t) /\ Unit(s) = 0 /\ Unit(t) # 0 => ~Before(t, s)
<1>1. FirstDigit(0) = 0
  BY DEF FirstDigit
<1>2. QED
  BY <1>1, SlotParts DEF Before

\* Some slot is before all others.
LEMMA FirstSlot ==
  ASSUME NEW A, A \subseteq Slot, A # {}
  PROVE  \E m \in A : \A s \in A \ {m} : Before(m, s)
<1> DEFINE I == {Id(s) : s \in A}
<1>1. I \subseteq Nat /\ I # {}
  BY SlotParts
<1>2. PICK b \in A : \A s \in A : Id(b) <= Id(s)
  <2>1. PICK i \in I : \A j \in I : i <= j
    BY <1>1, Smallest
  <2>2. QED
    BY <2>1
<1> DEFINE D == {FirstDigit(Unit(s)) : s \in {t \in A : Id(t) = Id(b)}}
<1>3. D \subseteq Nat /\ D # {}
  BY SlotParts
<1>4. PICK c \in A : /\ Id(c) = Id(b)
                     /\ \A s \in A : Id(s) = Id(b) => FirstDigit(Unit(c)) <= FirstDigit(Unit(s))
  <2>1. PICK i \in D : \A j \in D : i <= j
    BY <1>3, Smallest
  <2>2. QED
    BY <2>1
<1> DEFINE W(s) == Id(s) = Id(b) /\ FirstDigit(Unit(s)) = FirstDigit(Unit(c))
           U == {Unit(s) : s \in {t \in A : W(t)}}
<1>5. U \subseteq Nat /\ U # {}
  BY <1>4, SlotParts
<1>6. PICK m \in A : W(m) /\ \A s \in A : W(s) => Unit(m) <= Unit(s)
  <2>1. PICK i \in U : \A j \in U : i <= j
    BY <1>5, Smallest
  <2>2. QED
    BY <2>1
<1>7. ASSUME NEW s \in A \ {m}
      PROVE  Before(m, s)
  <2>1. /\ Id(m) \in Nat /\ Id(s) \in Nat /\ Unit(m) \in Nat /\ Unit(s) \in Nat
        /\ FirstDigit(Unit(m)) \in Nat /\ FirstDigit(Unit(s)) \in Nat
        /\ Id(s) # Id(m) \/ Unit(s) # Unit(m)
    BY SlotParts
  <2>2. Id(m) <= Id(s)
    BY <1>2, <1>6
  <2>3. Id(s) = Id(m) => FirstDigit(Unit(m)) <= FirstDigit(Unit(s))
    BY <1>4, <1>6
  <2>4. W(s) => Unit(m) <= Unit(s)
    BY <1>6
  <2>5. QED
    BY <1>6, <2>1, <2>2, <2>3, <2>4 DEF Before
<1>8. QED
  BY <1>7

\* The first n slots of q are in order.
Ascending(q, n) == \A j, k \in 1..n : j < k => Before(q[j], q[k])

\* The slots of a set can be put in order.
LEMMA OrderExists ==
  ASSUME NEW A, A \subseteq Slot
  PROVE  IsFiniteSet(A) /\ Cardinality(A) \in Nat /\ \E q \in [1..Cardinality(A) -> A] : Ascending(q, Cardinality(A))
<1> DEFINE N == Cardinality(Slot)
           B == {n \in 0..N : \A S \in SUBSET Slot : Cardinality(S) = n => \E q \in [1..n -> S] : Ascending(q, n)}
<1>1. /\ IsFiniteSet(Slot) /\ N \in Nat
      /\ \A S \in SUBSET Slot : IsFiniteSet(S) /\ Cardinality(S) \in 0..N
  <2>1. IsFiniteSet(Slot) /\ N \in Nat
    BY ExecutorAssumption, FS_CardinalityType
  <2>2. ASSUME NEW S \in SUBSET Slot
        PROVE  IsFiniteSet(S) /\ Cardinality(S) \in 0..N
    <3>1. IsFiniteSet(S) /\ Cardinality(S) <= N
      BY <2>1, FS_Subset
    <3>2. Cardinality(S) \in Nat
      BY <3>1, FS_CardinalityType
    <3>3. QED
      BY <2>1, <3>1, <3>2
  <2>3. QED
    BY <2>1, <2>2
<1>2. 0 \in B
  <2>1. ASSUME NEW S \in SUBSET Slot
        PROVE  \E q \in [1..0 -> S] : Ascending(q, 0)
    <3>1. [i \in 1..0 |-> i] \in [1..0 -> S] /\ Ascending([i \in 1..0 |-> i], 0)
      BY DEF Ascending
    <3>2. QED
      BY <3>1
  <2>2. QED
    BY <1>1, <2>1
<1>3. ASSUME NEW n \in 0..N - 1, n \in B
      PROVE  n + 1 \in B
  <2>1. ASSUME NEW S \in SUBSET Slot, Cardinality(S) = n + 1
        PROVE  \E q \in [1..n + 1 -> S] : Ascending(q, n + 1)
    <3>1. S # {}
      BY <1>1, <2>1, FS_EmptySet
    <3>2. PICK m \in S : \A s \in S \ {m} : Before(m, s)
      BY <3>1, FirstSlot
    <3>3. Cardinality(S \ {m}) = n
      <4>1. Cardinality(S \ {m}) = Cardinality(S) - 1
        BY <1>1, FS_RemoveElement
      <4>2. QED
        BY <1>1, <2>1, <4>1
    <3>4. PICK p \in [1..n -> S \ {m}] : Ascending(p, n)
      BY <1>3, <3>3
    <3> DEFINE q == [i \in 1..n + 1 |-> IF i = 1 THEN m ELSE p[i - 1]]
    <3>5. n \in Nat
      BY <1>1
    <3>6. \A i \in 1..n + 1 : i # 1 => i - 1 \in 1..n
      BY <3>5
    <3>7. q \in [1..n + 1 -> S]
      BY <3>6
    <3>8. ASSUME NEW j \in 1..n + 1, NEW k \in 1..n + 1, j < k
          PROVE  Before(q[j], q[k])
      <4>1. k # 1 /\ q[k] = p[k - 1] /\ k - 1 \in 1..n
        BY <3>5, <3>6, <3>8
      <4>2. CASE j = 1
        BY <3>2, <4>1, <4>2
      <4>3. CASE j # 1
        <5>1. q[j] = p[j - 1] /\ j - 1 \in 1..n /\ j - 1 < k - 1
          BY <3>5, <3>6, <3>8, <4>3
        <5>2. QED
          BY <3>4, <4>1, <5>1 DEF Ascending
      <4>4. QED
        BY <4>2, <4>3
    <3> HIDE DEF q
    <3>9. Ascending(q, n + 1)
      BY <3>8 DEF Ascending
    <3>10. QED
      BY <3>7, <3>9
  <2>2. n + 1 \in 0..N
    BY <1>1
  <2>3. QED
    BY <2>1, <2>2
<1> HIDE DEF N, B
<1>4. \A n \in 0..N : n \in B
  BY <1>1, <1>2, <1>3, UpTo
<1>5. Cardinality(A) \in 0..N /\ IsFiniteSet(A)
  BY <1>1
<1>6. Cardinality(A) \in B
  BY <1>4, <1>5
<1>7. QED
  BY <1>1, <1>5, <1>6 DEF B

\* InOrder() puts them in order.
LEMMA OrderIs ==
  ASSUME NEW A, A \subseteq Slot
  PROVE  /\ IsFiniteSet(A) /\ Cardinality(A) \in Nat
         /\ InOrder(A) \in [1..Cardinality(A) -> A] /\ Ascending(InOrder(A), Cardinality(A))
         /\ \A s \in A : \E k \in 1..Cardinality(A) : InOrder(A)[k] = s
         /\ \A j, k \in 1..Cardinality(A) : InOrder(A)[j] = InOrder(A)[k] => j = k
<1> DEFINE n == Cardinality(A)
           q == InOrder(A)
<1>1. IsFiniteSet(A) /\ n \in Nat /\ \E p \in [1..n -> A] : Ascending(p, n)
  BY OrderExists
<1>2. \A p \in [1..n -> A] : Ascending(p, n) <=> \A j, k \in DOMAIN p : j < k => Before(p[j], p[k])
  BY DEF Ascending
<1>3. q \in [1..n -> A] /\ Ascending(q, n)
  BY <1>1, <1>2 DEF InOrder
<1> HIDE DEF q
<1>4. ASSUME NEW j \in 1..n, NEW k \in 1..n, j < k
      PROVE  q[j] # q[k]
  <2>1. Before(q[j], q[k]) /\ q[j] \in Slot
    BY <1>3, <1>4 DEF Ascending
  <2>2. QED
    BY <2>1, LunZeroFirst
<1>5. ASSUME NEW j \in 1..n, NEW k \in 1..n, q[j] = q[k]
      PROVE  j = k
  <2>1. ~(j < k) /\ ~(k < j)
    BY <1>4, <1>5
  <2>2. QED
    BY <2>1
<1>6. \A s \in A : \E k \in 1..n : q[k] = s
  <2>1. q \in Injection(1..n, A)
    BY <1>3, <1>5 DEF Injection, IsInjective
  <2>2. Cardinality(1..n) = n
    BY <1>1, FS_Interval
  <2>3. q \in Surjection(1..n, A)
    BY <1>1, <2>1, <2>2, FS_Injection
  <2>4. QED
    BY <2>3 DEF Surjection
<1>7. QED
  BY <1>1, <1>3, <1>5, <1>6 DEF q

\* The properties of slot s are those of its device, whose name is complete.
Recorded(s) ==
  /\ property_cache[s].type = dev[s].type /\ property_cache[s].file = dev[s].file
  /\ property_cache[s].name = Swapped(dev[s].name)
  /\ dev[s].type = "SCHD" => dev[s].file # NoFile
  /\ ~SupportsImageFile(dev[s].type) => dev[s].file = NoFile
  /\ dev[s].type # NoType => dev[s].name \in ProductData
  /\ dev[s].type = NoType => dev[s].name = NoNames

\* As long as no device has gone, the properties are those of the devices.
GrowthInv == ~shrunk => \A s \in Slot : Recorded(s)

\* The properties of a device that is set up.
LEMMA SetUpIs ==
  ASSUME TablesOK, NEW s \in Slot, NEW t, NEW n, NEW f
  PROVE  LET p == SetUpDeviceProperties(State, s, t, n, f) IN
         /\ p[s].type = t /\ p[s].name = Swapped(n) /\ p[s].file = f
         /\ \A r \in Slot \ {s} : p[r] = property_cache[r]
BY DEF SetUpDeviceProperties, State, TablesOK

\* An ATTACH records type and file of the new device.
LEMMA AttachKeepsGrowth ==
  ASSUME TypeOK, FilesInv, GrowthInv, Attach
  PROVE  GrowthInv'
<1>1. TablesOK /\ op = "ATTACH" /\ UNCHANGED <<reserved_ids, images, shrunk>>
  BY TypeParts DEF Attach
<1> DEFINE d == Todo
<1>2. d \in Definition /\ d.slot \in Slot
  BY <1>1, TodoParts DEF TypeOK, Idle, Definition
<1> HIDE DEF d
<1>3. CASE MayAttach(State, d, reserved_ids) /\ Become(Attached(State, d))
  <2>1. (d.type = "SCHD" => d.file # NoFile) /\ d.type # NoType
    BY <1>3, MayAttachParts DEF MayAttach
  <2> DEFINE f == FileOf(d)
             n == NameOf(d)
             r == SupportsImageFile(d.type) /\ f = NoFile
  <2>2. n \in ProductData
    BY <1>2, <2>1, NameTypes DEF Definition
  <2>3. /\ dev'[d.slot] = [type |-> d.type, name |-> n, removed |-> r, file |-> f, last |-> NoFile]
        /\ \A t \in Slot \ {d.slot} : dev'[t] = dev[t]
    BY <1>1, <1>2, <1>3, <2>1, AttachedTables, Zenon
  <2>4. property_cache' = SetUpDeviceProperties(State, d.slot, d.type, n, f)
    BY <1>3 DEF Become, Attached
  <2>5. /\ d.type = "SCHD" => f # NoFile
        /\ ~SupportsImageFile(d.type) => f = NoFile
    BY <2>1 DEF FileOf, SupportsImageFile
  <2> HIDE DEF f, n, r
  <2>6. dev'[d.slot].type = d.type /\ dev'[d.slot].name = n /\ dev'[d.slot].file = f
    BY <2>3
  <2>7. SUFFICES ASSUME ~shrunk', NEW s \in Slot
                 PROVE  Recorded(s)'
    BY DEF GrowthInv
  <2>8. Recorded(s)
    BY <1>1, <2>7 DEF GrowthInv
  <2>9. CASE s = d.slot
    <3>1. /\ property_cache'[s].type = d.type /\ property_cache'[s].file = f
          /\ property_cache'[s].name = Swapped(n)
      BY <1>1, <1>2, <2>4, <2>9, SetUpIs
    <3>2. QED
      BY <2>1, <2>2, <2>5, <2>6, <2>9, <3>1 DEF Recorded
  <2>10. CASE s # d.slot
    <3>1. property_cache'[s] = property_cache[s] /\ dev'[s] = dev[s]
      BY <1>1, <1>2, <2>3, <2>4, <2>10, SetUpIs
    <3>2. QED
      BY <2>8, <3>1 DEF Recorded
  <2>11. QED
    BY <2>9, <2>10
<1>4. CASE UNCHANGED devices
  BY <1>1, <1>4 DEF devices, GrowthInv, Recorded
<1>5. QED
  BY <1>3, <1>4 DEF Attach, d, Todo

\* An INSERT records the new file.
LEMMA InsertKeepsGrowth ==
  ASSUME TypeOK, FilesInv, GrowthInv, Insert
  PROVE  GrowthInv'
<1>1. TablesOK /\ op = "INSERT" /\ UNCHANGED <<reserved_ids, images, shrunk>>
  BY TypeParts DEF Insert
<1> DEFINE d == Todo
           f == FileToInsert(State, d)
<1>2. /\ d \in Definition /\ d.slot \in Slot
      /\ todo # <<>> /\ todo \in Seq(Definition)
      /\ 1 \in DOMAIN todo /\ d = todo[1]
  BY <1>1, TodoParts DEF TypeOK, Idle, Definition
<1>0. f \in images \cup {NoFile}
  <2>1. \/ d.file \in images
        \/ d.file = NoFile /\ dev[d.slot].last \in images \cup {NoFile}
    BY <1>1, <1>2 DEF FilesInv, PendingExist
  <2>2. f = IF d.file # NoFile THEN d.file ELSE dev[d.slot].last
    BY DEF FileToInsert, State
  <2>3. QED
    BY <2>1, <2>2, <1>1, ExecutorAssumption DEF TablesOK
<1> HIDE DEF d
<1>3. CASE MayInsert(State, d) /\ Become(Inserted(State, d))
  <2>1. f # NoFile /\ dev[d.slot].type = "SCRM"
    BY <1>3, InTables DEF MayInsert
  <2>2. /\ dev'[d.slot].type = dev[d.slot].type /\ dev'[d.slot].file = f
        /\ dev'[d.slot].name = dev[d.slot].name
        /\ \A s \in Slot \ {d.slot} : dev'[s] = dev[s]
    BY <1>1, <1>2, <1>3, InsertedTables, Zenon
  <2>3. property_cache' = SetUpDeviceProperties(State, d.slot, "SCRM", dev[d.slot].name, f)
    BY <1>3 DEF Become, Inserted, State
  <2> HIDE DEF f
  <2>4. /\ property_cache'[d.slot].type = "SCRM" /\ property_cache'[d.slot].file = f
        /\ property_cache'[d.slot].name = Swapped(dev[d.slot].name)
        /\ \A r \in Slot \ {d.slot} : property_cache'[r] = property_cache[r]
    BY <1>1, <1>2, <2>1, <2>3, SetUpIs
  <2>5. QED
    BY <1>1, <2>1, <2>2, <2>4 DEF GrowthInv, Recorded, SupportsImageFile, NoType
<1>4. CASE /\ ~(MayInsert(State, d) /\ Usable(State, f))
           /\ Become(IF MayInsert(State, d) THEN NotOpened(State, d) ELSE State)
  <2>1. UNCHANGED <<dev, property_cache>>
    <3>1. CASE ~MayInsert(State, d)
      BY <1>4, <3>1 DEF Become, State
    <3>2. CASE MayInsert(State, d)
      <4>1. f # NoFile /\ f \in images
        BY <1>0, <3>2 DEF MayInsert
      <4>2. State.files[f] # NoSlot
        BY <1>4, <3>2, <4>1 DEF Usable
      <4>3. NotOpened(State, d) = State
        BY <4>2 DEF NotOpened
      <4>4. QED
        BY <1>4, <3>2, <4>3 DEF Become, State
    <3>3. QED
      BY <3>1, <3>2
  <2>2. QED
    BY <1>1, <2>1 DEF GrowthInv, Recorded
<1>5. QED
  BY <1>3, <1>4 DEF Insert, d, Todo

\* The properties follow the devices in every step.
LEMMA KeepsGrowth ==
  ASSUME TypeOK, FilesInv, GrowthInv, [Next]_vars
  PROVE  GrowthInv'
<1>1. CASE Attach
  BY <1>1, AttachKeepsGrowth
<1>2. CASE Insert
  BY <1>2, InsertKeepsGrowth
<1>3. CASE Eject \/ DetachAll \/ \E s \in Slot : HostEject(s)
  BY <1>3 DEF Eject, DetachAll, HostEject, GrowthInv
<1>4. CASE Detach
  BY <1>4 DEF Detach, devices, GrowthInv, Recorded
<1>5. CASE \/ \E o \in {"ATTACH", "DETACH", "INSERT", "EJECT"}, n \in 1..MaxDevices :
                \E ds \in [1..n -> Definitions(o)] : ProcessCmd(o, ds)
           \/ \E ids \in SUBSET Ids : ReserveIds(ids)
           \/ \E f \in File : CreateImage(f) \/ DeleteImage(f)
           \/ \E from, to \in File : RenameImage(from, to) \/ CopyImage(from, to)
           \/ UNCHANGED vars
  <2>1. UNCHANGED <<dev, property_cache, shrunk>>
    BY <1>5
       DEF ProcessCmd, ReserveIds, CreateImage, DeleteImage, RenameImage, CopyImage, vars, devices
  <2>2. QED
    BY <2>1 DEF GrowthInv, Recorded
<1>6. QED
  BY <1>1, <1>2, <1>3, <1>4, <1>5 DEF Next

\* There are no devices and no properties at the start.
LEMMA InitGrowth == Init => GrowthInv
BY DEF Init, GrowthInv, Recorded, NoDevices, NoDevice, NoProperties, NoType, NoNames, Swapped,
       SupportsImageFile

\* What a restart knows: the slots with properties, in order, with the definition of each of them.
Persistent == {s \in Slot : property_cache[s].type # NoType}
PersistOrder == InOrder(Persistent)
Redefined(s) ==
  [slot |-> s, type |-> property_cache[s].type, name |-> property_cache[s].name,
   file |-> property_cache[s].file]

\* What is attached after the first k definitions, and recorded again.
FirstOf(k) == {PersistOrder[j] : j \in 1..k}
RestoredDevice(s) ==
  [type |-> dev[s].type, name |-> Swapped(dev[s].name),
   removed |-> SupportsImageFile(dev[s].type) /\ dev[s].file = NoFile,
   file |-> dev[s].file, last |-> NoFile]
RecordedAgain(s) == [type |-> dev[s].type, name |-> Swapped(Swapped(dev[s].name)), file |-> dev[s].file]
RestoredState(k) ==
  [dev |-> [s \in Slot |-> IF s \in FirstOf(k) THEN RestoredDevice(s) ELSE NoDevice],
   files |-> [f \in File |-> IF reserved_files[f] \in FirstOf(k) THEN reserved_files[f] ELSE NoSlot],
   props |-> [s \in Slot |-> IF s \in FirstOf(k) THEN RecordedAgain(s) ELSE property_cache[s]]]

\* The devices there are do not disagree with each other or with the properties.
Restorable ==
  /\ TablesOK /\ SetsOK /\ FilesOK /\ GrowthInv /\ ~shrunk
  /\ \A s \in Slot : NameFits(Swapped(dev[s].name))

\* What the properties of a device say, and what ATTACH makes of the name.
LEMMA RecordedIs ==
  ASSUME TablesOK, GrowthInv, ~shrunk, NEW s \in Slot
  PROVE  /\ property_cache[s].type = dev[s].type /\ property_cache[s].file = dev[s].file
         /\ property_cache[s].name = Swapped(dev[s].name)
         /\ dev[s].type = "SCHD" => dev[s].file # NoFile
         /\ ~SupportsImageFile(dev[s].type) => dev[s].file = NoFile
         /\ dev[s].type = NoType => dev[s].name = NoNames
         /\ dev[s].type # NoType => NameOf(Redefined(s)) = Swapped(dev[s].name)
<1>1. Recorded(s)
  BY DEF GrowthInv
<1>2. ASSUME dev[s].type # NoType
      PROVE  NameOf(Redefined(s)) = Swapped(dev[s].name)
  <2> DEFINE m == Swapped(dev[s].name)
  <2>1. dev[s].name \in ProductData /\ Redefined(s).name = m
    BY <1>1, <1>2 DEF Recorded, Redefined
  <2>2. m.vendor \in Name /\ m.product \in Name
    BY <2>1 DEF ProductData, Swapped
  <2>3. m = [vendor |-> m.vendor, product |-> m.product]
    BY DEF Swapped
  <2> HIDE DEF m
  <2>4. m.vendor # NoName /\ m.product # NoName
    BY <2>2, ExecutorAssumption
  <2>5. QED
    BY <2>1, <2>3, <2>4 DEF NameOf, Part, m
<1>3. QED
  BY <1>1, <1>2 DEF Recorded

\* The order of the properties, and the definitions made of them.
LEMMA PersistedIs ==
  LET n == Cardinality(Persistent) IN
  /\ n \in Nat /\ PersistOrder \in [1..n -> Persistent] /\ Ascending(PersistOrder, n)
  /\ \A s \in Persistent : \E k \in 1..n : PersistOrder[k] = s
  /\ \A j, k \in 1..n : PersistOrder[j] = PersistOrder[k] => j = k
  /\ Persisted(property_cache) = [k \in 1..n |-> Redefined(PersistOrder[k])]
<1>1. Persistent \subseteq Slot
  BY DEF Persistent
<1> DEFINE n == Cardinality(Persistent)
<1>2. /\ n \in Nat /\ PersistOrder \in [1..n -> Persistent] /\ Ascending(PersistOrder, n)
      /\ \A s \in Persistent : \E k \in 1..n : PersistOrder[k] = s
      /\ \A j, k \in 1..n : PersistOrder[j] = PersistOrder[k] => j = k
  BY <1>1, OrderIs DEF PersistOrder
<1>3. Persisted(property_cache) = [k \in DOMAIN PersistOrder |-> Redefined(PersistOrder[k])]
  BY DEF Persisted, PersistOrder, Persistent, Redefined
<1>4. QED
  BY <1>2, <1>3

\* The k-th device may be attached again after any number of those before it.
LEMMA AttachesAgain ==
  ASSUME Restorable, NEW k \in 1..Cardinality(Persistent), NEW j \in 0..k - 1
  PROVE  LET d == Redefined(PersistOrder[k]) IN
         d.type # NoType /\ MayAttach(RestoredState(j), d, reserved_ids)
<1> DEFINE n == Cardinality(Persistent)
           s == PersistOrder[k]
           d == Redefined(s)
           st == RestoredState(j)
<1>1. n \in Nat /\ s \in Slot /\ dev[s].type # NoType
      /\ property_cache[s].type = dev[s].type /\ property_cache[s].file = dev[s].file
      /\ property_cache[s].name = Swapped(dev[s].name)
  BY PersistedIs, RecordedIs DEF Persistent, Restorable
<1>2. /\ d.slot = s /\ d.type = dev[s].type /\ d.file = dev[s].file
      /\ d.name = Swapped(dev[s].name)
  BY <1>1 DEF Redefined
<1>3. s \notin FirstOf(j) /\ FirstOf(j) \subseteq Slot
  <2>1. \A i \in 1..j : i \in 1..n /\ i # k
    BY <1>1
  <2>2. QED
    BY <2>1, PersistedIs DEF FirstOf, Persistent
<1>4. \A t \in Slot : st.dev[t].type = IF t \in FirstOf(j) THEN dev[t].type ELSE NoType
  BY DEF RestoredState, RestoredDevice, NoDevice
<1>5. st.files = [f \in File |-> IF reserved_files[f] \in FirstOf(j) THEN reserved_files[f] ELSE NoSlot]
  BY DEF RestoredState
<1> HIDE DEF s, d, st
<1>6. ~Present(st, d.slot)
  BY <1>1, <1>2, <1>3, <1>4 DEF Present
<1>7. Id(d.slot) \notin reserved_ids
  BY <1>1, <1>2 DEF Restorable, SetsOK, ReservedIdsFree, Present, State
<1>8. Creatable(st, d.type)
  BY <1>1, <1>2, <1>3, <1>4 DEF Restorable, SetsOK, UniqueTypes, Creatable, Unique, NoType
<1>9. d.type = "SCHD" => d.file # NoFile
  BY <1>1, <1>2, RecordedIs DEF Restorable
<1>12. NameFits(d.name)
  BY <1>1, <1>2 DEF Restorable
<1>10. FileOf(d) # NoFile => Usable(st, d.file)
  <2>1. ASSUME dev[s].file # NoFile
        PROVE  Usable(st, dev[s].file)
    <3>1. dev[s].file \in File /\ reserved_files[dev[s].file] = s
      BY <1>1, <2>1, FileReserved DEF Restorable
    <3>2. dev[s].file \in images
      BY <1>1, <2>1 DEF Restorable, FilesOK, UsedExists
    <3>3. QED
      BY <1>3, <1>5, <3>1, <3>2 DEF Usable
  <2>2. QED
    BY <1>2, <2>1 DEF FileOf
<1>11. QED
  BY <1>1, <1>2, <1>6, <1>7, <1>8, <1>9, <1>10, <1>12 DEF MayAttach, d, st, s

\* There is a controller for it, as LUN 0 comes first.
LEMMA AttachableAgain ==
  ASSUME Restorable, NEW k \in 1..Cardinality(Persistent)
  PROVE  Attachable(RestoredState(k - 1), Redefined(PersistOrder[k]))
<1> DEFINE n == Cardinality(Persistent)
           s == PersistOrder[k]
           st == RestoredState(k - 1)
<1>1. n \in Nat /\ s \in Slot /\ dev[s].type # NoType /\ Redefined(s).slot = s
  BY PersistedIs, RecordedIs DEF Persistent, Restorable, Redefined
<1>2. PICK t \in Slot : dev[t].type # NoType /\ Id(t) = Id(s) /\ Unit(t) = 0
  BY <1>1 DEF Restorable, SetsOK, Lun0Present, Present, State
<1>3. CASE Unit(s) = 0
  BY <1>1, <1>3 DEF Attachable
<1>4. CASE Unit(s) # 0
  <2>1. t \in Persistent
    BY <1>2, RecordedIs DEF Persistent, Restorable
  <2>2. PICK j \in 1..n : PersistOrder[j] = t
    BY <2>1, PersistedIs
  <2>3. ~Before(s, t)
    BY <1>1, <1>2, <1>4, LunZeroFirst
  <2>4. ~(k < j) /\ j # k
    BY <1>2, <1>4, <2>2, <2>3, PersistedIs DEF Ascending
  <2>5. j \in 1..k - 1
    BY <1>1, <2>4
  <2>6. t \in FirstOf(k - 1)
    BY <2>2, <2>5 DEF FirstOf
  <2>7. st.dev[t].type = dev[t].type
    BY <2>6 DEF RestoredState, RestoredDevice
  <2> HIDE DEF st
  <2>8. Present(st, t)
    BY <1>2, <2>7 DEF Present
  <2>9. QED
    BY <1>1, <1>2, <2>8 DEF Attachable, HasController, AttachedSlots, st
<1>5. QED
  BY <1>3, <1>4

\* Attaching it leads to the next state.
LEMMA AttachedAgain ==
  ASSUME Restorable, NEW k \in 1..Cardinality(Persistent)
  PROVE  Attached(RestoredState(k - 1), Redefined(PersistOrder[k])) = RestoredState(k)
<1> DEFINE n == Cardinality(Persistent)
           s == PersistOrder[k]
           d == Redefined(s)
           st == RestoredState(k - 1)
           f == dev[s].file
           m == Swapped(dev[s].name)
<1>1. /\ n \in Nat /\ s \in Slot /\ dev[s].type # NoType
      /\ property_cache[s].type = dev[s].type /\ property_cache[s].file = f
      /\ ~SupportsImageFile(dev[s].type) => f = NoFile
      /\ NameOf(d) = m
  BY PersistedIs, RecordedIs DEF Persistent, Restorable
<1>2. d.slot = s /\ d.type = dev[s].type /\ FileOf(d) = f
  BY <1>1 DEF Redefined, FileOf
<1>3. FirstOf(k) = FirstOf(k - 1) \cup {s}
  <2>1. 1..k = (1..k - 1) \cup {k}
    BY <1>1
  <2>2. QED
    BY <2>1 DEF FirstOf
<1>4. RestoredState(k).dev = [st.dev EXCEPT ![s] = RestoredDevice(s)]
  BY <1>1, <1>3 DEF RestoredState
<1>5. RestoredState(k).files = Reserve(st, s, f)
  <2>1. st.files = [g \in File |-> IF reserved_files[g] \in FirstOf(k - 1) THEN reserved_files[g] ELSE NoSlot]
    BY DEF RestoredState
  <2>2. \A g \in File : reserved_files[g] = s <=> f = g
    <3>1. \A g \in File : reserved_files[g] = s <=> f = g /\ ~dev[s].removed
      BY <1>1 DEF Restorable, FilesOK, FilesMatch
    <3>2. f # NoFile => ~dev[s].removed
      BY <1>1 DEF Restorable, FilesOK, NamesFit
    <3>3. NoFile \notin File
      BY ExecutorAssumption
    <3>4. QED
      BY <3>1, <3>2, <3>3
  <2>3. RestoredState(k).files =
          [g \in File |-> IF reserved_files[g] \in FirstOf(k - 1) \cup {s} THEN reserved_files[g] ELSE NoSlot]
    BY <1>3 DEF RestoredState
  <2>4. f \in File \cup {NoFile} /\ NoFile \notin File
    BY <1>1, ExecutorAssumption DEF Restorable, TablesOK, DeviceRecord, Maybe
  <2> HIDE DEF st, f, s
  <2>5. CASE f = NoFile
    BY <2>1, <2>2, <2>3, <2>4, <2>5 DEF Reserve
  <2>6. CASE f # NoFile
    BY <2>1, <2>2, <2>3, <2>4, <2>6 DEF Reserve
  <2>7. QED
    BY <2>5, <2>6
<1>6. RestoredState(k).props = SetUpDeviceProperties(st, s, dev[s].type, m, f)
  <2>1. /\ st.props = [t \in Slot |-> IF t \in FirstOf(k - 1) THEN RecordedAgain(t) ELSE property_cache[t]]
        /\ RestoredState(k).props =
             [t \in Slot |-> IF t \in FirstOf(k) THEN RecordedAgain(t) ELSE property_cache[t]]
    BY DEF RestoredState
  <2>2. RecordedAgain(s) = [type |-> dev[s].type, name |-> Swapped(m), file |-> f]
    BY DEF RecordedAgain
  <2> HIDE DEF f, s, st, m
  <2>3. RestoredState(k).props = [st.props EXCEPT ![s] = RecordedAgain(s)]
    BY <1>1, <1>3, <2>1
  <2>4. QED
    BY <2>2, <2>3 DEF SetUpDeviceProperties
<1>7. RestoredState(k) = [dev |-> RestoredState(k).dev, files |-> RestoredState(k).files,
                          props |-> RestoredState(k).props]
  BY DEF RestoredState
<1> HIDE DEF s, d, st, f, m
<1>8. Attached(st, d) = [dev |-> [st.dev EXCEPT ![s] = RestoredDevice(s)], files |-> Reserve(st, s, f),
                         props |-> SetUpDeviceProperties(st, s, dev[s].type, m, f)]
  BY <1>1, <1>2 DEF Attached, RestoredDevice, f, m
<1>9. QED
  BY <1>4, <1>5, <1>6, <1>7, <1>8 DEF s, d, st, f, m

\* The dry run of the initial ATTACH command passes.
LEMMA PassesAgain ==
  ASSUME Restorable
  PROVE  PassesDryRun("ATTACH", RestoredState(0), Persisted(property_cache), reserved_ids)
<1> DEFINE n == Cardinality(Persistent)
           ds == Persisted(property_cache)
           st == RestoredState(0)
<1>1. /\ n \in Nat /\ ds = [k \in 1..n |-> Redefined(PersistOrder[k])]
      /\ PersistOrder \in [1..n -> Persistent] /\ \A s \in Persistent : \E k \in 1..n : PersistOrder[k] = s
  BY PersistedIs
<1>2. ASSUME NEW k \in 1..n
      PROVE  Validated("ATTACH", st, ds[k], reserved_ids)
  <2>1. 0 \in 0..k - 1
    BY <1>1
  <2>2. QED
    BY <1>1, <2>1, AttachesAgain DEF Validated
<1>3. AttachedSlots(st) = {}
  <2>1. FirstOf(0) = {}
    BY DEF FirstOf
  <2>2. QED
    BY <2>1 DEF RestoredState, AttachedSlots, Present, NoDevice
<1>4. {ds[k].slot : k \in DOMAIN ds} = Persistent
  BY <1>1 DEF Redefined
<1>5. \A s \in Persistent : \E t \in Persistent : Id(t) = Id(s) /\ Unit(t) = 0
  BY RecordedIs DEF Persistent, Restorable, SetsOK, Lun0Present, Present, State
<1> HIDE DEF ds, st
<1>6. EnsureLun0(st, ds)
  BY <1>3, <1>4, <1>5 DEF EnsureLun0
<1>7. DOMAIN ds = 1..n
  BY <1>1
<1>8. QED
  BY <1>2, <1>6, <1>7 DEF PassesDryRun, ds, st

\* A restart leads to the same types and media, and to the names as they were recorded.
LEMMA RestoresDevices ==
  ASSUME Restorable
  PROVE  /\ SameDevices(AfterRestart, dev)
         /\ \A s \in Slot : AfterRestart[s].name = Swapped(dev[s].name)
<1> DEFINE n == Cardinality(Persistent)
           ds == Persisted(property_cache)
           empty == [dev |-> NoDevices, files |-> NoFiles, props |-> property_cache]
           AttachNext(r, d) ==
             IF r.ok /\ MayAttach(r.st, d, reserved_ids) /\ Attachable(r.st, d)
             THEN [ok |-> TRUE, st |-> Attached(r.st, d)]
             ELSE [ok |-> FALSE, st |-> empty]
           passes == PassesDryRun("ATTACH", empty, ds, reserved_ids)
           a == CHOOSE f : f = [k \in 0..Len(ds) |-> IF k = 0 THEN [ok |-> passes, st |-> empty]
                                                     ELSE AttachNext(f[k - 1], ds[k])]
           w == [k \in 0..n |-> [ok |-> TRUE, st |-> RestoredState(k)]]
<1>1. Restored(property_cache, reserved_ids) = IF a[Len(ds)].ok THEN a[Len(ds)].st.dev ELSE NoDevices
  BY DEF Restored
<1>2. /\ n \in Nat /\ ds = [k \in 1..n |-> Redefined(PersistOrder[k])]
      /\ PersistOrder \in [1..n -> Persistent] /\ \A s \in Persistent : \E k \in 1..n : PersistOrder[k] = s
  BY PersistedIs
<1>3. Len(ds) = n
  BY <1>2
<1>4. RestoredState(0) = empty
  <2>1. FirstOf(0) = {}
    BY DEF FirstOf
  <2>2. property_cache = [s \in Slot |-> property_cache[s]]
    BY DEF Restorable, TablesOK
  <2>3. QED
    BY <2>1, <2>2 DEF RestoredState, NoDevices, NoFiles
<1>5. passes = TRUE
  BY <1>4, PassesAgain DEF PassesDryRun
<1>6. ASSUME NEW k \in 1..n
      PROVE  AttachNext([ok |-> TRUE, st |-> RestoredState(k - 1)], ds[k]) = [ok |-> TRUE, st |-> RestoredState(k)]
  <2>1. k - 1 \in 0..k - 1 /\ ds[k] = Redefined(PersistOrder[k])
    BY <1>2
  <2>2. /\ MayAttach(RestoredState(k - 1), ds[k], reserved_ids) /\ Attachable(RestoredState(k - 1), ds[k])
        /\ Attached(RestoredState(k - 1), ds[k]) = RestoredState(k)
    BY <2>1, AttachesAgain, AttachableAgain, AttachedAgain
  <2> HIDE DEF ds, empty
  <2>3. QED
    BY <2>2
<1> HIDE DEF ds, empty, passes, AttachNext
<1>7. w = [k \in 0..n |-> IF k = 0 THEN [ok |-> passes, st |-> empty] ELSE AttachNext(w[k - 1], ds[k])]
  <2>1. ASSUME NEW k \in 0..n
        PROVE  w[k] = IF k = 0 THEN [ok |-> passes, st |-> empty] ELSE AttachNext(w[k - 1], ds[k])
    <3>1. CASE k = 0
      BY <1>4, <1>5, <3>1
    <3>2. CASE k # 0
      <4>1. k \in 1..n /\ k - 1 \in 0..n
        BY <1>2, <3>2
      <4>2. w[k - 1] = [ok |-> TRUE, st |-> RestoredState(k - 1)] /\ w[k] = [ok |-> TRUE, st |-> RestoredState(k)]
        BY <4>1
      <4> HIDE DEF w
      <4>3. QED
        BY <1>6, <3>2, <4>1, <4>2
    <3>3. QED
      BY <3>1, <3>2
  <2>2. QED
    BY <2>1
<1> HIDE DEF w
<1>8. a = [k \in 0..n |-> IF k = 0 THEN [ok |-> passes, st |-> empty] ELSE AttachNext(a[k - 1], ds[k])]
  BY <1>3, <1>7
<1> HIDE DEF a
<1>9. \A k \in 0..n : a[k] = w[k]
  <2> DEFINE B == {k \in 0..n : a[k] = w[k]}
  <2>1. 0 \in B
    <3>1. 0 \in 0..n
      BY <1>2
    <3>2. a[0] = [ok |-> passes, st |-> empty]
      BY <1>8, <3>1
    <3>3. w[0] = [ok |-> passes, st |-> empty]
      BY <1>7, <3>1
    <3>4. QED
      BY <3>1, <3>2, <3>3
  <2>2. ASSUME NEW k \in 0..n - 1, k \in B
        PROVE  k + 1 \in B
    <3>1. PICK j \in 0..n : j = k + 1 /\ j # 0 /\ j - 1 = k
      BY <1>2
    <3>2. a[j] = AttachNext(a[k], ds[j])
      BY <1>8, <3>1
    <3>3. w[j] = AttachNext(w[k], ds[j])
      BY <1>7, <3>1
    <3>4. QED
      BY <2>2, <3>1, <3>2, <3>3
  <2> HIDE DEF B
  <2>3. \A k \in 0..n : k \in B
    BY <1>2, <2>1, <2>2, UpTo
  <2>4. QED
    BY <2>3 DEF B
<1>10. Restored(property_cache, reserved_ids) = RestoredState(n).dev
  <2>1. n \in 0..n
    BY <1>2
  <2>2. w[n] = [ok |-> TRUE, st |-> RestoredState(n)]
    BY <2>1 DEF w
  <2>3. QED
    BY <1>1, <1>3, <1>9, <2>1, <2>2
<1>11. FirstOf(n) = Persistent
  BY <1>2 DEF FirstOf
<1>12. ASSUME NEW s \in Slot
       PROVE  /\ RestoredState(n).dev[s].type = dev[s].type /\ RestoredState(n).dev[s].file = dev[s].file
              /\ RestoredState(n).dev[s].name = Swapped(dev[s].name)
  <2>1. CASE s \in Persistent
    BY <1>11, <2>1 DEF RestoredState, RestoredDevice
  <2>2. CASE s \notin Persistent
    <3>1. dev[s].type = NoType /\ dev[s].file = NoFile /\ dev[s].name = NoNames
      BY <2>2, RecordedIs DEF Persistent, Restorable, FilesOK, NamesFit
    <3>2. QED
      BY <1>11, <2>2, <3>1 DEF RestoredState, NoDevice, NoNames, Swapped
  <2>3. QED
    BY <2>1, <2>2
<1>13. QED
  BY <1>10, <1>12 DEF SameDevices, AfterRestart

\* ATTACH refuses a vendor that is a product too long for it, in the dry run: no device is attached.
LEMMA RestartFails ==
  ASSUME TablesOK, GrowthInv, ~shrunk, NEW s \in Slot, ~NameFits(Swapped(dev[s].name))
  PROVE  AfterRestart = NoDevices
<1> DEFINE n == Cardinality(Persistent)
           ds == Persisted(property_cache)
           empty == [dev |-> NoDevices, files |-> NoFiles, props |-> property_cache]
           AttachNext(r, d) ==
             IF r.ok /\ MayAttach(r.st, d, reserved_ids) /\ Attachable(r.st, d)
             THEN [ok |-> TRUE, st |-> Attached(r.st, d)]
             ELSE [ok |-> FALSE, st |-> empty]
           passes == PassesDryRun("ATTACH", empty, ds, reserved_ids)
           a == CHOOSE f : f = [k \in 0..Len(ds) |-> IF k = 0 THEN [ok |-> passes, st |-> empty]
                                                     ELSE AttachNext(f[k - 1], ds[k])]
           w == [k \in 0..n |-> [ok |-> FALSE, st |-> empty]]
<1>1. AfterRestart = IF a[Len(ds)].ok THEN a[Len(ds)].st.dev ELSE NoDevices
  BY DEF Restored, AfterRestart
<1>2. /\ n \in Nat /\ ds = [k \in 1..n |-> Redefined(PersistOrder[k])]
      /\ \A t \in Persistent : \E k \in 1..n : PersistOrder[k] = t
  BY PersistedIs
<1>3. Len(ds) = n
  BY <1>2
<1>4. property_cache[s].name = Swapped(dev[s].name) /\ s \in Persistent
  <2>0. NameFits(Swapped(NoNames))
    BY DEF NameFits, Swapped, NoNames
  <2>1. dev[s].type # NoType
    BY <2>0, RecordedIs
  <2>2. QED
    BY <2>1, RecordedIs DEF Persistent
<1>5. PICK j \in 1..n : PersistOrder[j] = s
  BY <1>2, <1>4
<1>6. ~passes
  <2>1. ~NameFits(ds[j].name)
    BY <1>2, <1>4, <1>5 DEF Redefined
  <2>2. ~Validated("ATTACH", empty, ds[j], reserved_ids)
    BY <2>1 DEF Validated, MayAttach
  <2>3. j \in DOMAIN ds
    BY <1>2
  <2> HIDE DEF ds, empty
  <2>4. QED
    BY <2>2, <2>3 DEF PassesDryRun
<1>7. passes = FALSE
  BY <1>6 DEF PassesDryRun
<1> HIDE DEF ds, empty, passes
<1>8. w = [k \in 0..n |-> IF k = 0 THEN [ok |-> passes, st |-> empty] ELSE AttachNext(w[k - 1], ds[k])]
  <2>1. ASSUME NEW k \in 0..n
        PROVE  w[k] = IF k = 0 THEN [ok |-> passes, st |-> empty] ELSE AttachNext(w[k - 1], ds[k])
    <3>1. CASE k = 0
      BY <1>7, <3>1
    <3>2. CASE k # 0
      <4>1. k - 1 \in 0..n
        BY <1>2, <3>2
      <4>2. w[k - 1].ok = FALSE
        BY <4>1
      <4>3. w[k] = [ok |-> FALSE, st |-> empty]
        OBVIOUS
      <4>4. AttachNext(w[k - 1], ds[k]) = [ok |-> FALSE, st |-> empty]
        BY <4>2
      <4>5. QED
        BY <3>2, <4>3, <4>4
    <3>3. QED
      BY <3>1, <3>2
  <2>2. QED
    BY <2>1
<1> HIDE DEF AttachNext
<1>9. a = [k \in 0..n |-> IF k = 0 THEN [ok |-> passes, st |-> empty] ELSE AttachNext(a[k - 1], ds[k])]
  <2> HIDE DEF w
  <2>1. QED
    BY <1>3, <1>8
<1> HIDE DEF a
<1>10. \A k \in 0..n : a[k] = w[k]
  <2> HIDE DEF w
  <2> DEFINE B == {k \in 0..n : a[k] = w[k]}
  <2>1. 0 \in B
    <3>1. 0 \in 0..n
      BY <1>2
    <3>2. a[0] = [ok |-> passes, st |-> empty]
      BY <1>9, <3>1
    <3>3. w[0] = [ok |-> passes, st |-> empty]
      BY <1>8, <3>1
    <3>4. QED
      BY <3>1, <3>2, <3>3
  <2>2. ASSUME NEW k \in 0..n - 1, k \in B
        PROVE  k + 1 \in B
    <3>1. PICK i \in 0..n : i = k + 1 /\ i # 0 /\ i - 1 = k
      BY <1>2
    <3>2. a[i] = AttachNext(a[k], ds[i])
      BY <1>9, <3>1
    <3>3. w[i] = AttachNext(w[k], ds[i])
      BY <1>8, <3>1
    <3>4. QED
      BY <2>2, <3>1, <3>2, <3>3
  <2> HIDE DEF B
  <2>3. \A k \in 0..n : k \in B
    BY <1>2, <2>1, <2>2, UpTo
  <2>4. QED
    BY <2>3 DEF B
<1>11. QED
  <2>1. n \in 0..n
    BY <1>2
  <2>2. w[n].ok = FALSE
    BY <2>1
  <2>3. QED
    BY <1>1, <1>3, <1>10, <2>1, <2>2

\* Persist(), CreateDevices() and AttachInitialDevices(): as long as no device has been detached and no medium
\* ejected, a restart attaches the devices there were, with their media, whatever has been attached and inserted
\* in which order, and exchanges vendor and product of each.  If a product is too long for a vendor there are no
\* devices.
THEOREM RestartRestores ==
  ASSUME ~MissingFiles
  PROVE  Spec => []PersistedGrowth
<1> DEFINE I == TypeOK /\ SetsOK /\ FilesInv /\ GrowthInv
<1>1. Init => I
  BY InitDevices, InitFiles, InitGrowth
<1>2. I /\ [Next]_vars => I'
  BY KeepsDevices, KeepsFiles, KeepsGrowth
<1>3. I => PersistedGrowth
  BY TypeParts, RestoresDevices, RestartFails DEF PersistedGrowth, Restorable, FilesInv
<1>4. QED
  BY <1>1, <1>2, <1>3, PTL DEF Spec
===============================================================================
