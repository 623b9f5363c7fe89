------------------------------- MODULE Executor -------------------------------
(***************************************************************************)
(* The set of devices: which device is attached to which ID and LUN, the   *)
(* image files and IDs set aside, and the properties a configuration is    *)
(* saved from (cpp/command/command_executor.cpp, command_image_support.cpp,*)
(* cpp/controllers/controller_factory.cpp, abstract_controller.cpp,        *)
(* cpp/base/device_factory.cpp, property_handler.cpp,                      *)
(* cpp/s2p/s2p_core.cpp).                                                  *)
(*                                                                         *)
(* A remote command names one or more devices.  It is validated for all of *)
(* them in a dry run, then executed for one device after the other, which  *)
(* are steps of their own here.  What a drive does with its medium is the  *)
(* subject of Drives; START, STOP, PROTECT and UNPROTECT are left to it.   *)
(***************************************************************************)
EXTENDS Naturals, SequencesExt

CONSTANTS Slot,          \* the pairs of an ID and a LUN commands name
          File,          \* full names of image files
          MaxDevices,    \* the most devices a command names
          MissingFiles,  \* may a command name a file that does not exist?
          InitMayFail,   \* may Init() of a device fail?
          Name, Length,  \* vendor and product names, and how long they are
          DefaultName,   \* the product data a device of each type is created with
          GivenName,     \* the product data commands give, parts of which may be missing
          NoSlot, NoFile, NoName

\* A fixed and a removable drive, and a device that must be unique and has no image file.
Type == {"SCHD", "SCRM", "SCDP"}
NoType == "UNDEFINED"

Id(slot) == slot[1]
Unit(slot) == slot[2]
Ids == {Id(s) : s \in Slot}

\* ProductData without the revision, which stays where it is in all that follows.
ProductData == [vendor : Name, product : Name]
PartialData == [vendor : Name \cup {NoName}, product : Name \cup {NoName}]
NoNames == [vendor |-> NoName, product |-> NoName]

\* PrimaryDevice::SetProductData(): what it accepts.
NameFits(n) ==
  /\ n.vendor # NoName => Length[n.vendor] <= 8
  /\ n.product # NoName => Length[n.product] <= 16

ASSUME ExecutorAssumption ==
  /\ Slot \subseteq Nat \X Nat /\ IsFiniteSet(Slot) /\ NoSlot \notin Slot
  /\ NoFile \notin File
  /\ MaxDevices \in Nat \ {0}
  /\ MissingFiles \in BOOLEAN /\ InitMayFail \in BOOLEAN
  /\ Length \in [Name -> Nat \ {0}] /\ NoName \notin Name
  /\ DefaultName \in [Type -> ProductData] /\ \A t \in Type : NameFits(DefaultName[t])
  /\ GivenName \subseteq PartialData

VARIABLES dev,             \* the device of each slot
          reserved_files,  \* image file -> the slot it is in use by
          property_cache,  \* the "device." properties: type, name and file of each slot
          reserved_ids,
          images,          \* the image files that exist
          op, todo,        \* the operation being executed, the devices still to come
          given, before,   \* the devices it named, and all devices when it was received
          shrunk           \* has a device been detached or a medium been ejected?

executing == <<op, todo, given, before>>
devices == <<dev, reserved_files, property_cache>>
vars == <<devices, reserved_ids, images, executing, shrunk>>

Maybe == File \cup {NoFile}

NoDevice ==
  [type |-> NoType, name |-> NoNames, removed |-> FALSE, file |-> NoFile, last |-> NoFile]

DeviceRecord ==
  [type : Type \cup {NoType}, name : PartialData, removed : BOOLEAN, file : Maybe, last : Maybe]

\* A device definition of a command.
Definition == [slot : Slot, type : Type \cup {NoType}, name : PartialData, file : Maybe]

Properties == [type : Type \cup {NoType}, name : PartialData, file : Maybe]
NoProperties == [type |-> NoType, name |-> NoNames, file |-> NoFile]

\* The parts of the state a command reads and changes, for one device after the other.
State == [dev |-> dev, files |-> reserved_files, props |-> property_cache]

NoDevices == [s \in Slot |-> NoDevice]
NoFiles == [f \in File |-> NoSlot]

Present(st, s) == st.dev[s].type # NoType
AttachedSlots(st) == {s \in Slot : Present(st, s)}
HasController(st, i) == \E s \in AttachedSlots(st) : Id(s) = i

SupportsImageFile(t) == t \in {"SCHD", "SCRM"}
Unique(t) == t = "SCDP"

\* The file a definition is about: the file parameter means nothing to other devices.
FileOf(d) == IF SupportsImageFile(d.type) THEN d.file ELSE NoFile

-------------------------------------------------------------------------------
(* The operations on one device, as functions of the state so far. *)

\* CreateDevice(): the type must be known, and some types must be unique.
Creatable(st, t) == t # NoType /\ (Unique(t) => \A s \in Slot : st.dev[s].type # t)

\* PrimaryDevice::SetProductData(): a part that is missing keeps its default.
Part(given_part, default) == IF given_part = NoName THEN default ELSE given_part
NameOf(d) == [vendor |-> Part(d.name.vendor, DefaultName[d.type].vendor),
              product |-> Part(d.name.product, DefaultName[d.type].product)]

\* Mutation: the list of reserved files is not consulted.
UsableUnchecked(st, f) == f \in images

\* ValidateImageFile()
Usable(st, f) == st.files[f] = NoSlot /\ f \in images

\* The checks of Attach(), the same in the dry run and before attaching.
MayAttach(st, d, ids) ==
  /\ ~Present(st, d.slot)
  /\ Id(d.slot) \notin ids
  /\ Creatable(st, d.type)
  /\ NameFits(d.name)
  /\ d.type = "SCHD" => d.file # NoFile
  /\ FileOf(d) # NoFile => Usable(st, d.file)

\* AttachToController(): a new controller starts with LUN 0.
Attachable(st, d) == HasController(st, Id(d.slot)) \/ Unit(d.slot) = 0

\* The "name" property: vendor and product change places.
Swapped(n) == [vendor |-> n.product, product |-> n.vendor]

\* Mutation: the file is not recorded.
SetUpWithoutFile(st, s, t, n, f) ==
  [st.props EXCEPT ![s] = [type |-> t, name |-> Swapped(n), file |-> @.file]]

\* SetUpDeviceProperties(): without a medium the "file" parameter is recorded, which is empty.
SetUpDeviceProperties(st, s, t, n, f) ==
  [st.props EXCEPT ![s] = [type |-> t, name |-> Swapped(n), file |-> f]]

Reserve(st, s, f) == IF f = NoFile THEN st.files ELSE [st.files EXCEPT ![f] = s]

\* UnreserveFile(): the entry of this file goes, whichever device it belongs to.
Unreserve(st, s) ==
  IF st.dev[s].file = NoFile THEN st.files ELSE [st.files EXCEPT ![st.dev[s].file] = NoSlot]

Attached(st, d) ==
  LET f == FileOf(d) IN
  [dev |-> [st.dev EXCEPT ![d.slot] =
              [type |-> d.type, name |-> NameOf(d), removed |-> SupportsImageFile(d.type) /\ f = NoFile,
               file |-> f, last |-> NoFile]],
   files |-> Reserve(st, d.slot, f),
   props |-> SetUpDeviceProperties(st, d.slot, d.type, NameOf(d), f)]

\* Insert(): without a file name the file ejected last.
FileToInsert(st, d) == IF d.file # NoFile THEN d.file ELSE st.dev[d.slot].last

MayInsert(st, d) ==
  st.dev[d.slot].type = "SCRM" /\ st.dev[d.slot].removed /\ FileToInsert(st, d) # NoFile

Inserted(st, d) ==
  LET f == FileToInsert(st, d) IN
  [dev |-> [st.dev EXCEPT ![d.slot].file = f, ![d.slot].removed = FALSE],
   files |-> Reserve(st, d.slot, f),
   props |-> SetUpDeviceProperties(st, d.slot, "SCRM", st.dev[d.slot].name, f)]

\* Open() of a file that is not reserved throws: the name stays in the drive.
NotOpened(st, d) ==
  LET f == FileToInsert(st, d) IN
  IF st.files[f] = NoSlot THEN [st EXCEPT !.dev[d.slot].file = f] ELSE st

\* Device::Eject() and StorageDevice::Eject(); RemoveProperties() leaves property_cache alone.
Ejected(st, s) ==
  IF st.dev[s].removed THEN st
  ELSE [st EXCEPT !.files = Unreserve(st, s),
                  !.dev[s] = [type |-> @.type, name |-> @.name, removed |-> TRUE,
                              file |-> NoFile, last |-> @.file]]

\* Mutation: LUN 0 may go first.
MayDetachAny(st, s) == Present(st, s)

\* Detach(): LUN 0 goes last.
MayDetach(st, s) ==
  /\ Present(st, s)
  /\ Unit(s) = 0 => \A t \in AttachedSlots(st) : Id(t) = Id(s) => t = s

\* RemoveDevice() with StorageDevice::CleanUp()
Detached(st, s) ==
  [st EXCEPT !.files = Unreserve(st, s), !.dev[s] = NoDevice]

\* ValidateDevice(), ValidateOperation() and the checks of the operation.
Validated(o, st, d, ids) ==
  CASE o = "ATTACH" -> MayAttach(st, d, ids)
    [] o = "DETACH" -> MayDetach(st, d.slot)
    [] o = "INSERT" -> MayInsert(st, d)
    [] o = "EJECT" -> st.dev[d.slot].type = "SCRM"

\* Mutation: the LUNs of a command are not looked at together.
EnsureLun0Never(st, ds) == TRUE

\* EnsureLun0(): every ID has LUN 0, among the devices there are and those named.
EnsureLun0(st, ds) ==
  LET slots == AttachedSlots(st) \cup {ds[k].slot : k \in DOMAIN ds}
  IN  \A s \in slots : \E t \in slots : Id(t) = Id(s) /\ Unit(t) = 0

\* ProcessCmd() up to the execution: the dry run changes nothing, so that it looks
\* at each device as if it were the only one.
PassesDryRun(o, st, ds, ids) ==
  (\A k \in DOMAIN ds : Validated(o, st, ds[k], ids)) /\ EnsureLun0(st, ds)

-------------------------------------------------------------------------------
Init ==
  /\ dev = NoDevices
  /\ reserved_files = NoFiles
  /\ property_cache = [s \in Slot |-> NoProperties]
  /\ reserved_ids = {}
  /\ images = File
  /\ op = "NONE" /\ todo = <<>> /\ given = <<>> /\ before = dev
  /\ shrunk = FALSE

Idle == op = "NONE"

Become(st) ==
  dev' = st.dev /\ reserved_files' = st.files /\ property_cache' = st.props

\* The command has been answered.
Finish ==
  op' = "NONE" /\ todo' = <<>> /\ given' = <<>> /\ before' = NoDevices

\* One device is done.
Proceed ==
  IF Len(todo) = 1 THEN Finish ELSE todo' = Tail(todo) /\ UNCHANGED <<op, given, before>>

\* ProcessCmd() for the operations that name devices.  A command that does not
\* pass the dry run changes nothing and is left out.
ProcessCmd(o, ds) ==
  /\ Idle
  /\ PassesDryRun(o, State, ds, reserved_ids)
  /\ ~MissingFiles => \A k \in DOMAIN ds :
       LET f == IF o = "INSERT" THEN FileToInsert(State, ds[k]) ELSE FileOf(ds[k])
       IN  f = NoFile \/ f \in images
  /\ op' = o /\ todo' = ds /\ given' = ds /\ before' = dev
  /\ UNCHANGED <<devices, reserved_ids, images, shrunk>>

\* Attach(), outside the dry run.
Attach ==
  /\ op = "ATTACH"
  /\ LET d == Head(todo) IN
     \/ /\ MayAttach(State, d, reserved_ids) /\ Attachable(State, d)
        /\ Become(Attached(State, d))
        /\ Proceed
     \/ /\ \/ ~MayAttach(State, d, reserved_ids) \/ ~Attachable(State, d)
           \/ InitMayFail /\ d.type = "SCDP"
        /\ Finish /\ UNCHANGED devices
  /\ UNCHANGED <<reserved_ids, images, shrunk>>

\* Insert(), outside the dry run.
Insert ==
  /\ op = "INSERT"
  /\ LET d == Head(todo) IN
     IF MayInsert(State, d) /\ Usable(State, FileToInsert(State, d))
     THEN Become(Inserted(State, d)) /\ Proceed
     ELSE /\ Become(IF MayInsert(State, d) THEN NotOpened(State, d) ELSE State)
          /\ Finish
  /\ UNCHANGED <<reserved_ids, images, shrunk>>

\* Eject(), outside the dry run.
Eject ==
  /\ op = "EJECT"
  /\ Become(Ejected(State, Head(todo).slot))
  /\ Proceed
  /\ shrunk' = TRUE
  /\ UNCHANGED <<reserved_ids, images>>

\* Detach(), outside the dry run.
Detach ==
  /\ op = "DETACH"
  /\ LET s == Head(todo).slot IN
     IF MayDetach(State, s)
     THEN Become(Detached(State, s)) /\ Proceed /\ shrunk' = TRUE
     ELSE Finish /\ UNCHANGED <<devices, shrunk>>
  /\ UNCHANGED <<reserved_ids, images>>

\* DetachAll() and ControllerFactory::DeleteAllControllers()
DetachAll ==
  /\ Idle
  /\ AttachedSlots(State) # {}
  /\ dev' = NoDevices
  /\ reserved_files' = [f \in File |->
       IF \E s \in Slot : Present(State, s) /\ dev[s].file = f THEN NoSlot ELSE reserved_files[f]]
  /\ shrunk' = TRUE
  /\ UNCHANGED <<property_cache, reserved_ids, images, executing>>

\* SetReservedIds()
ReserveIds(ids) ==
  /\ Idle
  /\ \A i \in ids : ~HasController(State, i)
  /\ reserved_ids' = ids
  /\ UNCHANGED <<devices, images, executing, shrunk>>

-------------------------------------------------------------------------------
(* Image files: DispatchCommand() handles them one at a time, too. *)

CreateImage(f) ==
  /\ Idle
  /\ f \notin images
  /\ images' = images \cup {f}
  /\ UNCHANGED <<devices, reserved_ids, executing, shrunk>>

\* IsReservedFile(), which is true if the file is not reserved.
NotInUse(f) == reserved_files[f] = NoSlot

DeleteImage(f) ==
  /\ Idle
  /\ f \in images /\ NotInUse(f)
  /\ images' = images \ {f}
  /\ UNCHANGED <<devices, reserved_ids, executing, shrunk>>

\* ValidateParams()
MayMove(from, to) == from \in images /\ to \notin images /\ NotInUse(from)

RenameImage(from, to) ==
  /\ Idle
  /\ MayMove(from, to)
  /\ images' = (images \ {from}) \cup {to}
  /\ UNCHANGED <<devices, reserved_ids, executing, shrunk>>

CopyImage(from, to) ==
  /\ Idle
  /\ MayMove(from, to)
  /\ images' = images \cup {to}
  /\ UNCHANGED <<devices, reserved_ids, executing, shrunk>>

\* The host ejects the medium with START STOP UNIT.
HostEject(s) ==
  /\ Idle
  /\ dev[s].type = "SCRM" /\ ~dev[s].removed
  /\ Become(Ejected(State, s))
  /\ shrunk' = TRUE
  /\ UNCHANGED <<reserved_ids, images, executing>>

-------------------------------------------------------------------------------
\* The device definitions of a command.  INSERT refuses a name.
Definitions(o) ==
  CASE o = "ATTACH" ->
         {d \in [slot : Slot, type : Type, name : GivenName, file : Maybe] :
            d.type = "SCDP" => d.file = NoFile}
    [] o = "INSERT" -> [slot : Slot, type : {NoType}, name : {NoNames}, file : Maybe]
    [] OTHER -> [slot : Slot, type : {NoType}, name : {NoNames}, file : {NoFile}]

Next ==
  \/ \E o \in {"ATTACH", "DETACH", "INSERT", "EJECT"}, n \in 1..MaxDevices :
       \E ds \in [1..n -> Definitions(o)] : ProcessCmd(o, ds)
  \/ Attach \/ Insert \/ Eject \/ Detach
  \/ DetachAll
  \/ \E ids \in SUBSET Ids : ReserveIds(ids)
  \/ \E f \in File : CreateImage(f) \/ DeleteImage(f)
  \/ \E from, to \in File : RenameImage(from, to) \/ CopyImage(from, to)
  \/ \E s \in Slot : HostEject(s)

Spec == Init /\ [][Next]_vars

-------------------------------------------------------------------------------
(* What a restart makes of the properties that Persist() writes. *)

\* PropertyHandler keeps the keys sorted, as text: LUN 10 comes before LUN 2.
FirstDigit(n) == IF n < 10 THEN n ELSE n \div 10

Before(s, t) ==
  \/ Id(s) < Id(t)
  \/ /\ Id(s) = Id(t)
     /\ \/ FirstDigit(Unit(s)) < FirstDigit(Unit(t))
        \/ FirstDigit(Unit(s)) = FirstDigit(Unit(t)) /\ Unit(s) < Unit(t)

\* The device blocks come in this order.
InOrder(slots) ==
  CHOOSE q \in [1..Cardinality(slots) -> slots] : \A j, k \in DOMAIN q : j < k => Before(q[j], q[k])

\* CreateDevices(): the definitions of the initial ATTACH command.
Persisted(props) ==
  LET slots == InOrder({s \in Slot : props[s].type # NoType})
  IN  [k \in DOMAIN slots |->
         [slot |-> slots[k], type |-> props[slots[k]].type, name |-> props[slots[k]].name,
          file |-> props[slots[k]].file]]

\* AttachInitialDevices(): the devices after a restart, none if s2p does not start.
Restored(props, ids) ==
  LET ds == Persisted(props)
      empty == [dev |-> NoDevices, files |-> NoFiles, props |-> props]
      AttachOne(r, d) ==
        IF r.ok /\ MayAttach(r.st, d, ids) /\ Attachable(r.st, d)
        THEN [ok |-> TRUE, st |-> Attached(r.st, d)]
        ELSE [ok |-> FALSE, st |-> empty]
      attached[k \in 0..Len(ds)] ==
        IF k = 0 THEN [ok |-> PassesDryRun("ATTACH", empty, ds, ids), st |-> empty]
        ELSE AttachOne(attached[k - 1], ds[k])
      result == attached[Len(ds)]
  IN  IF result.ok THEN result.st.dev ELSE NoDevices

-------------------------------------------------------------------------------
(* Properties. *)

\* The types of the device, file, property and ID tables and of a command.
TypeOK ==
  /\ dev \in [Slot -> DeviceRecord]
  /\ reserved_files \in [File -> Slot \cup {NoSlot}]
  /\ property_cache \in [Slot -> Properties]
  /\ reserved_ids \in SUBSET Ids
  /\ images \in SUBSET File
  /\ op \in {"NONE", "ATTACH", "DETACH", "INSERT", "EJECT"}
  /\ todo \in Seq(Definition) /\ given \in Seq(Definition)
  /\ Idle <=> todo = <<>>
  /\ before \in [Slot -> DeviceRecord]
  /\ shrunk \in BOOLEAN

\* EnsureLun0() and Detach(): every target has LUN 0, also between two devices of a
\* command.  Controller falls back to LUN 0 for commands for a missing LUN.
Lun0Present == \A s \in Slot : Present(State, s) =>
  \E t \in Slot : Present(State, t) /\ Id(t) = Id(s) /\ Unit(t) = 0

\* Attach() and SetReservedIds(): no device has a reserved ID, whatever comes first.
ReservedIdsFree == \A s \in Slot : Present(State, s) => Id(s) \notin reserved_ids

\* CreateDevice(): a device of a unique type is attached at most once.
UniqueTypes == \A s, t \in Slot : dev[s].type = dev[t].type /\ Unique(dev[s].type) => s = t

\* What the devices have to be after every step of a command: all of these.
DevicesConsistent == TypeOK /\ Lun0Present /\ ReservedIdsFree /\ UniqueTypes

\* ReserveFile() and UnreserveFile(): a file is in the list of reserved files exactly
\* as long as it is in a drive, and in one drive only.
FilesMatch ==
  \A f \in File, s \in Slot : reserved_files[f] = s <=> dev[s].file = f /\ ~dev[s].removed

\* IsReservedFile(): the image file of a drive is never deleted or renamed.
UsedExists == \A s \in Slot : dev[s].file # NoFile => dev[s].file \in images

\* The devices, the list of reserved files and the folder of images agree: both.
FilesConsistent == FilesMatch /\ UsedExists

\* No two devices of the command get in each other's way.
Compatible(ds) ==
  \A j, k \in DOMAIN ds : j < k =>
    /\ FileOf(ds[j]) # NoFile => FileOf(ds[j]) # FileOf(ds[k])
    /\ Unique(ds[j].type) => ds[j].type # ds[k].type
    /\ Id(ds[j].slot) = Id(ds[k].slot) => Unit(ds[k].slot) \notin {0, Unit(ds[j].slot)}

\* The dry run of ProcessCmd(): ATTACH attaches all devices or none, if the devices
\* do not get in each other's way and Init() cannot fail.
AttachAllOrNothing ==
  [][op = "ATTACH" /\ op' = "NONE" /\ Compatible(given)
     /\ (InitMayFail => \A k \in DOMAIN given : given[k].type # "SCDP")
       => dev' = before \/ \A k \in DOMAIN given : dev'[given[k].slot].type = given[k].type]_vars

\* The devices after a restart.
AfterRestart == Restored(property_cache, reserved_ids)

\* Do two sets of devices have the same types and media?
SameDevices(a, b) == \A s \in Slot : a[s].type = b[s].type /\ a[s].file = b[s].file

\* SetUpDeviceProperties(): as long as nothing was detached or ejected, a restart attaches
\* the same devices, with vendor and product exchanged.  If one of the products is too
\* long for a vendor, s2p does not start.
PersistedGrowth == Idle /\ ~shrunk =>
  IF \A s \in Slot : NameFits(Swapped(dev[s].name))
  THEN /\ SameDevices(AfterRestart, dev)
       /\ \A s \in Slot : AfterRestart[s].name = Swapped(dev[s].name)
  ELSE AfterRestart = NoDevices
===============================================================================
