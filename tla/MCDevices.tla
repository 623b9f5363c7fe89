----------------------------- MODULE MCDevices -----------------------------
(***************************************************************************)
(* The device types and the tools, each on its own with small constants.   *)
(* They share no state: a behaviour is one of a single part, and the       *)
(* variables of the others have the value "OFF" all the time.              *)
(***************************************************************************)
EXTENDS Integers, Sequences

CONSTANT Parts, MAX_TRANSFER_LENGTH,
         MediumSize, DefaultSize, Sizes, W32, W64, Count6, MaxCommands,
         Initiators, Anonymous, MaxOperations, MaxPrints, MaxPackets, MaxMessages,
         RealBlocks, RealSizes, DefaultBlock, GenericStarts, GenericCounts, HeaderLength, MaxGeneric,
         Capacity, W16, SasiLimit, DefaultLength, OddLength, MaxGlitches,
         Limits, W28, END_OF_DATA, DeviceFiles, Targets, MaxLines, Pieces,
         DeviceTypes, Codes, Allocations, BlockSizes, MaxPersists

VARIABLES
  part,
  drive, caching_mode, block_size, blocks, sector_size, sectors, content, stable, phase, status,
  cdb, next_sector, remaining_length, chunk_size, current_length, buffer, received, sent, before,
  faulty, commands,
  execution_results, input_format, host_phase, host_status, request, scheduled, fetched, latest,
  operations,
  files, filename, is_open, print_phase, print_status, print_number, printed, accepted, spoiled,
  left_over,
  tap_fd, bridge_created, network, found, untidy, stops_on_error, attached, queue, arrived,
  net_phase, net_status, message, messages, response, pending, read_packets, frames, accepted_frames,
  real, pads, generic_block_size, byte_count, remaining_count, local_cdb, deferred_sense,
  format_header, remaining, chunk, current, gen_phase, gen_status, data, number, asked, got, put,
  was, sense, failed, formatted, broken,
  job, disk, image, effective_size, sector_offset, rest, active, disk_step, disk0,
  driver, tape, position, default_length, has_error, answer, file, read_objects, target, tape_step,
  stopped, glitches,
  addition, limit, simh_file, index, data_index, simh_position, listing, simh_step, lost,
  options, executor, adapter, exec_buffer, exec_received, line, exec_step, last, named,
  device, mode_block, mode_answer, mode_status, sent_back,
  s2p, property_cache, CONF, CONF_OLD, data_of, persist, persists, complete, begun, start

-----------------------------------------------------------------------------
\* Transfers: READ, WRITE and VERIFY by the length of their CDB, READ LONG and WRITE LONG.
Cdb6 == [start : {0, 4, 5}, count : 0..2]
Cdb10 == [start : {0, 3, 5}, count : {0, 2}]
Cdb16 == [start : {1, 17, 31}, count : {1, 2, 15}]
LongCdb == [sector : {0, 4, 5}, length : 0..2]

Lists == {-1, 0, 1}

\* s2pdump: whole and broken sectors, buffers, ranges and image files; SASI drives on the board.
Jobs ==
  {j \in [driver : {"BOARD", "SG"}, restore : BOOLEAN, sasi : BOOLEAN, sector_size : {2, 3},
          buffer : {4, 6, 10}, start : {0, 1, 4, 6}, count : {0, 2, 5}, image : {7, 12}] :
     /\ j.sasi => j.driver = "BOARD" /\ j.sector_size = 2
     /\ ~j.restore => j.image = 7}

Upto(n, S) == UNION {[1..k -> S] : k \in 1..n}
Tapes == Upto(2, [kind : {"RECORD", "BAD"}, length : 1..3] \cup [kind : {"MARK"}, length : {0}])
Files == Upto(2, [kind : {"RECORD"}, length : {1, 2}] \cup [kind : {"MARK"}, length : {0}]
                   \cup [kind : {"OTHER"}, length : {2}])

\* s2psimh: odd and even records, marks, markers, a value that does not fit.
Additions ==
  [objects : Upto(2, [cls : {"RECORD", "GOOD"}, value : 0..3] \cup [cls : {"BAD"}, value : {3, 8}]
                       \cup [cls : {"PRIVATE", "RESERVED"}, value : {5, 7}]),
   data : {-1, 3, 6}]

\* s2pexec: a command for each kind of device, lines without one, data, a bus reset, help.
Line(name, to, what) ==
  [name |-> name, device |-> to, command |-> what \in {"COMMAND", "DATA", "BOTH"},
   data |-> what = "DATA", sense |-> what = "COMMAND", reset |-> what \in {"RESET", "BOTH"},
   help |-> what = "HELP"]
Lines ==
  {Line("SG", d, "COMMAND") : d \in DeviceFiles}
  \cup {Line("SG", "sg0", "NOTHING"), Line("SCSI", "id3", "NOTHING"), Line("SCSI", "id3", "COMMAND"),
        Line("SASI", "id4", "COMMAND"), Line("NONE", "NONE", "HELP"), Line("NONE", "NONE", "BOTH"),
        Line("NONE", "NONE", "COMMAND"), Line("NONE", "NONE", "DATA")}

\* mode_page properties: a page replaced, removed, added, several times, not valid, too long.
Page(p, n) == [page |-> p, match |-> TRUE, size |-> n, code |-> p, field |-> (n - 2) % 256]
Definitions ==
  {<<>>, <<Page(8, 20)>>, <<Page(2, 0), Page(10, 0), Page(48, 0), Page(1, 8)>>,
   <<Page(0, 6), Page(7, 8), Page(7, 12)>>,
   <<[Page(1, 20) EXCEPT !.code = 2], [Page(8, 20) EXCEPT !.field = 3],
     [Page(7, 20) EXCEPT !.match = FALSE], Page(50, 240)>>,
   <<Page(8, 300)>>, <<Page(2, 0), Page(10, 0), Page(48, 0), Page(4, 0), Page(12, 0), Page(37, 0)>>}

\* Properties: with a LUN and without, one that needs a device, one that is not known.
Property(k, v) == [key |-> k, value |-> v]
KeyOrder == <<"DEVICE_0", "DEVICE_0_0", "LOCALE", "LOG_LEVEL", "OTHER", "PROPERTY_FILES">>
CommandLines ==
  {{}, {Property("DEVICE_0", "B")}, {Property("LOG_LEVEL", "B"), Property("LOCALE", "A")},
   {Property("PROPERTY_FILES", "A")}}
HandWritten ==
  {{}, {Property("DEVICE_0", "A"), Property("LOCALE", "A")}, {Property("OTHER", "A")}}

-----------------------------------------------------------------------------
T == INSTANCE DiskTransfer
H == INSTANCE HostServices
P == INSTANCE Printer
N == INSTANCE DaynaPort
G == INSTANCE ScsiGeneric WITH block_size <- generic_block_size
D == INSTANCE DumpDisk
E == INSTANCE DumpTape
S == INSTANCE SimhTool
X == INSTANCE ExecTool WITH buffer <- exec_buffer, received <- exec_received
M == INSTANCE ModePages WITH answer <- mode_answer
C == INSTANCE Configuration WITH data <- data_of

\* The names of the hosts, device files and targets are not those of none of them.  An image has at
\* least one block, and its blocks have numbers of 32 bits (disk.cpp:138-142, storage_device.cpp:304-308).
\* A real device has blocks of a size, and a defect list has a header (scsi_generic.cpp:89-96).
ASSUME DevicesAssumption ==
  /\ MediumSize \in Nat /\ DefaultSize \in 1..MediumSize /\ MediumSize \div DefaultSize <= W32
  /\ {W32, W64, Count6} \subseteq Nat \ {0}
  /\ RealSizes \subseteq Nat \ {0} /\ GenericStarts \cup GenericCounts \subseteq Nat
  /\ {MAX_TRANSFER_LENGTH, DefaultBlock, HeaderLength} \subseteq Nat \ {0} /\ RealBlocks \in Nat
  /\ {MaxPrints, MaxOperations, MaxLines, MaxPersists} \subseteq Nat /\ Pieces \in Nat \ {0}
  /\ DeviceTypes \subseteq {"HD", "CD", "MO", "TAPE", "HOST"} /\ Allocations \subseteq Nat
  /\ {DefaultLength, OddLength, MaxGlitches} \cup Limits \subseteq Nat /\ W28 \in Nat \ {0}
  /\ {Capacity, W16, SasiLimit} \subseteq Nat
  /\ H!UNKNOWN_INITIATOR_ID \notin Initiators
  /\ {"sg0"} \subseteq DeviceFiles /\ {"id3", "id4"} \subseteq Targets
  /\ X!None \notin DeviceFiles \cup Targets

\* The block sizes a host may ask for are not 0 (storage_device.cpp:264), the addresses in a CDB and
\* the shortest lengths fit their types, and the bounds of the runs are numbers.
ASSUME WidthsAssumption ==
  /\ Sizes \subseteq Nat \ {0} /\ 2 <= W32 /\ 31 < W64
  /\ {MaxCommands, MaxPackets, MaxMessages, MaxGeneric} \subseteq Nat

\* The variables of the parts, and a part that does not run.
transfer_vars == <<drive, caching_mode, block_size, blocks, sector_size, sectors, content, stable,
                  phase, status, cdb, next_sector, remaining_length, chunk_size,
                  current_length, buffer, received, sent, before, faulty,
                  commands>>
host_vars == <<execution_results, input_format, host_phase, host_status, request, scheduled,
              fetched, latest, operations>>
printer_vars == <<files, filename, is_open, print_phase, print_status, print_number, printed,
                 accepted, spoiled, left_over>>
net_vars == <<tap_fd, bridge_created, network, found, untidy, stops_on_error, attached, queue,
             arrived, net_phase, net_status, message, messages, response, pending,
             read_packets, frames, accepted_frames>>
generic_vars == <<real, pads, generic_block_size, byte_count, remaining_count, local_cdb,
                 deferred_sense, format_header, remaining, chunk, current,
                 gen_phase, gen_status, data, number, asked, got, put, was, sense,
                 failed, formatted, broken>>
disk_vars == <<job, disk, image, effective_size, sector_offset, rest, active, disk_step, disk0>>
tape_vars == <<driver, tape, position, default_length, has_error, answer, file, read_objects,
              target, tape_step, stopped, glitches>>
simh_vars == <<addition, limit, simh_file, index, data_index, simh_position, listing, simh_step,
              lost>>
exec_vars == <<options, executor, adapter, exec_buffer, exec_received, line, exec_step, last,
              named>>
mode_vars == <<device, mode_block, mode_answer, mode_status, sent_back>>
config_vars == <<s2p, property_cache, CONF, CONF_OLD, data_of, persist, persists, complete, begun,
                start>>

NoTransfer ==
  /\ drive = "OFF" /\ caching_mode = "OFF" /\ block_size = "OFF" /\ blocks = "OFF"
  /\ sector_size = "OFF" /\ sectors = "OFF" /\ content = "OFF" /\ stable = "OFF" /\ phase = "OFF"
  /\ status = "OFF" /\ cdb = "OFF" /\ next_sector = "OFF" /\ remaining_length = "OFF"
  /\ chunk_size = "OFF" /\ current_length = "OFF" /\ buffer = "OFF" /\ received = "OFF"
  /\ sent = "OFF" /\ before = "OFF" /\ faulty = "OFF" /\ commands = "OFF"
NoHost ==
  /\ execution_results = "OFF" /\ input_format = "OFF" /\ host_phase = "OFF"
  /\ host_status = "OFF" /\ request = "OFF" /\ scheduled = "OFF" /\ fetched = "OFF"
  /\ latest = "OFF" /\ operations = "OFF"
NoPrint ==
  /\ files = "OFF" /\ filename = "OFF" /\ is_open = "OFF" /\ print_phase = "OFF"
  /\ print_status = "OFF" /\ print_number = "OFF" /\ printed = "OFF" /\ accepted = "OFF"
  /\ spoiled = "OFF" /\ left_over = "OFF"
NoNet ==
  /\ tap_fd = "OFF" /\ bridge_created = "OFF" /\ network = "OFF" /\ found = "OFF"
  /\ untidy = "OFF" /\ stops_on_error = "OFF" /\ attached = "OFF" /\ queue = "OFF"
  /\ arrived = "OFF" /\ net_phase = "OFF" /\ net_status = "OFF" /\ message = "OFF"
  /\ messages = "OFF" /\ response = "OFF" /\ pending = "OFF" /\ read_packets = "OFF"
  /\ frames = "OFF" /\ accepted_frames = "OFF"
NoGeneric ==
  /\ real = "OFF" /\ pads = "OFF" /\ generic_block_size = "OFF" /\ byte_count = "OFF"
  /\ remaining_count = "OFF" /\ local_cdb = "OFF" /\ deferred_sense = "OFF"
  /\ format_header = "OFF" /\ remaining = "OFF" /\ chunk = "OFF" /\ current = "OFF"
  /\ gen_phase = "OFF" /\ gen_status = "OFF" /\ data = "OFF" /\ number = "OFF" /\ asked = "OFF"
  /\ got = "OFF" /\ put = "OFF" /\ was = "OFF" /\ sense = "OFF" /\ failed = "OFF"
  /\ formatted = "OFF" /\ broken = "OFF"
NoDisk ==
  /\ job = "OFF" /\ disk = "OFF" /\ image = "OFF" /\ effective_size = "OFF"
  /\ sector_offset = "OFF" /\ rest = "OFF" /\ active = "OFF" /\ disk_step = "OFF" /\ disk0 = "OFF"
NoTapeCopy ==
  /\ driver = "OFF" /\ tape = "OFF" /\ position = "OFF" /\ default_length = "OFF"
  /\ has_error = "OFF" /\ answer = "OFF" /\ file = "OFF" /\ read_objects = "OFF" /\ target = "OFF"
  /\ tape_step = "OFF" /\ stopped = "OFF" /\ glitches = "OFF"
NoSimh ==
  /\ addition = "OFF" /\ limit = "OFF" /\ simh_file = "OFF" /\ index = "OFF" /\ data_index = "OFF"
  /\ simh_position = "OFF" /\ listing = "OFF" /\ simh_step = "OFF" /\ lost = "OFF"
NoExec ==
  /\ options = "OFF" /\ executor = "OFF" /\ adapter = "OFF" /\ exec_buffer = "OFF"
  /\ exec_received = "OFF" /\ line = "OFF" /\ exec_step = "OFF" /\ last = "OFF" /\ named = "OFF"
NoMode ==
  /\ device = "OFF" /\ mode_block = "OFF" /\ mode_answer = "OFF" /\ mode_status = "OFF"
  /\ sent_back = "OFF"
NoConfig ==
  /\ s2p = "OFF" /\ property_cache = "OFF" /\ CONF = "OFF" /\ CONF_OLD = "OFF" /\ data_of = "OFF"
  /\ persist = "OFF" /\ persists = "OFF" /\ complete = "OFF" /\ begun = "OFF" /\ start = "OFF"

Init ==
  /\ part \in Parts
  /\ IF part = "TRANSFER" THEN T!Init ELSE NoTransfer
  /\ IF part = "HOST" THEN H!Init ELSE NoHost
  /\ IF part = "PRINTER" THEN P!Init ELSE NoPrint
  /\ IF part = "NETWORK" THEN N!Init ELSE NoNet
  /\ IF part = "GENERIC" THEN G!Init ELSE NoGeneric
  /\ IF part = "DISK" THEN D!Init ELSE NoDisk
  /\ IF part = "TAPE" THEN E!Init ELSE NoTapeCopy
  /\ IF part = "SIMH" THEN S!Init ELSE NoSimh
  /\ IF part = "EXEC" THEN X!Init ELSE NoExec
  /\ IF part = "MODE" THEN M!Init ELSE NoMode
  /\ IF part = "CONFIG" THEN C!Init ELSE NoConfig

Transfer ==
  /\ part = "TRANSFER" /\ T!Next
  /\ UNCHANGED <<part, host_vars, printer_vars, net_vars, generic_vars, disk_vars, tape_vars,
               simh_vars, exec_vars, mode_vars, config_vars>>

Host ==
  /\ part = "HOST" /\ H!Next
  /\ UNCHANGED <<part, transfer_vars, printer_vars, net_vars, generic_vars, disk_vars,
               tape_vars, simh_vars, exec_vars, mode_vars, config_vars>>

Spool ==
  /\ part = "PRINTER" /\ P!Next
  /\ UNCHANGED <<part, transfer_vars, host_vars, net_vars, generic_vars, disk_vars,
               tape_vars, simh_vars, exec_vars, mode_vars, config_vars>>

Net ==
  /\ part = "NETWORK" /\ N!Next
  /\ UNCHANGED <<part, transfer_vars, host_vars, printer_vars, generic_vars, disk_vars,
               tape_vars, simh_vars, exec_vars, mode_vars, config_vars>>

Generic ==
  /\ part = "GENERIC" /\ G!Next
  /\ UNCHANGED <<part, transfer_vars, host_vars, printer_vars, net_vars, disk_vars,
               tape_vars, simh_vars, exec_vars, mode_vars, config_vars>>

Disk ==
  /\ part = "DISK" /\ D!Next
  /\ UNCHANGED <<part, transfer_vars, host_vars, printer_vars, net_vars, generic_vars,
               tape_vars, simh_vars, exec_vars, mode_vars, config_vars>>

TapeCopy ==
  /\ part = "TAPE" /\ E!Next
  /\ UNCHANGED <<part, transfer_vars, host_vars, printer_vars, net_vars, generic_vars,
               disk_vars, simh_vars, exec_vars, mode_vars, config_vars>>

Simh ==
  /\ part = "SIMH" /\ S!Next
  /\ UNCHANGED <<part, transfer_vars, host_vars, printer_vars, net_vars, generic_vars,
               disk_vars, tape_vars, exec_vars, mode_vars, config_vars>>

Exec ==
  /\ part = "EXEC" /\ X!Next
  /\ UNCHANGED <<part, transfer_vars, host_vars, printer_vars, net_vars, generic_vars,
               disk_vars, tape_vars, simh_vars, mode_vars, config_vars>>

Mode ==
  /\ part = "MODE" /\ M!Next
  /\ UNCHANGED <<part, transfer_vars, host_vars, printer_vars, net_vars, generic_vars,
               disk_vars, tape_vars, simh_vars, exec_vars, config_vars>>

Config ==
  /\ part = "CONFIG" /\ C!Next
  /\ UNCHANGED <<part, transfer_vars, host_vars, printer_vars, net_vars, generic_vars,
               disk_vars, tape_vars, simh_vars, exec_vars, mode_vars>>

Next ==
  \/ Transfer \/ Host \/ Spool \/ Net \/ Generic \/ Disk \/ TapeCopy \/ Simh \/ Exec \/ Mode \/ Config

vars == <<part, transfer_vars, host_vars, printer_vars, net_vars, generic_vars, disk_vars,
          tape_vars, simh_vars, exec_vars, mode_vars, config_vars>>

\* s2pdump goes on: it is one thread, and each drive answers or does not within a time.
Spec == Init /\ [][Next]_vars /\ WF_vars(TapeCopy)

-----------------------------------------------------------------------------
\* The type invariant of the part that runs.
TypeOK ==
  /\ part = "TRANSFER" => T!TypeOK
  /\ part = "HOST" => H!TypeOK
  /\ part = "PRINTER" => P!TypeOK
  /\ part = "NETWORK" => N!TypeOK
  /\ part = "GENERIC" => G!TypeOK
  /\ part = "DISK" => D!TypeOK
  /\ part = "TAPE" => E!TypeOK
  /\ part = "SIMH" => S!TypeOK
  /\ part = "EXEC" => X!TypeOK
  /\ part = "MODE" => M!TypeOK
  /\ part = "CONFIG" => C!TypeOK

\* The blocks a disk command is about are transferred (disk.cpp:199-250, 384-432, 540-581).
TransferExact == part = "TRANSFER" => T!TransferExact

\* What has been printed is what was sent (printer.cpp:72-193).
SpoolExact == part = "PRINTER" => P!SpoolExact

\* Packets are read and sent in order, and the host's network is left as it was
\* (daynaport.cpp:134-298, tap_driver.cpp:33-182).
NetworkExact == part = "NETWORK" => N!PacketsInOrder /\ N!NetworkRestored

\* A SCSI generic device transfers what was asked for (scsi_generic.cpp:61-281).
GenericExact == part = "GENERIC" => G!GenericExact

\* What was written is found again: s2pdump copies the sectors of a drive and the objects of a tape,
\* s2psimh accepts what it has added, and a start finds the configuration that was persisted
\* (s2pdump_core.cpp:565-628, 678-826, s2psimh_core.cpp:176-370, property_handler.cpp:19-58).
CopiesExact ==
  /\ part = "DISK" => D!DiskCopied
  /\ part = "TAPE" => E!TapeCopied
  /\ part = "SIMH" => S!SimhAccepted
  /\ part = "CONFIG" => C!ConfigFound

\* A complete configuration survives (property_handler.cpp:124-140).
ConfigSurvives == part = "CONFIG" => C!ConfigSurvives

\* s2pdump comes to an end with a tape (s2pdump_executor.cpp:140-220).
DumpEnds == part = "TAPE" => E!DumpEnds

\* s2pexec shows what belongs to the command (s2pexec_core.cpp:104-342).
OwnAnswer == part = "EXEC" => X!OwnAnswer

\* MODE SELECT accepts what MODE SENSE has returned (page_handler.cpp:43-103).
PagesAccepted == part = "MODE" => M!PagesAccepted

\* A host gets the result of its own operation (host_services.cpp:146-203, 272-322).
OwnResult == H!OwnResult
=============================================================================
