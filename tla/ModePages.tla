----------------------------- MODULE ModePages -----------------------------
(***************************************************************************)
(* MODE SENSE and MODE SELECT (devices/page_handler.cpp with the mode pages*)
(* of the device types): the default pages of a device, the mode_page      *)
(* properties that replace, add and remove some, the data the host gets,   *)
(* cut off at its allocation length, and the parameter list it sends.  A   *)
(* page is known by its code, its contents are constant tables.            *)
(***************************************************************************)
EXTENDS Integers, Sequences

CONSTANTS DeviceTypes,    \* some of "HD", "CD", "MO", "TAPE" and "HOST"
          Definitions,    \* sequences of mode_page properties [page, match, size, code, field]
          Codes,          \* page codes that are asked for
          Allocations,    \* allocation lengths
          BlockSizes      \* block sizes a parameter list may have, 0 for no block descriptor

VARIABLES
  device,       \* [type, ready, properties]
  mode_block,   \* the block size in force
  answer,       \* to the last MODE SENSE: [offset, pages, length, whole, sector], or NoAnswer;
                \* sector: the block size in page 3
  mode_status,
  sent_back     \* history: has the host just sent back what it received last, and may it? If so,
                \* has that changed the block size?

modeVars == <<device, mode_block, answer, mode_status, sent_back>>

NoAnswer == [offset |-> 0, pages |-> <<>>, length |-> 0, whole |-> 0, sector |-> 0]
OpenedSize == 512
ALL_PAGES == 63

TypeOK ==
  /\ device.type \in DeviceTypes /\ device.ready \in BOOLEAN /\ device.properties \in Definitions
  /\ mode_block \in BlockSizes \cup {OpenedSize}
  /\ answer.length \in Nat /\ answer.offset \in {0, 4, 8, 12, 16, 24}
  /\ mode_status \in {"GOOD", "INVALID_FIELD_IN_CDB", "INVALID_FIELD_IN_PARAMETER_LIST",
                      "PARAMETER_LIST_LENGTH_ERROR", "BROKEN_OFF", "NONE"}

Init ==
  /\ device \in [type : DeviceTypes, ready : BOOLEAN, properties : Definitions]
  /\ mode_block = OpenedSize
  /\ answer = NoAnswer /\ sent_back = "NO" /\ mode_status = "NONE"

-----------------------------------------------------------------------------
\* SetUpModePages() of the types: the default pages by code and size.
StoragePages == {<<1, 12>>, <<2, 16>>, <<10, 8>>}
DiskPages == StoragePages \cup {<<7, 12>>, <<8, 12>>, <<48, 24>>}
PagesOf(type) ==
  CASE type = "HD"   -> DiskPages \cup {<<3, 24>>, <<4, 24>>, <<12, 24>>, <<37, 25>>}
    [] type = "CD"   -> DiskPages \cup {<<13, 8>>}
    [] type = "MO"   -> DiskPages \cup {<<6, 4>>, <<32, 12>>}
    [] type = "TAPE" -> StoragePages \cup {<<15, 16>>, <<16, 16>>, <<17, 8>>}
    [] type = "HOST" -> {<<32, 10>>}

DefaultPages(type) ==
  [p \in {t[1] : t \in PagesOf(type)} |-> (CHOOSE t \in PagesOf(type) : t[1] = p)[2]]

\* GetCustomModePages(): a property counts if it is for this product, and its code and its size
\* field are those of the page; a page without data removes one.
IsValid(d) ==
  /\ d.page \in 0..62 /\ d.match
  /\ d.size = 0 \/ d.page = 0 \/ (d.code = d.page /\ (d.size - 2) % 256 = d.field)

\* The size a property gives to a page, the last one if there are several, or -1.
Customized(p) ==
  LET ps == device.properties
      for == {i \in DOMAIN ps : ps[i].page = p /\ IsValid(ps[i])}
  IN  IF for = {} THEN -1 ELSE ps[CHOOSE i \in for : \A j \in for : j <= i].size

Custom == {p \in {device.properties[i].page : i \in DOMAIN device.properties} : Customized(p) > 0}

\* The default pages asked for with all of the custom ones, whichever are asked for.
PagesFor(code) ==
  LET defaults == DefaultPages(device.type)
      custom == Custom
      pages == {p \in DOMAIN defaults : code \in {p, ALL_PAGES} /\ Customized(p) # 0} \cup custom
  IN  [p \in pages |-> IF p \in custom THEN Customized(p) ELSE defaults[p]]

\* In ascending order, but page 0 last.
InOrder(sizes) ==
  LET upTo[i \in 0..63] ==
        IF i = 0 THEN <<>>
        ELSE LET p == i % 63
             IN  IF p \in DOMAIN sizes THEN Append(upTo[i - 1], [code |-> p, size |-> sizes[p]]) ELSE upTo[i - 1]
  IN  upTo[63]

Size(pages) ==
  LET upTo[i \in 0..Len(pages)] == IF i = 0 THEN 0 ELSE upTo[i - 1] + pages[i].size
  IN  upTo[Len(pages)]

-----------------------------------------------------------------------------
Header(six) == IF six THEN 4 ELSE 8
MaxSize(six) == IF six THEN 255 ELSE 65535

\* MODE SENSE.  Host services have no block descriptor, which must not be asked for.  Without a page
\* nobody looks at the allocation length; if it is too short for the header, nobody looks for pages.
ModeSense(six, code, dbd, long, allocation) ==
  LET descriptor == IF dbd \/ ~device.ready THEN 0 ELSE IF long /\ ~six THEN 16 ELSE 8
      offset == Header(six) + descriptor
      pages == InOrder(PagesFor(code))
      whole == offset + Size(pages)
      Answer(ps, length, w) ==
        /\ mode_status' = "GOOD"
        /\ answer' = [offset |-> offset, pages |-> ps, length |-> length, whole |-> w,
                      sector |-> IF device.ready THEN mode_block ELSE 0]
      Reject == mode_status' = "INVALID_FIELD_IN_CDB" /\ UNCHANGED answer
  IN  /\ IF device.type = "HOST" /\ ~dbd THEN Reject
         ELSE IF code = 0 /\ device.type # "HOST" THEN Answer(<<>>, offset, offset)
         ELSE IF allocation < offset THEN Answer(<<>>, allocation, whole)
         ELSE IF pages = <<>> \/ Size(pages) > MaxSize(six) THEN Reject
         ELSE Answer(pages, IF whole < allocation THEN whole ELSE allocation, whole)
      /\ sent_back' = "NO"
      /\ UNCHANGED <<device, mode_block>>

\* The size of a page as its size field, a byte, tells it.
Told(p) == ((p.size - 2) % 256) + 2

\* StorageDevice::ModeSelect() with a list of pages: each has to be one of the device's, of the same
\* size, and one that may be set, page 3 without a change; cut: the bytes missing at the end.
Settable(p, l, block) == p.code \in {1, 7, 8} \/ (p.code = 3 /\ l.sector = block)

\* As KnownPages, without the properties.
DefaultPagesOnly == DefaultPages(device.type)

KnownPages == PagesFor(ALL_PAGES)

PageError(l, block) ==
  LET known == KnownPages
      Left(i) == Size(SubSeq(l.pages, i, Len(l.pages))) - l.cut
      Bad(i) == LET p == l.pages[i] IN
        CASE p.code \notin DOMAIN known          -> "INVALID_FIELD_IN_PARAMETER_LIST"
          [] Left(i) < 2                         -> "PARAMETER_LIST_LENGTH_ERROR"
          [] known[p.code] # Told(p) \/ Told(p) > Left(i) -> "INVALID_FIELD_IN_PARAMETER_LIST"
          [] ~Settable(p, l, block)              -> "INVALID_FIELD_IN_PARAMETER_LIST"
          [] OTHER                               -> "GOOD"
      \* page 0 ends the list, and what has been cut off is not looked at
      end == {i \in DOMAIN l.pages : Left(i) <= 0 \/ (l.pages[i].code = 0 /\ 0 \in DOMAIN known)}
      errors == {i \in DOMAIN l.pages : Bad(i) # "GOOD" /\ \A j \in end : i < j}
  IN  IF errors = {} THEN "GOOD" ELSE Bad(CHOOSE i \in errors : \A j \in errors : i <= j)

\* Is it a list of MODE SELECT(6) with all that MODE SENSE has returned, of a size that can be told,
\* and may it be set?
SendsBack(l) ==
  /\ l.six /\ l.pages = answer.pages /\ l.cut = 0 /\ l.size \in {0, mode_block}
  /\ answer.length = answer.whole
  /\ \A i \in DOMAIN l.pages : Settable(l.pages[i], l, mode_block) /\ Told(l.pages[i]) = l.pages[i].size

\* VerifyBlockSizeChange() of the size in the block descriptor; the size is in force before the pages
\* are looked at.  Without PF they are not.  MODE SELECT(10) takes the length of the list from three
\* bytes, so that the target waits for more than the host has.
ModeSelect(l, pf, save) ==
  /\ IF device.type = "HOST" \/ (save /\ device.type \in {"CD", "TAPE"})
     THEN mode_status' = "INVALID_FIELD_IN_CDB" /\ UNCHANGED mode_block
     ELSE IF ~l.six THEN mode_status' = "BROKEN_OFF" /\ UNCHANGED mode_block
     ELSE IF l.size # 0 /\ l.size # mode_block /\ l.size % 4 # 0
     THEN mode_status' = "INVALID_FIELD_IN_PARAMETER_LIST" /\ UNCHANGED mode_block
     ELSE /\ mode_block' = IF l.size = 0 THEN mode_block ELSE l.size
          /\ mode_status' = IF pf THEN PageError(l, mode_block') ELSE "GOOD"
  /\ sent_back' = IF ~SendsBack(l) THEN "NO" ELSE IF mode_block' = mode_block THEN "SAME" ELSE "CHANGED"
  /\ UNCHANGED <<device, answer>>

\* What the host sends: the pages it has received, or pages of sizes of its own.
Lists ==
  {[six |-> TRUE, size |-> b, pages |-> ps, cut |-> c, sector |-> answer.sector] :
     b \in BlockSizes, c \in {0, 11},
     ps \in {answer.pages, <<[code |-> 1, size |-> 8], [code |-> 8, size |-> 12]>>}}
  \cup {[six |-> FALSE, size |-> 0, pages |-> answer.pages, cut |-> 0, sector |-> answer.sector]}

Next ==
  \/ \E six, dbd, long \in BOOLEAN, code \in Codes, a \in Allocations : ModeSense(six, code, dbd, long, a)
  \/ \E l \in Lists, pf, save \in BOOLEAN : l.cut <= Size(l.pages) /\ ModeSelect(l, pf, save)

-----------------------------------------------------------------------------
\* The mode_page properties are applied to the default pages once for MODE SENSE and once for MODE
\* SELECT.  Whatever they change, a page that was received whole may be sent back with MODE SELECT(6)
\* if it is one that may be set, and nothing changes; a page that was removed is never returned, and
\* a size from a property is that of the page (page_handler.cpp:43-103, storage_device.cpp:146-201).
PagesAccepted ==
  /\ sent_back # "NO" => mode_status # "INVALID_FIELD_IN_PARAMETER_LIST" /\ sent_back = "SAME"
  /\ \A i \in DOMAIN answer.pages :
       LET n == Customized(answer.pages[i].code) IN n = -1 \/ (n > 0 /\ answer.pages[i].size = n)
=============================================================================
