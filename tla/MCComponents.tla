----------------------------- MODULE MCComponents -----------------------------
(***************************************************************************)
(* The components that nothing in the source couples, each in a finite     *)
(* instance of its own: `moving' says which one a behaviour is of.         *)
(***************************************************************************)
EXTENDS Integers, Sequences, FiniteSets, TLC

CONSTANTS
  FileThreads, FilePaths, FileNumbers, Readers, FileVersions,  \* of the archives' handles,
  EntrySize, WindowSize, WriteSize,                            \* the streams,
  ListedNames, ShortNames, PathDepth, ListedItems,             \* and the listing
  Drag, HostTries, HookDepth,  \* of the drops, the delivery to a child, and the hooks
  HotKey, Panels, Names, Pidls, SelectionStates, SelectionAttempts, SelectionCalls,
  Apps, AppPids, AgentThreads, AgentTries, AgentLives, AgentEdits, AgentBorn,  \* of the agent,
  AdapterApps, AdapterThreads, AdapterEdits,                                   \* and an adapter
  Nothing,
  t1, t2, a1, a2, n1, n2, p1, p2, s1, s2, g1, g2, f1, f2, b1, b2, d1, x,
  e1, e2, c1, o1, r1, r2, r3, r4, r5, k1, k2, cmd1, cmd2

VARIABLES
  moving,  \* the component that is looked at; the others are off
  filesDisk, archives, table, bins, kernel, held, thread,
  entry, position, windowStart, streamWindow, streamRead, decoder, failed,
  items, tree, handle, listingCall, listingSeen,
  panel, opening, cache, outcome, sending,
  extractDisk, extractor,
  batchDisk, operation, sink, batch, others, was,
  drag, active,
  keys, document, running, chosen,
  pagesNext, freePage, slots, pagesData, writer, pagesKept,
  selectionWindow, caller, pending, states, selectionHost, selected, selectionCalls, frames,
  committed, written, queueRead, record, watcher,
  buffers, upload, stores, draws,
  agentAgent, agentPolicy, agentConfig, agentReader, agentHost, agentRecords, agentProcess,
  adapterAgent, adapterPolicy, adapterConfig, adapterReader, adapterHost, adapterRecords, adapterProcess,
  child, deliveryParent, attach, deliveryLock, threads, deliveryMemory,
  enabled, bypass, stack, hooksObject,
  rowsFonts, rowsEpoch, rowsShared, rowsWindow, rowsUntold,
  sharingFonts, sharingEpoch, sharingShared, sharingWindow, sharingUntold

Bytes(name) == IF name = n1 THEN 1 ELSE 2
Paths ==
  r1 :> <<<<1>>, <<x>>>> @@ r2 :> <<<<2>>, <<x>>>> @@ r3 :> <<<<3>>, <<x, 2>>>>
    @@ r4 :> <<<<1>>, <<x>>, <<x>>>> @@ r5 :> <<<<3>>, <<x>>>>

Files == INSTANCE ArchiveFiles WITH
  Thread <- FileThreads, Path <- FilePaths, Number <- FileNumbers, Capacity <- Readers,
  MaxVersion <- FileVersions,
  disk <- filesDisk
Stream == INSTANCE ArchiveStream WITH
  Size <- EntrySize, Window <- WindowSize, MaxWrite <- WriteSize, window <- streamWindow, read <- streamRead
Listing == INSTANCE ArchiveListing WITH
  Name <- ListedNames, Short <- ShortNames, NoFolder <- Nothing, Depth <- PathDepth,
  MaxItems <- ListedItems,
  call <- listingCall, seen <- listingSeen
Transfer == INSTANCE ArchiveTransfer WITH
  Item <- {e1, e2, c1, o1}, Entries <- {e1, e2}, Containers <- {c1},
  Root <- {r1, r2, r3, r4, r5}, Virtual <- {r1, r3, r4}, PathOf <- Paths
Extract == INSTANCE ArchiveExtract WITH
  Place <- {d1, f1, f2}, Folder <- {d1},
  ParentOf <- d1 :> Nothing @@ f1 :> d1 @@ f2 :> Nothing, Destination <- Nothing,
  MaxStarts <- 2, disk <- extractDisk
Batch == INSTANCE ReplayBatch WITH
  File <- {f1, f2, x}, Foreign <- {x}, Source <- {s1, s2}, Target <- {g1, g2},
  Bin <- {b1, b2}, TargetOf <- s1 :> g1 @@ s2 :> g2, MaxOthers <- 2, disk <- batchDisk
Drags == INSTANCE DragMove
Keys == INSTANCE Hotkeys WITH
  Command <- {cmd1, cmd2}, Key <- HotKey, NoKey <- Nothing, Absent <- x,
  DefaultOf <- cmd1 :> k1 @@ cmd2 :> k2
Pages == INSTANCE PageArena WITH
  Slot <- {s1, s2}, Content <- {f1}, PageCount <- 4, PageSize <- 2, MaxBytes <- 5,
  next <- pagesNext, data <- pagesData, kept <- pagesKept
Selection == INSTANCE ShellSelection WITH
  Panel <- Panels, Name <- Names, Pidl <- Pidls, MaxStates <- SelectionStates,
  MaxAttempts <- SelectionAttempts, MaxCalls <- SelectionCalls, window <- selectionWindow, host <- selectionHost,
  calls <- selectionCalls
Queue == INSTANCE WatchQueue WITH
  Start <- 1, Capacity <- 6, PageSize <- 2, MaxRecord <- 7, MaxWritten <- 14,
  read <- queueRead
Uploads == INSTANCE UploadRing WITH
  Buffer <- {b1, b2}, Size <- {2, 4}, Limit <- 3, MaxBatch <- 2, MaxStores <- 2
Agent == INSTANCE DialogAgent WITH
  App <- Apps, Pid <- AppPids, Adapters <- AgentThreads, MaxTries <- AgentTries,
  MaxLives <- AgentLives, MaxEdits <- AgentEdits, MaxBorn <- AgentBorn, agent <- agentAgent,
  policy <- agentPolicy, config <- agentConfig, reader <- agentReader, host <- agentHost,
  records <- agentRecords, process <- agentProcess
Adapter == INSTANCE DialogAgent WITH
  App <- AdapterApps, Pid <- {}, Adapters <- AdapterThreads, MaxTries <- AgentTries,
  MaxLives <- AgentLives, MaxEdits <- AdapterEdits, MaxBorn <- 0, agent <- adapterAgent,
  policy <- adapterPolicy, config <- adapterConfig, reader <- adapterReader,
  host <- adapterHost, records <- adapterRecords, process <- adapterProcess
Delivery == INSTANCE ChildDelivery WITH
  MaxTries <- HostTries, parent <- deliveryParent, lock <- deliveryLock, memory <- deliveryMemory
Hooks == INSTANCE DialogHooks WITH
  MaxDepth <- HookDepth, object <- hooksObject
Rows == INSTANCE TextRows WITH
  Window <- {p1}, Row <- {r1, r2}, NoRow <- Nothing, SizeOf <- r1 :> <<1, 2>> @@ r2 :> <<2, 1>>,
  Slots <- 2, GlyphEntries <- 1, Budget <- {1, 3}, MaxFonts <- 2,
  fonts <- rowsFonts, epoch <- rowsEpoch, shared <- rowsShared,
  window <- rowsWindow, untold <- rowsUntold
Sharing == INSTANCE TextRows WITH
  Window <- {p1, p2}, Row <- {r1}, NoRow <- Nothing, SizeOf <- r1 :> <<1, 2>>,
  Slots <- 2, GlyphEntries <- 1, Budget <- {3}, MaxFonts <- 2,
  fonts <- sharingFonts, epoch <- sharingEpoch, shared <- sharingShared,
  window <- sharingWindow, untold <- sharingUntold

ASSUME Instances ==
  /\ Files!CapacityAssumption /\ Stream!SizeAssumption /\ Listing!ListingAssumption
  /\ Transfer!TransferAssumption /\ Extract!PlaceAssumption /\ Batch!PlaceAssumption
  /\ Drags!DragAssumption /\ Keys!KeyAssumption /\ Pages!ArenaAssumption /\ Selection!SelectionAssumption
  /\ Queue!QueueAssumption /\ Uploads!UploadAssumption /\ Agent!AgentAssumption
  /\ Adapter!AgentAssumption /\ Delivery!DeliveryAssumption /\ Hooks!HooksAssumption
  /\ Rows!RowAssumption /\ Sharing!RowAssumption

-----------------------------------------------------------------------------
On(component) == moving = component

FilesVars == <<filesDisk, archives, table, bins, kernel, held, thread>>
FilesInit ==
  IF On("files") THEN Files!Init
  ELSE /\ filesDisk = "off" /\ archives = "off" /\ table = "off" /\ bins = "off" /\ kernel = "off"
       /\ held = "off" /\ thread = "off"
FilesNext == IF On("files") THEN Files!Next ELSE UNCHANGED FilesVars

StreamVars == <<entry, position, windowStart, streamWindow, streamRead, decoder, failed>>
StreamInit ==
  IF On("stream") THEN Stream!Init
  ELSE /\ entry = "off" /\ position = "off" /\ windowStart = "off" /\ streamWindow = "off"
       /\ streamRead = "off" /\ decoder = "off" /\ failed = "off"
StreamNext == IF On("stream") THEN Stream!Next ELSE UNCHANGED StreamVars

ListingVars == <<items, tree, handle, listingCall, listingSeen>>
ListingInit ==
  IF On("listing") THEN Listing!Init
  ELSE items = "off" /\ tree = "off" /\ handle = "off" /\ listingCall = "off" /\ listingSeen = "off"
ListingNext == IF On("listing") THEN Listing!Next ELSE UNCHANGED ListingVars

TransferVars == <<panel, opening, cache, outcome, sending>>
TransferInit ==
  IF On("transfer") THEN Transfer!Init
  ELSE panel = "off" /\ opening = "off" /\ cache = "off" /\ outcome = "off" /\ sending = "off"
TransferNext == IF On("transfer") THEN Transfer!Next ELSE UNCHANGED TransferVars

ExtractVars == <<extractDisk, extractor>>
ExtractInit ==
  IF On("extract") THEN Extract!Init
  ELSE extractDisk = "off" /\ extractor = "off"
ExtractNext == IF On("extract") THEN Extract!Next ELSE UNCHANGED ExtractVars

BatchVars == <<batchDisk, operation, sink, batch, others, was>>
BatchInit ==
  IF On("batch") THEN Batch!Init
  ELSE /\ batchDisk = "off" /\ operation = "off" /\ sink = "off" /\ batch = "off"
       /\ others = "off" /\ was = "off"
BatchNext == IF On("batch") THEN Batch!Next ELSE UNCHANGED BatchVars

DragsVars == <<drag, active>>
DragsInit ==
  IF On("drag") THEN Drags!Init
  ELSE drag = "off" /\ active = "off"
DragsNext == IF On("drag") THEN Drags!Next ELSE UNCHANGED DragsVars

KeysVars == <<keys, document, running, chosen>>
KeysInit ==
  IF On("keys") THEN Keys!Init
  ELSE keys = "off" /\ document = "off" /\ running = "off" /\ chosen = "off"
KeysNext == IF On("keys") THEN Keys!Next ELSE UNCHANGED KeysVars

PagesVars == <<pagesNext, freePage, slots, pagesData, writer, pagesKept>>
PagesInit ==
  IF On("pages") THEN Pages!Init
  ELSE /\ pagesNext = "off" /\ freePage = "off" /\ slots = "off" /\ pagesData = "off"
       /\ writer = "off" /\ pagesKept = "off"
PagesNext == IF On("pages") THEN Pages!Next ELSE UNCHANGED PagesVars

SelectionVars == <<selectionWindow, caller, pending, states, selectionHost, selected,
  selectionCalls, frames>>
SelectionInit ==
  IF On("selection") THEN Selection!Init
  ELSE /\ selectionWindow = "off" /\ caller = "off" /\ pending = "off" /\ states = "off"
       /\ selectionHost = "off" /\ selected = "off" /\ selectionCalls = "off" /\ frames = "off"
SelectionNext == IF On("selection") THEN Selection!Next ELSE UNCHANGED SelectionVars

QueueVars == <<committed, written, queueRead, record, watcher>>
QueueInit ==
  IF On("queue") THEN Queue!Init
  ELSE /\ committed = "off" /\ written = "off" /\ queueRead = "off" /\ record = "off"
       /\ watcher = "off"
QueueNext == IF On("queue") THEN Queue!Next ELSE UNCHANGED QueueVars

UploadsVars == <<buffers, upload, stores, draws>>
UploadsInit ==
  IF On("uploads") THEN Uploads!Init
  ELSE buffers = "off" /\ upload = "off" /\ stores = "off" /\ draws = "off"
UploadsNext == IF On("uploads") THEN Uploads!Next ELSE UNCHANGED UploadsVars

AgentVars == <<agentAgent, agentPolicy, agentConfig, agentReader, agentHost,
  agentRecords, agentProcess>>
AgentInit ==
  IF On("agent") THEN Agent!Init
  ELSE /\ agentAgent = "off" /\ agentPolicy = "off" /\ agentConfig = "off" /\ agentReader = "off"
       /\ agentHost = "off" /\ agentRecords = "off" /\ agentProcess = "off"
AgentNext == IF On("agent") THEN Agent!Next ELSE UNCHANGED AgentVars

AdapterVars == <<adapterAgent, adapterPolicy, adapterConfig, adapterReader, adapterHost,
  adapterRecords, adapterProcess>>
AdapterInit ==
  IF On("adapter") THEN Adapter!Init
  ELSE /\ adapterAgent = "off" /\ adapterPolicy = "off" /\ adapterConfig = "off" /\ adapterReader = "off"
       /\ adapterHost = "off" /\ adapterRecords = "off" /\ adapterProcess = "off"
AdapterNext == IF On("adapter") THEN Adapter!Next ELSE UNCHANGED AdapterVars

DeliveryVars == <<child, deliveryParent, attach, deliveryLock, threads, deliveryMemory>>
DeliveryInit ==
  IF On("delivery") THEN Delivery!Init
  ELSE /\ child = "off" /\ deliveryParent = "off" /\ attach = "off" /\ deliveryLock = "off"
       /\ threads = "off" /\ deliveryMemory = "off"
DeliveryNext == IF On("delivery") THEN Delivery!Next ELSE UNCHANGED DeliveryVars

HooksVars == <<enabled, bypass, stack, hooksObject>>
HooksInit ==
  IF On("hooks") THEN Hooks!Init
  ELSE enabled = "off" /\ bypass = "off" /\ stack = "off" /\ hooksObject = "off"
HooksNext == IF On("hooks") THEN Hooks!Next ELSE UNCHANGED HooksVars

RowsVars == <<rowsFonts, rowsEpoch, rowsShared, rowsWindow, rowsUntold>>
RowsInit ==
  IF On("rows") THEN Rows!Init
  ELSE /\ rowsFonts = "off" /\ rowsEpoch = "off" /\ rowsShared = "off"
       /\ rowsWindow = "off" /\ rowsUntold = "off"
RowsNext == IF On("rows") THEN Rows!Next ELSE UNCHANGED RowsVars

SharingVars == <<sharingFonts, sharingEpoch, sharingShared, sharingWindow, sharingUntold>>
SharingInit ==
  IF On("sharing") THEN Sharing!Init
  ELSE /\ sharingFonts = "off" /\ sharingEpoch = "off" /\ sharingShared = "off"
       /\ sharingWindow = "off" /\ sharingUntold = "off"
SharingNext == IF On("sharing") THEN Sharing!Next ELSE UNCHANGED SharingVars

Init ==
  /\ moving \in {"files", "stream", "listing", "transfer", "extract", "batch", "drag", "keys",
                 "pages", "selection", "queue", "uploads", "agent", "adapter", "delivery", "hooks",
                 "rows", "sharing"}
  /\ FilesInit
  /\ StreamInit
  /\ ListingInit
  /\ TransferInit
  /\ ExtractInit
  /\ BatchInit
  /\ DragsInit
  /\ KeysInit
  /\ PagesInit
  /\ SelectionInit
  /\ QueueInit
  /\ UploadsInit
  /\ AgentInit
  /\ AdapterInit
  /\ DeliveryInit
  /\ HooksInit
  /\ RowsInit
  /\ SharingInit

Next ==
  /\ UNCHANGED moving
  /\ FilesNext
  /\ StreamNext
  /\ ListingNext
  /\ TransferNext
  /\ ExtractNext
  /\ BatchNext
  /\ DragsNext
  /\ KeysNext
  /\ PagesNext
  /\ SelectionNext
  /\ QueueNext
  /\ UploadsNext
  /\ AgentNext
  /\ AdapterNext
  /\ DeliveryNext
  /\ HooksNext
  /\ RowsNext
  /\ SharingNext

vars == <<moving, FilesVars, StreamVars, ListingVars, TransferVars, ExtractVars, BatchVars,
          DragsVars, KeysVars, PagesVars, SelectionVars, QueueVars, UploadsVars, AgentVars,
          AdapterVars, DeliveryVars, HooksVars, RowsVars, SharingVars>>

Spec == Init /\ [][Next]_vars
-----------------------------------------------------------------------------
\* What is read from archives is what they hold: the archive of a path is that of the
\* file there (winfs.cpp put, closeHandle; backend.cpp resolve), a stream delivers the
\* entry's bytes and ends where it does (shell_transfer.cpp Read), and a listing has
\* each name once (winfs.cpp query).
ArchivesRead ==
  /\ On("files") => Files!TypeOK /\ Files!Fresh /\ Files!OneReader /\ Files!HandleKept
  /\ On("stream") => Stream!TypeOK /\ Stream!ReadsRight /\ Stream!EndMeansWhole
  /\ On("listing") => Listing!TypeOK /\ Listing!Reached /\ Listing!EachOnce

\* What leaves an archive leaves it once and whole: what is opened (winfs.cpp
\* openSelection), sent (shell_transfer.cpp Files) and extracted (backend.cpp extract).
ArchivesGiven ==
  /\ On("transfer") => Transfer!TypeOK /\ Transfer!OpenedOnce /\ Transfer!SentOnce
  /\ On("extract") => Extract!TypeOK /\ Extract!PartIsOpen

\* The files of a recorded operation are accounted for, and where they were after a
\* replay that nobody disturbed (history.cpp Sink, replayBatch).
BatchAccounted == On("batch") => Batch!TypeOK /\ Batch!Accounted /\ Batch!PutBack

\* What a step may not do: an extraction touches no file of others (backend.cpp
\* extract); a replay moves no file but the batch's and overwrites none (history.cpp
\* replayBatch); a selection is sought for its full term (payload.cpp TryApply); and
\* what a frame points to stays until it is drawn (unicode_payload.cpp RowVictim).
StepsKept ==
  [][/\ On("extract") => Extract!KeepsOthers
     /\ On("batch") => Batch!MovesOnlyIts /\ Batch!LosesNone
     /\ On("selection") => Selection!SeeksFully
     /\ On("rows") => Rows!DrawnStay]_vars

\* A drop is done by one of its two movers, and everybody hears of its end
\* (history.cpp dragDropHook).
DropsDone == On("drag") => Drags!TypeOK /\ Drags!MovedOnce /\ Drags!NoneWaits

\* Storage that is handed around holds what was put there: pages of batches
\* (shared_history.h store, free), the ring of folder changes, and vertices
\* (startup_payload.cpp CommitQueueRecord, StartupUpload); and rasters of rows, within
\* a budget and of the fonts of now (unicode_payload.cpp FindOrCreateNativeRow,
\* shared_rows.h).
StorageSound ==
  /\ On("pages") => Pages!TypeOK /\ Pages!Apart /\ Pages!ReadBack
  /\ On("queue") => Queue!TypeOK /\ Queue!NoFault
  /\ On("uploads") => Uploads!TypeOK /\ Uploads!Drawable
  /\ On("rows") => Rows!TypeOK /\ Rows!Budgeted /\ Rows!FontsFollow
  /\ On("sharing") => /\ Sharing!TypeOK /\ Sharing!Budgeted /\ Sharing!Complete
                      /\ Sharing!FontsFollow

\* What a user asked of a window arrives: an item to select (payload.cpp SelectItem), a
\* key that was chosen (history.cpp saveSettingsHook).
RequestsArrive ==
  /\ On("selection") => Selection!TypeOK /\ Selection!NotAsleep
  /\ On("keys") => Keys!TypeOK /\ Keys!AsChosen

\* Processes are attached to, and dialogs replaced, by a policy that was published as a
\* whole; a record is of the process it names (agent_host.cpp worker, adapter.cpp).
PolicyObeyed ==
  /\ On("agent") => Agent!TypeOK /\ Agent!WholePolicy /\ Agent!OnlyIncluded /\ Agent!StatusTrue
  /\ On("adapter") => Adapter!TypeOK /\ Adapter!WholePolicy

\* A child is delivered as its creator wanted it, with hooks that are installed once and
\* wrap a dialog once (child_delivery.cpp complete, attachment.cpp invoke, adapter.cpp).
Delivered ==
  /\ On("delivery") => /\ Delivery!TypeOK /\ Delivery!Balanced /\ Delivery!ReportTrue
                       /\ Delivery!MemoryKept /\ Delivery!InstalledOnce
  /\ On("hooks") => Hooks!TypeOK /\ Hooks!WrappedOnce
=============================================================================
