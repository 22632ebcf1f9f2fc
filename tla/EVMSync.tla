------------------------------ MODULE EVMSync ------------------------------
(***************************************************************************)
(* A syncer: the EVM downloader and driver (sync/) with the processor they *)
(* feed, together with the reorg detector they share, over a chain that    *)
(* reorganises.  The processor is the set of blocks it has stored.         *)
(***************************************************************************)
EXTENDS ReorgDetector

CONSTANTS
    SyncBlockChunkSize,  \* blocks per log query
    DownloadBufferSize,  \* capacity of downloadCh
    MaxRetryCountBlockHashMismatch,
    MaxFaults,           \* bound on restarts and failing calls
    NoBlock

ASSUME SyncAssumption ==
    /\ SyncBlockChunkSize \in Nat \ {0}
    /\ DownloadBufferSize \in Nat /\ DownloadBufferSize >= MaxBlocks
    /\ MaxRetryCountBlockHashMismatch \in Nat
    /\ MaxFaults \in Nat
    /\ NoBlock \notin Blocks

VARIABLES
    processed,   \* the blocks in the processor's database
    drv,         \* control point of EVMDriver.Sync
    worker,      \* the block being processed, tracked already
    downloadCh,  \* blocks downloaded and not yet handled
    dl,          \* control point and locals of Download
    faults

syncVars == <<processed, drv, worker, downloadCh, dl, faults>>
vars == <<chainVars, detVars, syncVars>>

Uint64 == 2^16   \* stands for 2^64: far above every block number

DlOff == [pc |-> "off", fromBlock |-> 0, toBlock |-> 0, lastBlock |-> 0, reachTop |-> FALSE,
          final |-> 0, blocks |-> <<>>, tip |-> NoBlock, retry |-> 0, late |-> {}]

(* What the processor keeps of a downloaded block: the header, whose hash  *)
(* the record stands for, and whether it came with its events.             *)
Rows == [block : Blocks, events : BOOLEAN]
Row(item) == [block |-> item.block, events |-> item.events]

GetLastProcessedBlock == Max({0} \cup {p.block.num : p \in processed})

Fault == faults < MaxFaults /\ faults' = faults + 1

(* A failing insert is the last fault and follows the load of the table:   *)
(* the header it leaves out would be lost with the next load.              *)
LastFault == faults < MaxFaults /\ faults' = MaxFaults /\ det.pc # "down"

Init ==
    /\ ChainInit /\ DetInit
    /\ processed = {}
    /\ drv = "down"
    /\ worker = NoBlock
    /\ downloadCh = <<>>
    /\ dl = DlOff
    /\ faults = 0

-----------------------------------------------------------------------------
(* Driver *)

(* Nothing orders Start of the detector, in a goroutine of its own, before *)
(* the drivers subscribe: with the hazard "subscribeFirst" they may be     *)
(* first.                                                                  *)
NewEVMDriver ==
    /\ drv = "down"
    /\ "subscribeFirst" \notin Hazards => det.pc # "down"
    /\ Subscribe
    /\ drv' = "reset"
    /\ UNCHANGED <<chainVars, processed, worker, downloadCh, dl, faults>>

(* The label reset of Sync.  The detector may still be removing the range  *)
(* of the reorg just handled.                                              *)
Reset ==
    /\ drv = "reset"
    /\ drv' = "running"
    /\ LET next == GetLastProcessedBlock + 1
       IN dl' = [DlOff EXCEPT !.pc = "firstWait", !.fromBlock = next,
                              !.toBlock = next + SyncBlockChunkSize,
                              !.late = dl.late]
    /\ UNCHANGED <<chainVars, detVars, processed, worker, downloadCh, faults>>

\* Mutant: a block is processed without being tracked.
MutantTrackNonFinalizedBlock ==
    /\ drv = "running" /\ worker = NoBlock /\ downloadCh # <<>>
    /\ worker' = Row(Head(downloadCh))
    /\ downloadCh' = Tail(downloadCh)
    /\ UNCHANGED <<chainVars, detVars, processed, drv, dl, faults>>

(* handleNewBlock, first half: a block that is not final is tracked.  A    *)
(* failure leaves the block to the next attempt of withRetry.              *)
trackNonFinalizedBlock ==
    /\ drv = "running" /\ worker = NoBlock /\ downloadCh # <<>>
    /\ LET b == Head(downloadCh).block
       IN \/ /\ IF Head(downloadCh).final THEN UNCHANGED <<tracked, stored>>
                                          ELSE AddBlockToTrack(b)
             /\ worker' = Row(Head(downloadCh))
             /\ downloadCh' = Tail(downloadCh)
             /\ UNCHANGED faults
          \/ /\ ~Head(downloadCh).final
             /\ AddBlockToTrackFails(b) /\ LastFault
             /\ UNCHANGED <<worker, downloadCh>>
    /\ UNCHANGED <<chainVars, cache, det, known, subscribed, listening,
                   processed, drv, dl>>

(* Second half.  It may also end after the context was cancelled.  The     *)
(* processors key their tables by the block number: a number that is there *)
(* already fails, and withRetry tries again.                               *)
processBlock ==
    /\ worker # NoBlock
    /\ worker.block.num \notin {p.block.num : p \in processed}
    /\ processed' = processed \cup {worker}
    /\ worker' = NoBlock
    /\ UNCHANGED <<chainVars, detVars, drv, downloadCh, dl, faults>>

CancelBlock ==
    /\ drv = "reorging" /\ worker # NoBlock
    /\ worker' = NoBlock
    /\ UNCHANGED <<chainVars, detVars, processed, drv, downloadCh, dl, faults>>

\* Mutant: the channel of downloaded blocks outlives the reorg.
MutantReceiveReorg ==
    /\ det.pc = "notify" /\ listening
    /\ drv = "running"
    /\ drv' = "reorging"
    /\ det' = [det EXCEPT !.pc = "waiting"]
    /\ dl' = [DlOff EXCEPT !.late = dl.late \cup ({dl.tip} \ {NoBlock})]
    /\ UNCHANGED <<chainVars, tracked, stored, cache, known, subscribed, listening,
                   processed, worker, downloadCh, faults>>

(* The detector's send on ReorgedBlock meets the driver's receive, which   *)
(* cancels the downloader and the block handler.  A tip that the           *)
(* downloader has read already is still tracked, at some later time.       *)
ReceiveReorg ==
    /\ det.pc = "notify" /\ listening
    /\ drv = "running"
    /\ drv' = "reorging"
    /\ det' = [det EXCEPT !.pc = "waiting"]
    /\ dl' = [DlOff EXCEPT !.late = dl.late \cup ({dl.tip} \ {NoBlock})]
    /\ downloadCh' = <<>>
    /\ UNCHANGED <<chainVars, tracked, stored, cache, known, subscribed, listening,
                   processed, worker, faults>>

\* Mutant: the first reorged block is kept.
MutantHandleReorg ==
    /\ drv = "reorging" /\ worker = NoBlock
    /\ processed' = {p \in processed : p.block.num <= det.from}
    /\ det' = [det EXCEPT !.pc = "remove"]
    /\ drv' = "reset"
    /\ UNCHANGED <<chainVars, tracked, stored, cache, known, subscribed, listening,
                   worker, downloadCh, dl, faults>>

(* Once the block handler is done.  ReorgProcessed is sent in any case. *)
handleReorg ==
    /\ drv = "reorging" /\ worker = NoBlock
    /\ processed' = {p \in processed : p.block.num < det.from}
    /\ det' = [det EXCEPT !.pc = "remove"]
    /\ drv' = "reset"
    /\ UNCHANGED <<chainVars, tracked, stored, cache, known, subscribed, listening,
                   worker, downloadCh, dl, faults>>

(* A restart of the process. *)
Crash ==
    /\ Fault
    /\ drv # "down"
    /\ DetCrash
    /\ drv' = "down"
    /\ worker' = NoBlock
    /\ downloadCh' = <<>>
    /\ dl' = DlOff
    /\ UNCHANGED <<chainVars, processed>>
-----------------------------------------------------------------------------
(* Downloader *)

DownloaderOnly ==
    UNCHANGED <<chainVars, cache, det, known, subscribed, listening,
                processed, drv, worker, faults>>

(* Download, top of the loop.  reachTop is reset below the wait. *)
LoopTop(d) ==
    [d EXCEPT !.pc = IF d.fromBlock > d.lastBlock \/ (d.reachTop /\ d.toBlock >= d.lastBlock)
                     THEN "wait" ELSE "finalized",
              !.reachTop = FALSE]

(* One tick of WaitForNewBlocks: a tip that is new, or at most the last    *)
(* one seen with a hash other than the tracked one.                        *)
WaitForNewBlocks ==
    /\ dl.pc \in {"firstWait", "wait"} /\ chain # <<>>
    /\ LET tip == Last(chain)
       IN /\ \/ tip.num > dl.lastBlock
             \/ \E t \in tracked : known /\ t.num = tip.num /\ t # tip
          /\ dl' = [dl EXCEPT !.pc = IF dl.pc = "wait" THEN "track" ELSE "firstTrack",
                              !.tip = tip]
    /\ DownloaderOnly /\ UNCHANGED <<tracked, stored, downloadCh>>

(* Its end: the tip is tracked, an error is only logged.  After the wait   *)
(* inside the loop, Download compares an unsigned difference.              *)
TrackTip ==
    /\ dl.pc \in {"firstTrack", "track"}
    /\ \/ AddBlockToTrack(dl.tip) /\ UNCHANGED faults
       \/ AddBlockToTrackFails(dl.tip) /\ LastFault
       \/ ~known /\ UNCHANGED <<tracked, stored, faults>>
    /\ LET d == [dl EXCEPT !.lastBlock = dl.tip.num, !.tip = NoBlock]
           extend == (d.fromBlock + Uint64 - d.toBlock) % Uint64 < SyncBlockChunkSize
       IN dl' = IF dl.pc = "firstTrack" THEN LoopTop(d)
                ELSE [d EXCEPT !.pc = "finalized",
                               !.toBlock = IF extend THEN d.fromBlock + SyncBlockChunkSize ELSE @]
    /\ UNCHANGED <<chainVars, cache, det, known, subscribed, listening,
                   processed, drv, worker, downloadCh>>

(* The same by a downloader that was cancelled. *)
TrackLateTip ==
    /\ \E b \in dl.late :
         /\ dl' = [dl EXCEPT !.late = @ \ {b}]
         /\ \/ AddBlockToTrack(b) /\ UNCHANGED faults
            \/ AddBlockToTrackFails(b) /\ LastFault
    /\ UNCHANGED <<chainVars, cache, det, known, subscribed, listening,
                   processed, drv, worker, downloadCh>>

GetLastFinalizedBlock ==
    /\ dl.pc = "finalized"
    /\ dl' = [dl EXCEPT !.pc = "logs", !.final = Min({dl.lastBlock, finalized}),
                        !.reachTop = dl.toBlock >= dl.lastBlock]
    /\ DownloaderOnly /\ UNCHANGED <<tracked, stored, downloadCh>>

GetLastFinalizedBlockFails ==
    /\ dl.pc = "finalized"
    /\ Fault
    /\ dl' = LoopTop(dl)
    /\ UNCHANGED <<chainVars, detVars, processed, drv, worker, downloadCh>>

RequestToBlock == Min({dl.toBlock, dl.lastBlock})

\* Mutant: the query starts one block too late.
MutantGetLogs ==
    /\ dl.pc = "logs"
    /\ dl' = [dl EXCEPT !.pc = "headers",
                        !.blocks = SelectSeq(SubSeq(chain, dl.fromBlock + 1,
                                                    Min({RequestToBlock, Len(chain)})),
                                             LAMBDA b : b.events)]
    /\ DownloaderOnly /\ UNCHANGED <<tracked, stored, downloadCh>>

(* The log query: the blocks of the range that have events. *)
GetLogs ==
    /\ dl.pc = "logs"
    /\ dl' = [dl EXCEPT !.pc = "headers",
                        !.blocks = SelectSeq(SubSeq(chain, dl.fromBlock,
                                                    Min({RequestToBlock, Len(chain)})),
                                             LAMBDA b : b.events)]
    /\ DownloaderOnly /\ UNCHANGED <<tracked, stored, downloadCh>>

(* The header queries of those blocks.  The last one decides: if it finds  *)
(* the hash of the logs, so did the others.  After too many mismatches the *)
(* range counts as empty.                                                  *)
CheckLogHeaders ==
    /\ dl.pc = "headers"
    /\ \A i \in DOMAIN dl.blocks : dl.blocks[i].num <= Len(chain)
    /\ dl' = IF \A i \in DOMAIN dl.blocks : ~Orphan(dl.blocks[i])
             THEN [dl EXCEPT !.pc = "report", !.retry = 0]
             ELSE IF dl.retry >= MaxRetryCountBlockHashMismatch
             THEN [dl EXCEPT !.pc = "report", !.retry = 0, !.blocks = <<>>]
             ELSE [dl EXCEPT !.pc = "logs", !.retry = @ + 1]
    /\ DownloaderOnly /\ UNCHANGED <<tracked, stored, downloadCh>>

Downloaded(b, withEvents) ==
    [block |-> b, events |-> withEvents, final |-> b.num <= dl.final]

(* Sends blocks, the header of block n as an empty one if n is not 0 (the  *)
(* query waits until the node has it), and goes on after block `upTo`.     *)
(* The sends wait for room in the channel: one step, once all have room.   *)
Report(blocks, n, upTo) ==
    LET next == [dl EXCEPT !.fromBlock = upTo + 1,
                           !.toBlock = upTo + 1 + SyncBlockChunkSize,
                           !.blocks = <<>>, !.final = 0]
    IN /\ n <= Len(chain)
       /\ downloadCh' = downloadCh
                           \o [i \in DOMAIN blocks |-> Downloaded(blocks[i], TRUE)]
                           \o IF n = 0 THEN <<>> ELSE <<Downloaded(chain[n], FALSE)>>
       /\ Len(downloadCh') <= DownloadBufferSize
       /\ dl' = LoopTop(next)

(* The rest of the loop's body. *)
ReportRange ==
    /\ dl.pc = "report"
    /\ LET to == RequestToBlock
           lastNum == IF dl.blocks = <<>> THEN 0 ELSE Last(dl.blocks).num
       IN IF to <= dl.final
          THEN Report(dl.blocks, IF lastNum < to THEN to ELSE 0, to)
          ELSE IF dl.blocks # <<>> THEN Report(dl.blocks, 0, lastNum)
          ELSE IF dl.final >= dl.fromBlock THEN Report(<<>>, dl.final, dl.final)
          ELSE IF dl.reachTop THEN Report(<<>>, to, to)
          ELSE /\ dl' = LoopTop([dl EXCEPT !.toBlock = @ + SyncBlockChunkSize, !.final = 0])
               /\ UNCHANGED downloadCh
    /\ DownloaderOnly /\ UNCHANGED <<tracked, stored>>
-----------------------------------------------------------------------------
(* The environment.  With the hazard "midSweep" a reorganisation may fall  *)
(* between the log query of a range that has no event and the query of the *)
(* header that is reported for it.                                         *)
ChainStep ==
    /\ \/ Mine
       \/ Finalize
       \/ /\ "midSweep" \notin Hazards =>
               ~(dl.pc \in {"headers", "report"} /\ dl.blocks = <<>>)
          /\ Reorganise
    /\ UNCHANGED <<detVars, syncVars>>

DetectorStep == DetNext /\ UNCHANGED <<chainVars, syncVars>>

DetectorFails ==
    /\ Fault
    /\ CheckFails \/ RemoveRowsFails
    /\ UNCHANGED <<chainVars, processed, drv, worker, downloadCh, dl>>

DriverStep ==
    \/ NewEVMDriver \/ Reset \/ trackNonFinalizedBlock \/ processBlock \/ CancelBlock
    \/ ReceiveReorg \/ handleReorg

Download ==
    \/ WaitForNewBlocks \/ TrackTip \/ TrackLateTip \/ GetLastFinalizedBlock \/ GetLogs
    \/ CheckLogHeaders \/ ReportRange

Next ==
    \/ ChainStep \/ DetectorStep \/ DriverStep \/ Download
    \/ DetectorFails \/ GetLastFinalizedBlockFails \/ Crash

(* The goroutines of detector, driver and downloader run, and the chain    *)
(* grows up to its bound.                                                  *)
Fairness ==
    /\ WF_vars(Mine /\ UNCHANGED <<detVars, syncVars>>)
    /\ WF_vars(DetectorStep)
    /\ WF_vars(NewEVMDriver \/ Reset)
    /\ WF_vars(trackNonFinalizedBlock \/ processBlock \/ CancelBlock)
    /\ WF_vars(ReceiveReorg)
    /\ WF_vars(handleReorg)
    /\ WF_vars(Download)

Spec == Init /\ [][Next]_vars
FairSpec == Spec /\ Fairness
-----------------------------------------------------------------------------
(* The variables keep their types and memory holds one header per number   *)
(* (headersList is a map).                                                 *)
TypeOK ==
    /\ DetTypeOK
    /\ \A n \in DOMAIN chain : chain[n] \in Blocks /\ chain[n].num = n
    /\ finalized <= Len(chain) /\ reorgs \in 0..MaxReorgs
    /\ processed \subseteq Rows
    /\ drv \in {"down", "reset", "running", "reorging"}
    /\ drv = "reorging" <=> det.pc = "waiting"
    /\ worker \in Rows \cup {NoBlock}
    /\ dl.pc = "off" <=> drv # "running"
    /\ dl.late \subseteq Blocks

(* The headers the detector will compare: in memory, or in the table until *)
(* it has been loaded.                                                     *)
Watched == IF det.pc = "down" THEN stored ELSE tracked

(* A stored block that the chain has replaced does not go unnoticed: the   *)
(* detector watches a header at or below it that cannot match the chain    *)
(* and its cache, or it is already telling the driver (AddBlockToTrack,    *)
(* detectReorgInTrackedList).                                              *)
OrphansDetectable ==
    \A p \in processed :
        Orphan(p.block) =>
            \/ \E t \in Watched :
                  /\ t.num <= p.block.num
                  /\ \/ \A u \in Watched : u.num = t.num => Orphan(u)
                     \/ \E c \in cache : c.num = t.num /\ c # t
            \/ det.pc \in {"notify", "waiting"} /\ det.from <= p.block.num

(* The blocks tracked by the driver, stored or about to be, that are not   *)
(* final and not watched.                                                  *)
Unwatched ==
    {p \in processed \cup ({worker} \ {NoBlock}) :
        p.block.num > finalized /\ p.block.num \notin NumsOf(Watched)}

(* "If higher than finalized block, we assume a reorg still might happen": *)
(* a stored block that is not final stays watched (the removal of a range  *)
(* in detectReorgInTrackedList).                                           *)
UnfinalizedWatched == processed \cap Unwatched = {}

(* A block that is not final is watched from before it is stored, across   *)
(* checks, restarts and failing calls (trackNonFinalizedBlock,             *)
(* detectReorgInTrackedList, loadTrackedHeaders).  Only the removal of a   *)
(* reorged range may drop it, of that range and while it is under way.     *)
WatchedUntilFinal ==
    [][\A p \in Unwatched' \ Unwatched :
          det.pc \in {"remove", "removeMemory"} /\ p.block.num \in det.from..det.to]_vars

(* No event is passed over: if no stored block is orphaned, the events of  *)
(* every block up to the last stored one are stored (Download moves        *)
(* fromBlock only over what it has swept).                                 *)
NothingMissed ==
    (\A p \in processed : ~Orphan(p.block)) =>
        \A n \in 1..GetLastProcessedBlock :
            chain[n].events => [block |-> chain[n], events |-> TRUE] \in processed

(* The driver is only given blocks above all the blocks stored before      *)
(* (Sync restarts Download after the last stored block, with a new         *)
(* channel; Download moves fromBlock past what it reports).                *)
HandledInOrder ==
    [][worker' # worker /\ worker' # NoBlock =>
           worker'.block.num > GetLastProcessedBlock]_vars

(* The processor holds the events of the canonical chain and no orphaned   *)
(* block.                                                                  *)
Synced ==
    /\ \A p \in processed : ~Orphan(p.block)
    /\ \A n \in DOMAIN chain :
          chain[n].events => [block |-> chain[n], events |-> TRUE] \in processed

(* Once the chain is stable, the processor comes to that state and stays   *)
(* there, unless the load of the tracked headers has replaced the driver's *)
(* entry or channel (Sync, Download and detectReorgInTrackedList together, *)
(* after a reorg, restarts and failing calls).                             *)
Converges == <>[](known /\ listening) => <>[]Synced

(* A reorg that the detector has found reaches the driver ("Notify         *)
(* subscriber about this particular reorg").                               *)
NotificationTaken == det.pc = "notify" ~> det.pc # "notify"
=============================================================================
