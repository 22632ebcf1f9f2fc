--------------------------- MODULE ReorgDetector ---------------------------
(***************************************************************************)
(* The reorg detector (reorgdetector/) with one subscriber: the headers it *)
(* tracks in memory and in SQLite, its cache of headers, and the check     *)
(* that compares them with the chain.  Each RPC call is a step of its own. *)
(***************************************************************************)
EXTENDS Chain

VARIABLES
    tracked,     \* trackedBlocks[id]: the headers in memory, one per number
    stored,      \* the rows of tracked_block
    cache,       \* headersCache: the header first seen of each number
    det,         \* the check in progress
    known,       \* the subscriber has an entry in trackedBlocks
    subscribed,  \* the subscriber has an entry in subscriptions
    listening    \* that entry is the channel the driver reads

detVars == <<tracked, stored, cache, det, known, subscribed, listening>>

DetDown == [pc |-> "down", todo |-> {}, from |-> 0, to |-> 0, final |-> 0]
DetIdle == [DetDown EXCEPT !.pc = "idle"]

NumsOf(hdrs) == {h.num : h \in hdrs}
removeRange(hdrs, from, to) == {h \in hdrs : h.num \notin from..to}

\* Mutant: the header of a number is not replaced.
MutantAdd(hdrs, b) == hdrs \cup {b}

add(hdrs, b) == removeRange(hdrs, b.num, b.num) \cup {b}

DetInit ==
    /\ tracked = {} /\ stored = {} /\ cache = {}
    /\ det = DetDown
    /\ known = FALSE /\ subscribed = FALSE /\ listening = FALSE

(* New, after a restart: only the table survives. *)
DetCrash ==
    /\ tracked' = {} /\ cache' = {}
    /\ det' = DetDown
    /\ known' = FALSE /\ subscribed' = FALSE /\ listening' = FALSE
    /\ UNCHANGED stored

\* Mutant: nothing is loaded.
MutantLoadTrackedHeaders ==
    /\ det.pc = "down"
    /\ det' = DetIdle
    /\ UNCHANGED <<tracked, stored, cache, known, subscribed, listening>>

(* The table has no key: of two rows of one number, the order of the query *)
(* decides which one is kept.  The map and the subscriptions of the rows   *)
(* found replace those that Subscribe may have made before.                *)
loadTrackedHeaders ==
    /\ det.pc = "down"
    /\ \E hdrs \in SUBSET stored :
         /\ NumsOf(hdrs) = NumsOf(stored) /\ Cardinality(hdrs) = Cardinality(NumsOf(hdrs))
         /\ tracked' = hdrs
    /\ known' = (stored # {})
    /\ subscribed' = (subscribed \/ stored # {})
    /\ listening' = (listening /\ stored = {})
    /\ det' = DetIdle
    /\ UNCHANGED <<stored, cache>>

Subscribe ==
    /\ IF subscribed
       THEN UNCHANGED <<tracked, known>>
       ELSE tracked' = {} /\ known' = TRUE
    /\ subscribed' = TRUE
    /\ listening' = TRUE
    /\ UNCHANGED <<stored, cache, det>>

(* What AddBlockToTrack(b) does to memory and table, the failing insert    *)
(* included: memory is written first.                                      *)
AddBlockToTrack(b) ==
    /\ known
    /\ IF b \in tracked
       THEN UNCHANGED <<tracked, stored>>
       ELSE tracked' = add(tracked, b) /\ stored' = stored \cup {b}

AddBlockToTrackFails(b) ==
    /\ "failedInsert" \in Hazards
    /\ known /\ b \notin tracked
    /\ tracked' = add(tracked, b)
    /\ UNCHANGED stored

\* Mutant: the latest block is taken for the finalized one.
MutantStartCheck ==
    /\ det.pc = "idle" /\ subscribed /\ known /\ tracked # {}
    /\ det' = [DetIdle EXCEPT !.pc = "check", !.todo = tracked, !.final = Len(chain),
                              !.to = Max(NumsOf(tracked))]
    /\ UNCHANGED <<tracked, stored, cache, known, subscribed, listening>>

(* A tick of detectReorgInTrackedList: the finalized block, then a copy of *)
(* the tracked headers.                                                    *)
StartCheck ==
    /\ det.pc = "idle" /\ subscribed /\ known /\ tracked # {}
    /\ det' = [DetIdle EXCEPT !.pc = "check", !.todo = tracked, !.final = finalized,
                              !.to = Max(NumsOf(tracked))]
    /\ UNCHANGED <<tracked, stored, cache, known, subscribed, listening>>

NextHeader == CHOOSE h \in det.todo : \A g \in det.todo : h.num <= g.num

(* What the cache has for the number of hdr, the chain's header otherwise. *)
OldHeader(hdr) ==
    IF hdr.num \in NumsOf(cache) THEN CHOOSE h \in cache : h.num = hdr.num ELSE chain[hdr.num]

Matches(hdr) == hdr = OldHeader(hdr) /\ hdr = chain[hdr.num]

CheckDone(todo) == IF todo = {} THEN DetIdle ELSE [det EXCEPT !.todo = todo]

(* The next header of the copy, lowest number first.  A number the node    *)
(* does not have ends the check with an error.                             *)
CheckHeader ==
    /\ det.pc = "check"
    /\ LET hdr == NextHeader
       IN IF hdr.num > Len(chain)
          THEN det' = DetIdle /\ UNCHANGED <<tracked, stored, cache>>
          ELSE /\ cache' = add(cache, OldHeader(hdr))
               /\ IF Matches(hdr)
                  THEN /\ det' = CheckDone(det.todo \ {hdr})
                       /\ IF hdr.num <= det.final
                          THEN /\ tracked' = removeRange(tracked, hdr.num, hdr.num)
                               /\ stored' = removeRange(stored, hdr.num, hdr.num)
                          ELSE UNCHANGED <<tracked, stored>>
                  ELSE /\ det' = [det EXCEPT !.pc = "notify", !.todo = {}, !.from = hdr.num,
                                               !.final = 0]
                       /\ UNCHANGED <<tracked, stored>>
    /\ UNCHANGED <<known, subscribed, listening>>

(* Once the subscriber has answered, and goes on, the range is removed:    *)
(* from the table, then from memory and from the cache, which only the     *)
(* check reads.                                                            *)
RemoveRows ==
    /\ det.pc = "remove"
    /\ stored' = removeRange(stored, det.from, det.to)
    /\ det' = [det EXCEPT !.pc = "removeMemory"]
    /\ UNCHANGED <<tracked, cache, known, subscribed, listening>>

RemoveRange ==
    /\ det.pc = "removeMemory"
    /\ tracked' = removeRange(tracked, det.from, det.to)
    /\ cache' = removeRange(cache, det.from, det.to)
    /\ det' = DetIdle
    /\ UNCHANGED <<stored, known, subscribed, listening>>

(* An error ends the check: of the RPC call; of the DELETE of a final      *)
(* header, which has left memory by then; of the insert of the reorg event *)
(* (the cache is written in both cases).                                   *)
CheckFails ==
    /\ det.pc = "check"
    /\ LET hdr == NextHeader
       IN \/ UNCHANGED <<tracked, cache>>
          \/ /\ hdr.num <= Len(chain)
             /\ cache' = add(cache, OldHeader(hdr))
             /\ \/ /\ Matches(hdr) /\ hdr.num <= det.final
                   /\ tracked' = removeRange(tracked, hdr.num, hdr.num)
                \/ ~Matches(hdr) /\ UNCHANGED tracked
    /\ det' = DetIdle
    /\ UNCHANGED <<stored, known, subscribed, listening>>

(* A failing DELETE of the range, before memory and cache are touched. *)
RemoveRowsFails ==
    /\ det.pc = "remove"
    /\ det' = DetIdle
    /\ UNCHANGED <<tracked, stored, cache, known, subscribed, listening>>

DetNext == loadTrackedHeaders \/ StartCheck \/ CheckHeader \/ RemoveRows \/ RemoveRange

DetTypeOK ==
    /\ tracked \subseteq Blocks /\ stored \subseteq Blocks /\ cache \subseteq Blocks
    /\ Cardinality(tracked) = Cardinality(NumsOf(tracked))
    /\ det.pc \in {"down", "idle", "check", "notify", "waiting", "remove", "removeMemory"}
    /\ det.todo \subseteq Blocks /\ det.from \in 0..MaxBlocks /\ det.to \in 0..MaxBlocks
    /\ known \in BOOLEAN /\ subscribed \in BOOLEAN /\ listening \in BOOLEAN
=============================================================================
