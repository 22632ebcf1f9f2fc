-------------------------- MODULE CertificateFlow --------------------------
(***************************************************************************)
(* The contents of certificates: the builder flow of a pessimistic-proof   *)
(* network picks a block range, cuts it to the configured limits and to    *)
(* what can be proved, nets claims against unclaims, and the validator     *)
(* rebuilds the certificate from the same data.                            *)
(***************************************************************************)
EXTENDS Naturals, FiniteSets, FiniteSetsExt, Sequences, SequencesExt

CONSTANTS
    MaxBlocks,      \* bound on the L2 chain
    MaxEvents,      \* bound on the events on it
    MaxLeaves,      \* bound on the L1 info tree
    GlobalIndexes,  \* 1..N
    Repairs,        \* what the operator may do about wrong claims
    Options,        \* the configurations to consider
    None

ASSUME FlowAssumption ==
    /\ MaxBlocks \in Nat /\ MaxEvents \in Nat /\ MaxLeaves \in Nat \ {0}
    /\ GlobalIndexes \subseteq Nat
    /\ Repairs \subseteq {"unset", "reemit", "reclaim"}
    /\ Options \subseteq [MaxL2BlockNumber : Nat, MaxL2BlockRange : Nat,
                          MaxCertSize : Nat, forceOneBridgeExit : BOOLEAN,
                          threshold : {1, 2}]

VARIABLES
    opt,      \* the configuration, fixed from the start
    events,   \* the L2 events, in the order of blocks and positions
    synced,   \* the last block that both L2 syncers have processed
    leaves,   \* the leaves l1infotreesync has
    root,     \* the leaf count of the target root, finalized
    last,     \* the last certificate once it is closed
    cert,     \* the certificate that is built and not closed
    settled   \* what the AggLayer has settled

vars == <<opt, events, synced, leaves, root, last, cert, settled>>

(* The GER of a claim is its leaf (its number from 1) or 0 if it is not on *)
(* L1.  real: the claim is of a bridge that exists.  The index of an event *)
(* in the sequence is its identity and its place in the order.  A local    *)
(* exit root is the last bridge under it.                                  *)
Events == [kind : {"bridge", "claim", "unclaim"}, block : 1..MaxBlocks,
           gi : GlobalIndexes \cup {0}, ger : 0..MaxLeaves, real : BOOLEAN]

Init ==
    /\ opt \in Options
    /\ events = <<>> /\ synced = 0
    /\ leaves = 1 /\ root = 1
    /\ last = None /\ cert = None
    /\ settled = [bridges |-> {}, imports |-> {}, ler |-> 0, ibe |-> None]
-----------------------------------------------------------------------------
(* Queries to the syncers *)

BlockOf(id) == IF id = 0 THEN 0 ELSE events[id].block

Ids(kind, from, to) ==
    {i \in DOMAIN events : events[i].kind = kind /\ events[i].block \in from..to}

ClaimsOf(gi) == {i \in DOMAIN events : events[i].kind = "claim" /\ events[i].gi = gi}
IsUnset(gi) == \E i \in DOMAIN events : events[i].kind = "unclaim" /\ events[i].gi = gi

(* The row of claim o with the proofs of claim n. *)
ClaimRow(o, n) ==
    [id |-> o, block |-> events[o].block, gi |-> events[o].gi, real |-> events[o].real,
     ger |-> events[n].ger]

(* Claims of an index that was ever unset are returned as they are; the    *)
(* others as one: the oldest, with the proofs of the newest, if both lie   *)
(* in the range.                                                           *)
GetClaims(from, to) ==
    LET inRange == Ids("claim", from, to)
    IN {ClaimRow(i, i) : i \in {j \in inRange : IsUnset(events[j].gi)}}
       \cup
       {ClaimRow(i, Max(ClaimsOf(events[i].gi))) :
           i \in {j \in inRange :
                    /\ ~IsUnset(events[j].gi)
                    /\ j = Min(ClaimsOf(events[j].gi))
                    /\ Max(ClaimsOf(events[j].gi)) \in inRange}}

GetClaimsByGlobalIndex(gi) == {c \in GetClaims(1, synced) : c.gi = gi}

(* The first claim of the index with that bridge exit. *)
getBlockNumFromGlobalIndex(exit) ==
    LET same == {c.block : c \in {d \in GetClaimsByGlobalIndex(exit.gi) : d.real = exit.real}}
    IN IF same = {} THEN None ELSE Min(same)

(* Mutants: the first block of the next range instead of the last settled  *)
(* one; the imported exits are not looked at.                              *)
MutantFirstUnsettled ==
    LET import == IF settled.ibe = None THEN 0 ELSE getBlockNumFromGlobalIndex(settled.ibe)
    IN IF import = None THEN None ELSE Max({BlockOf(settled.ler), import}) + 1
MutantOnlyBridges == BlockOf(settled.ler)

GetLastSettledCertificateToBlock ==
    LET bridge == BlockOf(settled.ler)
        import == IF settled.ibe = None THEN 0 ELSE getBlockNumFromGlobalIndex(settled.ibe)
    IN IF import = None THEN None ELSE Max({bridge, import})

LastImport(imports) ==
    IF imports = {} THEN None ELSE CHOOSE c \in imports : \A d \in imports : d.id <= c.id

GetNewCertificateToBlock(c) ==
    LET import == IF c.imports = {} THEN 0
                  ELSE getBlockNumFromGlobalIndex(LastImport(c.imports))
    IN IF import = None THEN None ELSE Max({BlockOf(c.newLER), import})

GenerateBuildParams(from, to, leafCount) ==
    [from |-> from, to |-> to, leafCount |-> leafCount,
     bridges |-> Ids("bridge", from, to), claims |-> GetClaims(from, to),
     unclaims |-> Ids("unclaim", from, to)]

IsEmpty(p) == p.bridges = {} /\ p.claims = {}
-----------------------------------------------------------------------------
(* AdjustBlockRange.  A step maps build parameters to build parameters, or *)
(* to None where the code returns an error.                                *)

Then(p, Step(_)) == IF p = None THEN None ELSE Step(p)

cloneCertificateBuildParamsWithRange(p, to) ==
    IF to \notin p.from..p.to THEN None
    ELSE [p EXCEPT !.to = to,
                   !.bridges = {b \in @ : events[b].block <= to},
                   !.claims = {c \in @ : c.block <= to},
                   !.unclaims = {u \in @ : events[u].block <= to}]

adjustToMaxL2Block(p, to) ==
    LET adjusted == cloneCertificateBuildParamsWithRange(p, to)
    IN IF adjusted # None /\ opt.forceOneBridgeExit /\ adjusted.bridges = {}
       THEN None ELSE adjusted

adjustMaxL2BlockNumber(p) ==
    IF opt.MaxL2BlockNumber = 0 \/ p.to <= opt.MaxL2BlockNumber THEN p
    ELSE adjustToMaxL2Block(p, opt.MaxL2BlockNumber)

adjustMaxL2BlockRange(p) ==
    IF opt.MaxL2BlockRange = 0 \/ p.to <= p.from + opt.MaxL2BlockRange THEN p
    ELSE adjustToMaxL2Block(p, p.from + opt.MaxL2BlockRange)

validateRootToProveIsFinalized(p) == IF p.leafCount \in 1..root THEN p ELSE None

(* A GER that l1infotreesync does not have yet is an error; one above the  *)
(* root cuts the range.                                                    *)
adjustClaimsNotProvableAgainstRoot(p) ==
    LET late == {c.block : c \in {d \in p.claims : d.ger > p.leafCount}}
    IN IF \E c \in p.claims : c.ger > leaves THEN None
       ELSE IF late = {} THEN p
       ELSE cloneCertificateBuildParamsWithRange(p, Min(late) - 1)

EstimatedSize(p) == Cardinality(p.bridges) + Cardinality(p.claims)

limitCertSize(p) ==
    LET fits == {t \in p.from..p.to :
                   EstimatedSize(cloneCertificateBuildParamsWithRange(p, t)) <= opt.MaxCertSize}
    IN IF opt.MaxCertSize = 0 THEN p
       ELSE cloneCertificateBuildParamsWithRange(p, Max(fits \cup {p.from}))

(* Mutant: unclaims are not taken into account. *)
MutantMissingGERClaims(p) == {c.block : c \in {d \in p.claims : d.ger = 0}}

(* The claims whose GER is not on L1 and that find no later unclaim: each  *)
(* takes the first one that no earlier claim has taken.                    *)
MissingGERClaims(p) ==
    LET missing == SetToSortSeq({c \in p.claims : c.ger = 0}, LAMBDA c, d : c.id < d.id)
        posterior(c, free) == {u \in free : events[u].gi = c.gi /\ u > c.id}
        match(acc, c) ==
            IF posterior(c, acc.free) = {}
            THEN [acc EXCEPT !.found = @ \cup {c.block}]
            ELSE [acc EXCEPT !.free = @ \ {Min(posterior(c, @))}]
    IN FoldLeft(match, [free |-> p.unclaims, found |-> {}], missing).found

adjustInvalidClaimsAreNotUnclaimed(p) ==
    LET At(t) == cloneCertificateBuildParamsWithRange(p, t)
        Cut[t \in (p.from - 1)..p.to] ==
            IF t < p.from THEN None
            ELSE IF MissingGERClaims(At(t)) = {} THEN At(t)
            ELSE Cut[Min(MissingGERClaims(At(t))) - 1]
    IN Cut[p.to]

AdjustBlockRange(p, validating) ==
    LET p1 == Then(adjustMaxL2BlockNumber(p), adjustMaxL2BlockRange)
        p2 == IF validating THEN Then(p1, validateRootToProveIsFinalized) ELSE p1
        p3 == Then(p2, adjustClaimsNotProvableAgainstRoot)
        p4 == IF validating THEN p3 ELSE Then(p3, limitCertSize)
    IN Then(p4, adjustInvalidClaimsAreNotUnclaimed)
-----------------------------------------------------------------------------
(* Building and validating *)

(* Mutant: the first block of a certificate in error is taken as sent. *)
MutantPreviousToBlock ==
    IF last = None THEN 0
    ELSE IF last.status = "InError" THEN last.from
    ELSE GetLastSettledCertificateToBlock

PreviousToBlock ==
    IF last = None THEN 0
    ELSE IF last.status = "InError" THEN last.from - 1
    ELSE GetLastSettledCertificateToBlock

GetCertificateBuildParams ==
    LET p == GenerateBuildParams(PreviousToBlock + 1, synced, root)
    IN IF PreviousToBlock = None \/ PreviousToBlock >= synced THEN None
       ELSE IF (opt.forceOneBridgeExit /\ p.bridges = {}) \/ IsEmpty(p) THEN None
       ELSE AdjustBlockRange(p, FALSE)

(* Of the claims of an index, as many as it has unclaims are left out, the *)
(* first ones.                                                             *)
getImportedBridgeExits(p) ==
    {c \in p.claims :
        Cardinality({d \in p.claims : d.gi = c.gi /\ d.id <= c.id})
            > Cardinality({u \in p.unclaims : events[u].gi = c.gi})}

(* Mutant: a certificate in error is taken for a settled one. *)
MutantPreviousLER == IF last = None THEN 0 ELSE last.newLER

(* getNextHeightAndPreviousLER, without the height. *)
PreviousLER ==
    IF last = None THEN 0 ELSE IF last.status = "InError" THEN last.prevLER ELSE last.newLER

(* Without a proof of the GER of an imported exit against the root, the    *)
(* conversion of the claims fails.                                         *)
BuildCertificate(p, prevLER) ==
    IF p = None \/ IsEmpty(p) THEN None
    ELSE IF \E i \in getImportedBridgeExits(p) : i.ger \notin 1..p.leafCount THEN None
    ELSE [from |-> p.from, to |-> p.to, leafCount |-> p.leafCount,
          bridges |-> p.bridges, imports |-> getImportedBridgeExits(p),
          prevLER |-> prevLER,
          newLER |-> IF p.bridges = {} THEN prevLER ELSE Max(p.bridges)]

(* The global index, bridge exit and claim data of each, in order. *)
ImportedExits(c) ==
    LET sorted == SetToSortSeq(c.imports, LAMBDA i, j : i.id < j.id)
    IN [k \in DOMAIN sorted |-> <<sorted[k].gi, sorted[k].real, sorted[k].ger>>]

CertificateID(c) == <<c.prevLER, c.newLER, c.bridges, ImportedExits(c)>>

(* The ID covers all that DiffsCertificate compares but the leaf count. *)
compareCertificates(c, d) == CertificateID(c) = CertificateID(d) /\ c.leafCount = d.leafCount

(* The previous certificate is the last settled one.  The certificate is   *)
(* built again for the blocks from there to the last block the proposer    *)
(* names, against the same root.                                           *)
ValidateCertificate(c) ==
    LET prevTo == GetLastSettledCertificateToBlock
        newTo == GetNewCertificateToBlock(c)
        p == AdjustBlockRange(GenerateBuildParams(prevTo + 1, c.to, c.leafCount), TRUE)
        rebuilt == BuildCertificate(p, settled.ler)
    IN /\ prevTo # None /\ c.to > prevTo
       /\ newTo # None /\ newTo <= c.to
       /\ c.prevLER = settled.ler
       /\ rebuilt # None
       /\ compareCertificates(c, rebuilt)
       /\ \A i \in c.imports : i.ger \in 1..c.leafCount

(* A certificate is built and validated on the same data.  The local       *)
(* validation only warns.                                                  *)
Build ==
    /\ cert = None
    /\ LET c == BuildCertificate(GetCertificateBuildParams, PreviousLER)
       IN /\ c # None
          /\ cert' = [c |-> c, valid |-> ValidateCertificate(c)]
    /\ UNCHANGED <<opt, events, synced, leaves, root, last, settled>>

(* The committee signs.  The proposer is its first member and signs        *)
(* without validating: a threshold of 1 is reached in any case, one of 2   *)
(* stands for any other and takes a validator's signature.                 *)
Signed == cert # None /\ (cert.valid \/ opt.threshold = 1)

Refuse ==
    /\ cert # None /\ ~Signed
    /\ cert' = None
    /\ UNCHANGED <<opt, events, synced, leaves, root, last, settled>>

(* Mutant: the status is not brought up to date. *)
MutantHeader(c, status) ==
    [status |-> "Pending", from |-> c.from, prevLER |-> c.prevLER, newLER |-> c.newLER,
     bridges |-> c.bridges, imports |-> {i.id : i \in c.imports}]

(* What is kept of a certificate; of one in error also what it contained,  *)
(* to state what a retry must contain.                                     *)
Header(c, status) ==
    [status |-> status, from |-> c.from, prevLER |-> c.prevLER, newLER |-> c.newLER,
     bridges |-> IF status = "InError" THEN c.bridges ELSE {},
     imports |-> IF status = "InError" THEN {i.id : i \in c.imports} ELSE {}]

(* The AggLayer settles a certificate whose imported exits are proved and  *)
(* were not imported before.                                               *)
Settle ==
    /\ Signed
    /\ \A i \in cert.c.imports :
          /\ i.real /\ i.ger \in 1..cert.c.leafCount
          /\ i.gi \notin {j.gi : j \in settled.imports}
    /\ settled' = [bridges |-> settled.bridges \cup cert.c.bridges,
                   imports |-> settled.imports \cup cert.c.imports,
                   ler |-> cert.c.newLER,
                   ibe |-> IF cert.c.imports = {} THEN settled.ibe
                           ELSE LastImport(cert.c.imports)]
    /\ last' = Header(cert.c, "Settled")
    /\ cert' = None
    /\ UNCHANGED <<opt, events, synced, leaves, root>>

(* It may always put one in error. *)
InError ==
    /\ Signed
    /\ last' = Header(cert.c, "InError")
    /\ cert' = None
    /\ UNCHANGED <<opt, events, synced, leaves, root, settled>>
-----------------------------------------------------------------------------
(* The two chains *)

Bridge == [kind |-> "bridge", block |-> synced + 1, gi |-> 0, ger |-> 0, real |-> TRUE]
Claim(gi, ger, real) ==
    [kind |-> "claim", block |-> synced + 1, gi |-> gi, ger |-> ger, real |-> real]
Unclaim(gi) ==
    [kind |-> "unclaim", block |-> synced + 1, gi |-> gi, ger |-> 0, real |-> TRUE]

(* What may happen on L2 after the events h.  Indexes are claimed in       *)
(* order.  A wrong claim has a GER that is not on L1.  Repairs: a claim of *)
(* a bridge that does not exist is unset, the index may then be claimed    *)
(* with correct data; a claim of a real bridge is emitted again with a     *)
(* correct GER.                                                            *)
Possible(h) ==
    LET of(gi) == {i \in DOMAIN h : h[i].gi = gi}
        latest(gi) == h[Max(of(gi))]
        fresh == {gi \in GlobalIndexes : of(gi) = {}}
        used == GlobalIndexes \ fresh
        new == IF fresh = {} THEN {} ELSE {Min(fresh)}
        again(gi) ==
            \/ /\ latest(gi).kind = "unclaim" /\ "reclaim" \in Repairs
            \/ /\ latest(gi).kind = "claim" /\ latest(gi).ger = 0 /\ latest(gi).real
               /\ "reemit" \in Repairs
        wrong == IF "unset" \in Repairs THEN {FALSE} ELSE {}
        late == IF "reemit" \in Repairs THEN {TRUE} ELSE {}
    IN {Bridge}
       \cup {Claim(gi, ger, TRUE) : gi \in new \cup {g \in used : again(g)},
                                    ger \in 1..MaxLeaves}
       \cup {Claim(gi, 0, real) : gi \in new, real \in wrong \cup late}
       \cup {Unclaim(gi) : gi \in {g \in used : latest(g).kind = "claim" /\ ~latest(g).real}}

(* The syncers process a block with at most two events. *)
SyncBlock ==
    /\ synced < MaxBlocks
    /\ synced' = synced + 1
    /\ \/ UNCHANGED events
       \/ \E e \in Possible(events) : events' = Append(events, e)
       \/ \E e \in Possible(events) : \E f \in Possible(Append(events, e)) :
             events' = events \o <<e, f>>
    /\ Len(events') <= MaxEvents
    /\ UNCHANGED <<opt, leaves, root, last, cert, settled>>

SyncL1 ==
    /\ \/ leaves < MaxLeaves /\ leaves' = leaves + 1 /\ UNCHANGED root
       \/ root < leaves /\ root' = root + 1 /\ UNCHANGED leaves
    /\ UNCHANGED <<opt, events, synced, last, cert, settled>>

Next == Build \/ Refuse \/ Settle \/ InError \/ SyncBlock \/ SyncL1

Spec == Init /\ [][Next]_vars
-----------------------------------------------------------------------------
(* Every variable has its type, and the syncers return events in the order *)
(* of their blocks.                                                        *)
TypeOK ==
    /\ opt \in Options
    /\ events \in Seq(Events)
    /\ \A i, j \in DOMAIN events : i < j => events[i].block <= events[j].block
    /\ synced \in 0..MaxBlocks /\ leaves \in 1..MaxLeaves /\ root \in 1..leaves
    /\ last # None => last.status \in {"Settled", "InError"}
    /\ cert # None => cert.valid \in BOOLEAN

(* The claims of existing bridges that stand, by index: the first claim    *)
(* since the index was last unset.                                         *)
StandingClaims ==
    {i \in DOMAIN events :
        /\ events[i].kind = "claim" /\ events[i].real
        /\ \A j \in 1..(i - 1) :
              events[j].kind = "claim" /\ events[j].gi = events[i].gi =>
                \E k \in (j + 1)..(i - 1) : events[k].kind = "unclaim" /\ events[k].gi = events[i].gi
        /\ \A j \in (i + 1)..Len(events) :
              ~(events[j].kind = "unclaim" /\ events[j].gi = events[i].gi)}

Boundary == IF last = None THEN 0 ELSE GetLastSettledCertificateToBlock

(* No bridge and no standing claim lies at or below the boundary from      *)
(* which the next range starts without having been settled                 *)
(* (NextCertificateBlockRange, trimmed ranges, netted claims).             *)
NothingLost ==
    /\ Boundary # None
    /\ Ids("bridge", 0, Boundary) \subseteq settled.bridges
    /\ \A i \in StandingClaims :
          events[i].block <= Boundary => events[i].gi \in {c.gi : c \in settled.imports}

(* What is sent can be settled: imported exits exist, are under the root   *)
(* of the certificate and were not imported before, and no bridge exit is  *)
(* sent twice.                                                             *)
SentCanBeSettled ==
    Signed =>
        /\ \A i \in cert.c.imports :
              /\ i.real /\ i.ger \in 1..cert.c.leafCount
              /\ i.gi \notin {j.gi : j \in settled.imports}
        /\ cert.c.bridges \cap settled.bridges = {}
        /\ Cardinality({i.gi : i \in cert.c.imports}) = Cardinality(cert.c.imports)

(* The validator accepts what the builder builds, if no claim of the range *)
(* was emitted again after it.                                             *)
ValidatorAgrees ==
    cert # None =>
        \/ cert.valid
        \/ \E i \in DOMAIN events : \E j \in DOMAIN events :
              /\ events[i].kind = "claim" /\ events[j].kind = "claim"
              /\ events[i].gi = events[j].gi
              /\ events[i].block <= cert.c.to /\ events[j].block > cert.c.to

Unsettled ==
    (Ids("bridge", 1, synced) \ settled.bridges)
    \cup {i \in StandingClaims : events[i].gi \notin {c.gi : c \in settled.imports}}

(* The last block that the limits on blocks allow. *)
LimitBlock ==
    Min({synced}
        \cup (IF opt.MaxL2BlockNumber = 0 THEN {} ELSE {opt.MaxL2BlockNumber})
        \cup (IF opt.MaxL2BlockRange = 0 THEN {}
              ELSE {PreviousToBlock + 1 + opt.MaxL2BlockRange}))

(* The limits leave room for something: an event that is not settled lies  *)
(* within them, and so does the repair of each wrong claim; the size limit *)
(* is not exceeded by one block nor used up by claims that were unset.     *)
Room ==
    /\ ~opt.forceOneBridgeExit
    /\ opt.MaxCertSize # 0 =>
          /\ Ids("unclaim", 1, synced) = {}
          /\ \A b \in 1..synced :
                Cardinality({i \in DOMAIN events : events[i].block = b}) <= opt.MaxCertSize
    /\ \E i \in Unsettled : events[i].block <= LimitBlock
    /\ \A i \in Ids("claim", 1, LimitBlock) :
          events[i].ger = 0 =>
              \E j \in (i + 1)..Len(events) :
                  events[j].gi = events[i].gi /\ events[j].block <= LimitBlock

(* Once all GERs are under the root, what is left and within the limits is *)
(* sent: the build succeeds and the certificate is not empty (a cut of     *)
(* AdjustBlockRange that leaves nothing would be repeated for ever).       *)
NeverStuck ==
    cert = None /\ root = MaxLeaves /\ Room =>
        LET c == BuildCertificate(GetCertificateBuildParams, PreviousLER)
        IN c # None /\ (c.bridges # {} \/ c.imports # {})

(* After an error, "resend that certificate with all the previous sent     *)
(* data, plus new bridges and claims" (docs/aggsender.md).                 *)
RetryKeepsContents ==
    [][last # None /\ last.status = "InError" /\ cert' # None /\ cert = None =>
           /\ cert'.c.from = last.from
           /\ last.bridges \subseteq cert'.c.bridges
           /\ last.imports \subseteq {i.id : i \in cert'.c.imports}]_vars
=============================================================================
