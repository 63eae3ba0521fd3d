----------------------------- MODULE PacketPair -----------------------------
(***************************************************************************)
(* The packets of one triggered task (resampling_null/packets.py) and who  *)
(* may read them (packet_capabilities.py).  The findings of the task's own *)
(* verifier become the REAL packet.  Those of its donor, with every        *)
(* identifier renamed to one of the task, become the SHAM packet, which is *)
(* padded until both have the same number of tokens.  The build leaves     *)
(* four derived documents, two packets and a candidate; the audit builds   *)
(* the pair again from the documents and seals the candidate; a slot then  *)
(* reads the packet that the sealed index grants it.                       *)
(*                                                                         *)
(* A text is a sequence of pieces, of which Space separates tokens.  A     *)
(* reference carries a digest, so here it carries the bytes; every read    *)
(* through one compares them.  The schedule, ledger and index that the     *)
(* candidate descends from are in StudyPipeline.                           *)
(***************************************************************************)
EXTENDS Integers, Sequences, FiniteSets, SequencesExt

CONSTANTS
    Space,       \* the piece of text that separates tokens
    Mark,        \* the piece that stands between the fields of a packet
    FocalTask,   \* the task, as text
    DonorTask,   \* its donor, as text
    Reports,     \* what the two verifiers may have found
    Policies,    \* packet policies: findings, tokens, and the padding units
    Guides,      \* the capabilities of the task's slots, which name their packets
    ArmOf,       \* the arm of the slot of each capability
    Places,      \* the capabilities that a caller may name for the two packets
    PadStates,   \* bound: paddings that the search may explore (the code: 256 or more)
    MaxBuilds,   \* bound: builds begun
    MaxDisturbances  \* bound: acts of another writer

ASSUME TasksAssumption == FocalTask # DonorTask /\ Len(DonorTask) > 0
ASSUME GuidesAssumption ==
    /\ \A g, h \in Guides : ArmOf[g] = ArmOf[h] => g = h
    /\ Places \subseteq [real : Guides, sham : Guides]
ASSUME ReportsAssumption ==
    \A r \in Reports : \A who \in {"focal", "donor"} :
        LET findings == r[who].findings
        IN  /\ Len(findings) \in Nat /\ DOMAIN findings = 1 .. Len(findings)
            /\ \A i \in DOMAIN findings :
                  LET atoms == findings[i].atoms
                  IN  Len(atoms) \in Nat /\ DOMAIN atoms = 1 .. Len(atoms)
ASSUME PoliciesAssumption ==
    \A p \in Policies : p.findings \in Nat \ {0} /\ p.tokens \in Nat \ {0}
ASSUME NamesAssumption ==
    Guides \cap {"focal", "donor", "map", "sham", "candidate", "sealed"} = {}

VARIABLES
    reports,      \* the sealed reports of the two verifiers
    policy,       \* the manifest's packet policy and padding units
    shelf,        \* the files of the packets
    job,          \* the build under way, or NoJob
    packetIndex,  \* the sealed index that later commands are given, or NoFile
    issued,       \* the grants resolved last, or NoFile
    seen,         \* history: the packets that workers read
    builds, disturbances

pvars == <<reports, policy, shelf, job, packetIndex, issued, seen, builds, disturbances>>

NoFile == [kind |-> "none"]
NoJob == [step |-> "idle"]
Names == Guides \cup {"focal", "donor", "map", "sham", "candidate", "sealed"}

-----------------------------------------------------------------------------
(* Texts and findings.                                                     *)

\* Whether s is in t.
Occurs(s, t) == \E i \in 0 .. Len(t) - Len(s) : SubSeq(t, i + 1, i + Len(s)) = s

\* _UnicodeWhitespaceTokenizer: a token begins after a space.
TokenCount(t) == Cardinality({i \in DOMAIN t : t[i] # Space /\ (i = 1 \/ t[i - 1] = Space)})

\* Atoms are joined without a separator.
AtomsText(atoms) == FlattenSeq([i \in DOMAIN atoms |-> atoms[i].text])

IsLiteral(atom) == atom.kind = "literal"
AtomsOf(findings) == UNION {{findings[i].atoms[j] : j \in DOMAIN findings[i].atoms} : i \in DOMAIN findings}
Identifiers(findings) == {a \in AtomsOf(findings) : ~IsLiteral(a)}
DonorIdentities(findings) == {DonorTask} \cup {a.text : a \in Identifiers(findings)}

DistinctIds(findings) == \A i, j \in DOMAIN findings : findings[i].id = findings[j].id => i = j

-----------------------------------------------------------------------------
(* The derived documents.                                                  *)

\* _derive_synthetic_normalized_document: the report is the task's, its count
\* recomputes and no finding is reported twice.
Normalizable(report, task) ==
    report.task = task /\ report.count = Len(report.findings) /\ DistinctIds(report.findings)

Normalized(report) ==
    [kind |-> "findings", task |-> report.task, findings |-> report.findings]

\* _load_normalized_findings
Loads(doc, task) == doc.kind = "findings" /\ doc.task = task /\ DistinctIds(doc.findings)

NothingLeaks(findings, identities) ==
    \A a \in AtomsOf(findings) : IsLiteral(a) => \A id \in identities : ~Occurs(id, a.text)

\* derive_packet_rewrite_artifacts, before anything is written: the map covers
\* the donor's identifiers, one to one, with identifiers of the task that have
\* the same kind and do not contain an identity of the donor.
Renames(alias, focal, donor) ==
    LET identities == DonorIdentities(donor)
    IN  /\ focal # <<>> /\ donor # <<>>
        /\ NothingLeaks(donor, identities)
        /\ alias \in [Identifiers(donor) -> Identifiers(focal)]
        /\ \A a, b \in DOMAIN alias : alias[a] = alias[b] => a = b
        /\ \A a \in DOMAIN alias :
              /\ alias[a].kind = a.kind
              /\ \A id \in identities : ~Occurs(id, alias[a].text)

MapOf(alias, focal, donor) ==
    [kind |-> "map", focal |-> focal, donor |-> donor, alias |-> alias]

\* A finding of the donor under the identifier and severity of the task's.
Rewritten(f, d, alias) ==
    [id |-> f.id, component |-> d.component, code |-> d.code, severity |-> f.severity,
     atoms |-> [i \in DOMAIN d.atoms |->
                    IF IsLiteral(d.atoms[i]) THEN d.atoms[i] ELSE alias[d.atoms[i]]]]

Least(a, b) == IF a <= b THEN a ELSE b
Most(a, b) == IF a <= b THEN b ELSE a

RewrittenAll(focal, donor, alias, n) == [i \in 1 .. n |-> Rewritten(focal[i], donor[i], alias)]

ShamOf(map) ==
    LET focal == map.focal.findings
        donor == map.donor.findings
    IN  [kind |-> "sham", map |-> map,
         findings |-> RewrittenAll(focal, donor, map.alias, Least(Len(focal), Len(donor)))]

\* The check of the rewritten findings, whose atoms are joined by then.
Retains(findings, identities) ==
    \E i \in DOMAIN findings, id \in identities :
        \E field \in {findings[i].id, findings[i].component, findings[i].code,
                      findings[i].severity, AtomsText(findings[i].atoms)} : Occurs(id, field)

ShamClean(map) == ~Retains(ShamOf(map).findings, DonorIdentities(map.donor.findings))

-----------------------------------------------------------------------------
(* The pair: _build_packet_pair_from_values.                               *)

Together(focal, donor) == Least(Least(Len(focal), Len(donor)), policy.findings)

Budget(n) == Most(1, policy.tokens \div n)

\* _bound_atoms: trailing atoms are dropped until the evidence fits.
Fitting(atoms, budget) ==
    {0} \cup {n \in DOMAIN atoms : TokenCount(AtomsText(SubSeq(atoms, 1, n))) <= budget}

Kept(atoms, budget) ==
    CHOOSE n \in Fitting(atoms, budget) : \A m \in Fitting(atoms, budget) : m <= n

RowOf(f, n) ==
    [id |-> f.id, component |-> f.component, code |-> f.code, severity |-> f.severity,
     evidence |-> AtomsText(SubSeq(f.atoms, 1, n))]

Bounded(findings, n) ==
    [i \in 1 .. n |-> RowOf(findings[i], Kept(findings[i].atoms, Budget(n)))]

\* _finding_signature
Signature(row) == <<row.component, row.code, row.severity, row.evidence>>

Signatures(rows) == {Signature(rows[i]) : i \in DOMAIN rows}

\* _render: a mark before, between and after the fields.
TextOf(rows, padding) ==
    LET fields(row) == <<Mark>> \o row.id \o <<Mark>> \o row.component \o <<Mark>> \o row.code
                         \o <<Mark>> \o row.severity \o <<Mark>> \o row.evidence
    IN  FlattenSeq([i \in DOMAIN rows |-> fields(rows[i])]) \o <<Mark>> \o padding \o <<Mark>>

Size(packet) == TokenCount(TextOf(packet.rows, packet.padding))

\* _padding_search: the paddings of n units whose beginnings are all too short,
\* level after level until one has the size.
Padded(rows, padding) == [kind |-> "packet", rows |-> rows, padding |-> padding]

Frontier(rows, target) ==
    LET level[n \in 0 .. PadStates] ==
            IF n = 0 THEN {<<>>}
            ELSE {p \o u : p \in {q \in level[n - 1] : Size(Padded(rows, q)) < target},
                           u \in policy.units}
    IN  level

Explored(rows, target) ==
    LET level == Frontier(rows, target)
        states[n \in 0 .. PadStates] ==
            IF n = 0 THEN 0 ELSE states[n - 1] + Cardinality(level[n - 1])
    IN  states

\* The levels that are searched and hold a padding of the size.
Hits(rows, target) ==
    {n \in 0 .. PadStates :
        /\ Explored(rows, target)[n] < PadStates
        /\ \E p \in Frontier(rows, target)[n] : Size(Padded(rows, p)) = target}

\* The first in byte order is some fixed one of them.
Padding(rows, target) ==
    LET first == CHOOSE n \in Hits(rows, target) : \A m \in Hits(rows, target) : n <= m
    IN  CHOOSE p \in Frontier(rows, target)[first] : Size(Padded(rows, p)) = target

Rows(focal, donor, alias) ==
    LET n == Together(focal, donor)
    IN  [real |-> Bounded(focal, n),
         sham |-> Bounded(RewrittenAll(focal, donor, alias, n), n)]

Target(rows) == Most(Size(Padded(rows.real, <<>>)), Size(Padded(rows.sham, <<>>)))

Pair(focal, donor, alias) ==
    LET rows == Rows(focal, donor, alias)
    IN  [real |-> Padded(rows.real, Padding(rows.real, Target(rows))),
         sham |-> Padded(rows.sham, Padding(rows.sham, Target(rows)))]

\* The identifiers are mapped to ones that are no donor identity and not the
\* task itself, of the same kind, and no literal names the donor.
AliasSafe(alias, donor) ==
    /\ NothingLeaks(donor, DonorIdentities(donor))
    /\ \A a \in Identifiers(donor) :
          /\ a \in DOMAIN alias /\ alias[a].kind = a.kind
          /\ alias[a].text \notin DonorIdentities(donor) \cup {FocalTask}

\* A finding of which nothing fits the budget cannot be constructed.
NothingDropped(findings, n) == \A i \in 1 .. n : Kept(findings[i].atoms, Budget(n)) > 0

Buildable(focal, donor, alias) ==
    LET n == Together(focal, donor)
        rows == Rows(focal, donor, alias)
        pair == Pair(focal, donor, alias)
        source == SubSeq(donor, 1, n)
    IN  /\ AliasSafe(alias, source)
        /\ NothingDropped(focal, n)
        /\ NothingDropped(RewrittenAll(focal, donor, alias, n), n)
        /\ Signatures(rows.sham) \cap
               (Signatures(rows.real) \cup {Signature(RowOf(focal[i], Len(focal[i].atoms))) : i \in 1 .. n}) = {}
        /\ Hits(rows.real, Target(rows)) # {} /\ Hits(rows.sham, Target(rows)) # {}
        /\ Size(pair.real) = Size(pair.sham)
        /\ \A id \in DonorIdentities(source), packet \in {pair.real, pair.sham} :
              ~Occurs(id, TextOf(packet.rows, packet.padding))

\* build_packet_pair: the documents at the references are read again, and must
\* be the ones that the reports and the map give.
Rederives(docs) ==
    /\ Normalizable(reports.focal, FocalTask) /\ docs.focal = Normalized(reports.focal)
    /\ Normalizable(reports.donor, DonorTask) /\ docs.donor = Normalized(reports.donor)
    /\ \A name \in {"focal", "donor", "map"} : shelf[name] = docs[name]
    /\ Loads(docs.focal, FocalTask) /\ Loads(docs.donor, DonorTask)
    /\ docs.map.kind = "map" /\ docs.map.focal = docs.focal /\ docs.map.donor = docs.donor
    /\ Renames(docs.map.alias, docs.focal.findings, docs.donor.findings)
    /\ ShamClean(docs.map) /\ docs.sham = ShamOf(docs.map)
    /\ shelf["sham"] \in {NoFile, docs.sham}

Rebuilds(docs) ==
    Rederives(docs) /\ Buildable(docs.focal.findings, docs.donor.findings, docs.map.alias)

PairOf(docs) == Pair(docs.focal.findings, docs.donor.findings, docs.map.alias)

-----------------------------------------------------------------------------
(* The build.                                                              *)

PInit ==
    /\ reports \in Reports /\ policy \in Policies
    /\ shelf = [name \in Names |-> NoFile] /\ job = NoJob
    /\ packetIndex = NoFile /\ issued = NoFile /\ seen = {} /\ builds = 0 /\ disturbances = 0

\* _write_canonical_packet_blob, put_text: an equal file is left alone, another
\* one is never replaced.
Put(name, doc) ==
    /\ shelf[name] \in {NoFile, doc}
    /\ shelf' = [shelf EXCEPT ![name] = doc]

\* The caller names the files of the packets.
StartBuild(place) ==
    /\ job = NoJob /\ builds < MaxBuilds
    /\ job' = [step |-> "focal", at |-> place]
    /\ builds' = builds + 1
    /\ UNCHANGED <<reports, policy, shelf, packetIndex, issued, seen, disturbances>>

\* normalize_synthetic_packet_findings, for the task and for its donor.
Normalize(name, task, next) ==
    /\ job.step = name
    /\ Normalizable(reports[name], task)
    /\ Put(name, Normalized(reports[name]))
    /\ job' = [job EXCEPT !.step = next]
    /\ UNCHANGED <<reports, policy, packetIndex, issued, seen, builds, disturbances>>

\* derive_packet_rewrite_artifacts: the map is written first.
WriteMap(alias) ==
    LET focal == Normalized(reports.focal)
        donor == Normalized(reports.donor)
    IN  /\ job.step = "map"
        /\ shelf["focal"] = focal /\ shelf["donor"] = donor
        /\ Loads(focal, FocalTask) /\ Loads(donor, DonorTask)
        /\ Renames(alias, focal.findings, donor.findings)
        /\ Put("map", MapOf(alias, focal, donor))
        /\ job' = [step |-> "rewrite", at |-> job.at, map |-> MapOf(alias, focal, donor)]
        /\ UNCHANGED <<reports, policy, packetIndex, issued, seen, builds, disturbances>>

WriteSham ==
    /\ job.step = "rewrite"
    /\ ShamClean(job.map)
    /\ Put("sham", ShamOf(job.map))
    /\ job' = [step |-> "pair", at |-> job.at,
               docs |-> [focal |-> job.map.focal, donor |-> job.map.donor, map |-> job.map,
                         sham |-> ShamOf(job.map)]]
    /\ UNCHANGED <<reports, policy, packetIndex, issued, seen, builds, disturbances>>

\* PacketPairReceipt
EntryOf(docs, place) ==
    [kind |-> "candidate", docs |-> docs, at |-> place, pair |-> PairOf(docs)]

\* A sham document that is missing is written again.
BuildPair ==
    /\ job.step = "pair"
    /\ job.at.real # job.at.sham
    /\ Rebuilds(job.docs)
    /\ Put("sham", job.docs.sham)
    /\ job' = [step |-> "real", entry |-> EntryOf(job.docs, job.at)]
    /\ UNCHANGED <<reports, policy, packetIndex, issued, seen, builds, disturbances>>

\* SyntheticPacketArtifactStore.put_text, REAL before SHAM.
WritePacket(arm, next) ==
    /\ job.step = arm
    /\ Put(job.entry.at[arm], job.entry.pair[arm])
    /\ job' = [job EXCEPT !.step = next]
    /\ UNCHANGED <<reports, policy, packetIndex, issued, seen, builds, disturbances>>

\* write_packet_candidate
WriteCandidate ==
    /\ job.step = "candidate"
    /\ shelf["candidate"] = NoFile
    /\ shelf' = [shelf EXCEPT !["candidate"] = job.entry]
    /\ job' = NoJob
    /\ UNCHANGED <<reports, policy, packetIndex, issued, seen, builds, disturbances>>

RederivesMissing(docs) == shelf["sham"] = NoFile /\ Rederives(docs) /\ Put("sham", docs.sham)

\* A build or an audit that fails later has written that document already.
WriteShamAgain ==
    /\ \/ job.step = "pair" /\ RederivesMissing(job.docs)
       \/ job = NoJob /\ shelf["candidate"].kind = "candidate" /\ RederivesMissing(shelf["candidate"].docs)
    /\ UNCHANGED <<reports, policy, job, packetIndex, issued, seen, builds, disturbances>>

\* A check fails, or the process is killed.
Abandon ==
    /\ job # NoJob /\ job' = NoJob
    /\ UNCHANGED <<reports, policy, shelf, packetIndex, issued, seen, builds, disturbances>>

-----------------------------------------------------------------------------
(* The audit, the grants and the reads.                                    *)

ReproducedReceipt(entry) ==
    /\ entry.at.real # entry.at.sham
    /\ Rebuilds(entry.docs)
    /\ \A arm \in {"real", "sham"} : shelf[entry.at[arm]] = entry.pair[arm]

\* _VerifyingPacketArtifactStore: the pair that is rebuilt must be in the files
\* that the candidate names.
Reproduced(entry) ==
    /\ entry.at.real # entry.at.sham
    /\ Rebuilds(entry.docs)
    /\ \A arm \in {"real", "sham"} :
          shelf[entry.at[arm]] = entry.pair[arm] /\ PairOf(entry.docs)[arm] = entry.pair[arm]

\* audit_and_seal_packet_index
Audit ==
    LET entry == shelf["candidate"]
        sealed == [kind |-> "sealed", entry |-> entry]
    IN  /\ job = NoJob /\ entry.kind = "candidate"
        /\ Reproduced(entry)
        /\ shelf["sealed"] = NoFile
        /\ shelf' = [shelf EXCEPT !["sham"] = entry.docs.sham, !["sealed"] = sealed]
        /\ packetIndex' = sealed
        /\ UNCHANGED <<reports, policy, job, issued, seen, builds, disturbances>>

\* A reference to a file.
Ref(name, bytes) == [at |-> name, bytes |-> bytes]

Holder(arm) == CHOOSE g \in Guides : ArmOf[g] = arm

\* _RootBoundReader: the bytes must be those of the reference.
Reads(ref) == shelf[ref.at] = ref.bytes

\* _guidance_ref: a packet lies where the capability of its slot says, with its
\* bytes.
Bound(entry, field, arm) ==
    entry.at[field] = Holder(arm) /\ Reads(Ref(entry.at[field], entry.pair[field]))

\* OpaqueSlotGrant: the packet of a slot, if any.
GrantOf(entry, g) ==
    CASE ArmOf[g] = "REAL" -> Ref(entry.at.real, entry.pair.real)
      [] ArmOf[g] = "SHAM" -> Ref(entry.at.sham, entry.pair.sham)
      [] OTHER -> NoFile

\* resolve_packet_capabilities: the index and its candidate are unchanged.
Resolve ==
    LET entry == packetIndex.entry
    IN  /\ packetIndex # NoFile
        /\ Reads(Ref("sealed", packetIndex)) /\ Reads(Ref("candidate", entry))
        /\ Bound(entry, "real", "REAL") /\ Bound(entry, "sham", "SHAM")
        /\ issued' = [kind |-> "grants", from |-> packetIndex, of |-> [g \in Guides |-> GrantOf(entry, g)]]
        /\ UNCHANGED <<reports, policy, shelf, job, packetIndex, seen, builds, disturbances>>

\* seal_slot_capability: of the files here the guidance of its own order, if any.
Readable(g) == {issued.of[g]} \ {NoFile}

\* SlotArtifactLoader.read_bytes, for a reference the worker has come to know.
Read(g, ref) ==
    /\ issued # NoFile
    /\ ref \in Readable(g) /\ Reads(ref)
    /\ seen' = seen \cup {[by |-> g, packet |-> ref.bytes, from |-> issued.from]}
    /\ UNCHANGED <<reports, policy, shelf, job, packetIndex, issued, builds, disturbances>>

\* Another writer removes a file, or leaves in it what another holds, or a
\* candidate whose packet references have changed places.
Turned(pair) == [real |-> pair.sham, sham |-> pair.real]

Interfere(name) ==
    LET old == shelf[name]
        turned == IF old.kind = "candidate"
                  THEN {[old EXCEPT !.at = Turned(@), !.pair = Turned(@)]} ELSE {}
    IN  /\ disturbances < MaxDisturbances /\ disturbances' = disturbances + 1
        /\ \E bytes \in ({NoFile} \cup {shelf[other] : other \in Names} \cup turned) \ {old} :
              shelf' = [shelf EXCEPT ![name] = bytes]
        /\ UNCHANGED <<reports, policy, job, packetIndex, issued, seen, builds>>

PNext ==
    \/ \E place \in Places : StartBuild(place)
    \/ Normalize("focal", FocalTask, "donor")
    \/ Normalize("donor", DonorTask, "map")
    \/ \E alias \in [Identifiers(reports.donor.findings) ->
                        Identifiers(reports.donor.findings) \cup Identifiers(reports.focal.findings)] :
          WriteMap(alias)
    \/ WriteSham
    \/ BuildPair
    \/ WritePacket("real", "sham")
    \/ WritePacket("sham", "candidate")
    \/ WriteCandidate
    \/ WriteShamAgain
    \/ Abandon
    \/ Audit
    \/ Resolve
    \/ \E g, at \in Guides : Read(g, Ref(at, shelf[at]))
    \/ \E name \in Names : Interfere(name)

PSpec == PInit /\ [][PNext]_pvars

-----------------------------------------------------------------------------
(* Properties.                                                             *)

\* Type invariant of the variables of packets.py's files and of the readers.
PTypeOK ==
    /\ reports \in Reports /\ policy \in Policies
    /\ shelf \in [Names -> [kind : {"none"}] \cup {shelf[name] : name \in Names}]
    /\ job.step \in {"idle", "focal", "donor", "map", "rewrite", "pair", "real", "sham", "candidate"}
    /\ packetIndex = NoFile \/ packetIndex.kind = "sealed"
    /\ issued = NoFile \/ issued.of \in [Guides -> {issued.of[g] : g \in Guides}]
    /\ \A r \in seen : r.by \in Guides /\ r.packet.kind = "packet" /\ r.from.kind = "sealed"
    /\ builds \in 0 .. MaxBuilds /\ disturbances \in 0 .. MaxDisturbances

\* What a REAL packet says: the first findings of the task's own verifier, of
\* each the first atoms.
Applicable(rows) ==
    \A i \in DOMAIN rows :
        LET f == reports.focal.findings[i]
        IN  \E n \in DOMAIN f.atoms : rows[i] = RowOf(f, n)

\* What a SHAM packet says: the donor's findings in that order, under one
\* renaming of its identifiers to identifiers of the task, of their kinds.
Disguised(rows) ==
    LET focal == reports.focal.findings
        donor == reports.donor.findings
    IN  \E alias \in [Identifiers(donor) -> Identifiers(focal)] :
          /\ \A a, b \in DOMAIN alias : alias[a].kind = a.kind /\ (alias[a] = alias[b] => a = b)
          /\ \A i \in DOMAIN rows : \E n \in DOMAIN donor[i].atoms :
                rows[i] = RowOf(Rewritten(focal[i], donor[i], alias), n)

\* Two packets that token counts, findings and severities do not tell apart.
Alike(p, q) ==
    /\ Size(p) = Size(q)
    /\ DOMAIN p.rows = DOMAIN q.rows
    /\ \A i \in DOMAIN p.rows : p.rows[i].id = q.rows[i].id /\ p.rows[i].severity = q.rows[i].severity

\* Safety.  Whatever is killed, built again or changed on disk, a worker that
\* reads a packet is in a guided slot and reads that of its own arm: evidence of
\* its own task for REAL and disguised evidence of the donor for SHAM, neither
\* with the name of the donor or of an identifier used; and the workers of one
\* sealed index cannot tell their arms from sizes or severities
\* (packet_capabilities.py, packets.py).
GuidanceIsFair ==
    \A r \in seen :
        /\ \/ ArmOf[r.by] = "REAL" /\ Applicable(r.packet.rows)
           \/ ArmOf[r.by] = "SHAM" /\ Disguised(r.packet.rows)
        /\ \A id \in DonorIdentities(SubSeq(reports.donor.findings, 1, Len(r.packet.rows))) :
              ~Occurs(id, TextOf(r.packet.rows, r.packet.padding))
        /\ \A q \in seen : q.from = r.from => Alike(q.packet, r.packet)
=============================================================================
