----------------------------- MODULE Publication -----------------------------
(***************************************************************************)
(* publish_version (application/datasets.py, dataset_repository.py) by     *)
(* concurrent requests to one dataset, and diff_versions over what they    *)
(* have published (domain/dataset_operations.py).  A key is a name and the *)
(* form it is spelt in: Unicode normalisation makes the forms equal.       *)
(* Labels stand for metadata and splits after normalisation; the hashes    *)
(* are injective, so an envelope stands for its hash.                      *)
(***************************************************************************)
EXTENDS Naturals, Sequences, FiniteSets, FiniteSetsExt

CONSTANTS
    Publishers,
    RawKeys,         \* the keys of source records: a [name, form] each
    Payloads,
    Malformed,       \* a payload the schema of the dataset refuses
    Labels,
    MaxRows          \* bound: source records in a request

ASSUME PublicationAssumption ==
    /\ Malformed \notin Payloads
    /\ MaxRows \in Nat
    /\ \A k \in RawKeys : k.form \in {"composed", "decomposed"}

VARIABLES
    versions,        \* the committed versions, a [number, records] each
    job              \* [Publishers -> a request: where it is, its rows and number]

publicationVars == <<versions, job>>

SourceRows == [raw : RawKeys, payload : Payloads \union {Malformed}, labels : Labels]

Requests == UNION {[1..n -> SourceRows] : n \in 0..MaxRows}

Stages == {"idle", "prepared", "numbered", "published", "refused", "lost"}

\* NFC of a key.
Text(raw) == [raw EXCEPT !.form = "composed"]

PublicationInit ==
    /\ versions = {}
    /\ job = [p \in Publishers |-> [at |-> "idle", rows |-> << >>, number |-> 0]]

\* A key as it was sent equals one of the normalised keys seen before.
RepeatsKey(rows) ==
    \E i, j \in DOMAIN rows : i < j /\ rows[j].raw = Text(rows[i].raw)

Invalid(rows) ==
    \/ rows = << >>
    \/ \E i \in DOMAIN rows : rows[i].payload = Malformed
    \/ RepeatsKey(rows)

\* build_record for each row.
Built(rows) ==
    {[key |-> Text(rows[i].raw), payload |-> rows[i].payload,
      labels |-> rows[i].labels, row |-> i] : i \in DOMAIN rows}

\* Mutant: the envelope leaves metadata and splits out.
EnvelopeUnlabelled(r) == <<r.key, r.payload, r.row>>

\* What the envelope hash covers: provenance, so the source row, included.
Envelope(r) == <<r.key, r.payload, r.labels, r.row>>

\* What the version hash covers: the envelopes in the order of their keys.
Manifest(v) == {Envelope(r) : r \in v.records}

\* The request is validated, every record built, and the manifest hashed.
Prepare(p, rows) ==
    /\ job[p].at = "idle"
    /\ job' = [job EXCEPT ![p] = [at |-> IF Invalid(rows) THEN "refused" ELSE "prepared",
                                  rows |-> rows, number |-> 0]]
    /\ UNCHANGED versions

NextNumber == Max({v.number : v \in versions} \union {0}) + 1

\* Mutant: the row of the dataset is read, not locked.
TakeNumberUnlocked(p) ==
    /\ job[p].at = "prepared"
    /\ job' = [job EXCEPT ![p].at = "numbered", ![p].number = NextNumber]
    /\ UNCHANGED versions

\* next_version_number: waits for the lock of the dataset, then reads.
TakeNumber(p) ==
    /\ job[p].at = "prepared"
    /\ \A q \in Publishers : job[q].at # "numbered"
    /\ job' = [job EXCEPT ![p].at = "numbered", ![p].number = NextNumber]
    /\ UNCHANGED versions

\* Mutant: no unique key on (version, record key).
ConstraintsHoldUnkeyed(v) == \A u \in versions : u.number # v.number

\* The unique keys on (dataset, number) and on (version, record key).
ConstraintsHold(v) ==
    /\ \A u \in versions : u.number # v.number
    /\ \A r, s \in v.records : r.key = s.key => r = s

\* add_version and the commit of the request.
Publish(p) ==
    LET v == [number |-> job[p].number, records |-> Built(job[p].rows)] IN
    /\ job[p].at = "numbered"
    /\ \/ /\ ConstraintsHold(v)
          /\ versions' = versions \union {v}
          /\ job' = [job EXCEPT ![p].at = "published"]
       \/ /\ ~ConstraintsHold(v)
          /\ job' = [job EXCEPT ![p].at = "refused"]
          /\ UNCHANGED versions

\* The process or its database connection is lost before the commit.
Lose(p) ==
    /\ job[p].at \in {"prepared", "numbered"}
    /\ job' = [job EXCEPT ![p].at = "lost"]
    /\ UNCHANGED versions

PublicationNext ==
    \E p \in Publishers :
        \/ \E rows \in Requests : Prepare(p, rows)
        \/ TakeNumber(p) \/ Publish(p) \/ Lose(p)

PublicationSpec == PublicationInit /\ [][PublicationNext]_publicationVars

-----------------------------------------------------------------------------
(* diff_versions *)

Keys(v) == {r.key : r \in v.records}

RecordOf(v, k) == CHOOSE r \in v.records : r.key = k

Kind(source, target, k) ==
    IF k \notin Keys(source) THEN "added"
    ELSE IF k \notin Keys(target) THEN "removed"
    ELSE IF Envelope(RecordOf(source, k)) = Envelope(RecordOf(target, k)) THEN "unchanged"
    ELSE "modified"

\* The field changes reported with a modified record.
Changes(source, target, k) ==
    {f \in {"payload", "labels"} : RecordOf(source, k)[f] # RecordOf(target, k)[f]}

-----------------------------------------------------------------------------
(* Properties *)

\* Each variable has its shape.
PublicationTypeOK ==
    /\ \A v \in versions : v.number \in Nat \ {0} /\ v.records # {}
    /\ job \in [Publishers -> [at : Stages, rows : Requests, number : Nat]]

Acceptable(rows) ==
    /\ rows # << >>
    /\ \A i \in DOMAIN rows : rows[i].payload # Malformed
    /\ \A i, j \in DOMAIN rows : Text(rows[i].raw) = Text(rows[j].raw) => i = j

\* Publications happen as if one by one: whatever is lost in between, versions
\* are numbered without a gap, and a request that is fine by itself is never
\* refused because of another one.
PublicationsAreSerial ==
    /\ {v.number : v \in versions} = 1..Cardinality(versions)
    /\ \A p \in Publishers : job[p].at = "refused" => ~Acceptable(job[p].rows)

\* A published version is one acceptable request in full: every record, no key
\* twice, even where two keys only become equal by normalisation.
VersionsAreWhole ==
    \A v \in versions : \E p \in Publishers :
        /\ job[p].at = "published" /\ Acceptable(job[p].rows)
        /\ job[p].number = v.number
        /\ Cardinality(v.records) = Cardinality(Keys(v))
        /\ Cardinality(v.records) = Len(job[p].rows)

\* A record the diff calls unchanged has not changed, the diff the other way
\* round is its mirror image, and two versions have the same content hash only
\* if the diff between them is empty.
DiffTellsChanges ==
    \A s, t \in versions :
        LET kind == [k \in Keys(s) \union Keys(t) |-> Kind(s, t, k)] IN
        /\ \A k \in DOMAIN kind :
              /\ kind[k] = "unchanged" => Changes(s, t, k) = {}
              /\ kind[k] \in {"unchanged", "modified"} <=> kind[k] = Kind(t, s, k)
        /\ Manifest(s) = Manifest(t) <=> \A k \in DOMAIN kind : kind[k] = "unchanged"

\* "modified: same key, different envelope hash, with field-level changes"
\* (docs/concepts/versioned-datasets.md:83).
ModifiedShowsChanges ==
    \A s, t \in versions : \A k \in Keys(s) \intersect Keys(t) :
        Kind(s, t, k) = "modified" => Changes(s, t, k) # {}
=============================================================================
