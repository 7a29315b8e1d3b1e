------------------------------ MODULE Sampling ------------------------------
(***************************************************************************)
(* A file becomes the records of a dataset version (dataset_import.py and  *)
(* publish_version), of which samples are drawn, plain or stratified       *)
(* (dataset_operations.py).  A record that names no key gets the number of *)
(* its row, which each format counts its own way.  The order in which a    *)
(* seed puts the keys is that of a keyed hash: any order, but a fixed one. *)
(***************************************************************************)
EXTENDS Integers, Sequences, SequencesExt, FiniteSets, FiniteSetsExt

CONSTANTS
    Ids,               \* keys a line may give, NoId for a line that gives none
    NoId, Blank,       \* no key; a line with nothing on it
    Strata,            \* values of the metadata field, as numbers: labels in their order
    MaxLines,          \* bound: the lines of a file
    MaxImport,         \* max_import_records
    SeedOrders         \* for each seed, the rank of each key

ASSUME SamplingAssumption ==
    /\ Ids \ {NoId} \subseteq Nat /\ NoId \notin Nat
    /\ Strata \subseteq Nat
    /\ MaxLines \in Nat /\ MaxImport \in Nat \ {0}
    /\ \A rank \in SeedOrders : \A k, l \in (Ids \ {NoId}) \union (1..(MaxLines + 1)) :
          rank[k] \in Int /\ (rank[k] = rank[l] => k = l)

VARIABLES
    file,        \* the lines read so far
    population,  \* the published records: key -> stratum
    sample       \* the sample drawn: how it was drawn, and its keys

samplingVars == <<file, population, sample>>

Formats == {"json", "jsonl", "csv"}

NoSample == [stratified |-> FALSE, size |-> 0, rank |-> <<>>, keys |-> {}, at |-> "none"]

SamplingInit ==
    /\ file = [format |-> "none", lines |-> <<>>, at |-> "reading"]
    /\ population = <<>>
    /\ sample = NoSample

ReadFile(format) ==
    /\ file.format = "none"
    /\ file' = [file EXCEPT !.format = format]
    /\ UNCHANGED <<population, sample>>

\* Blank lines are skipped by JSONL and by the CSV reader; JSON has none.
ReadLine(line) ==
    /\ file.format # "none" /\ file.at = "reading" /\ Len(file.lines) < MaxLines
    /\ line = Blank => file.format # "json"
    /\ file' = [file EXCEPT !.lines = Append(@, line)]
    /\ UNCHANGED <<population, sample>>

-----------------------------------------------------------------------------
(* parse_records *)

Filled == {i \in DOMAIN file.lines : file.lines[i] # Blank}

\* JSONL numbers the lines of the file, CSV the rows it reads, after its header.
RowNumber(i) ==
    CASE file.format = "csv" -> 1 + Cardinality({j \in Filled : j <= i})
      [] OTHER -> i

\* _normalize_envelope: the key given, or the row.
KeyOfLine(i) == IF file.lines[i].id = NoId THEN RowNumber(i) ELSE file.lines[i].id

\* What parse_records and publish_version refuse: too many records, none, a key
\* that comes twice, given or numbered.
Accepts ==
    /\ Cardinality(Filled) <= MaxImport
    /\ Filled # {}
    /\ \A i, j \in Filled : KeyOfLine(i) = KeyOfLine(j) => i = j

PublishFile ==
    /\ file.format # "none" /\ file.at = "reading"
    /\ IF Accepts
       THEN /\ file' = [file EXCEPT !.at = "published"]
            /\ population' = [k \in {KeyOfLine(i) : i \in Filled} |->
                                 file.lines[CHOOSE i \in Filled : KeyOfLine(i) = k].stratum]
       ELSE file' = [file EXCEPT !.at = "refused"] /\ UNCHANGED population
    /\ UNCHANGED sample

-----------------------------------------------------------------------------
(* deterministic_sample, stratified_sample *)

Size == Cardinality(DOMAIN population)

\* The first of some keys in the order of a seed.
FirstOf(keys, n, rank) == {k \in keys : Cardinality({l \in keys : rank[l] < rank[k]}) < n}

StrataHeld == {population[k] : k \in DOMAIN population}

Stratum(label) == {k \in DOMAIN population : population[k] = label}

\* The share of a label is exact / Size; base and remainder of the division.
Base(label, n) == (n * Cardinality(Stratum(label))) \div Size

Remainder(label, n) == (n * Cardinality(Stratum(label))) % Size

\* What the rounding down leaves to be given to the largest remainders.
ToPlace(n) ==
    LET base == [a \in StrataHeld |-> Base(a, n)]
    IN  n - MapThenSumSet(LAMBDA a : base[a], StrataHeld)

\* Remainders are floats, the difference of a rounded quotient and its floor: a
\* whole quotient is exact, but equal remainders may differ by rounding, so any
\* of those may come first.
Favoured(n) ==
    {G \in SUBSET StrataHeld :
        /\ Cardinality(G) = ToPlace(n)
        /\ \A a \in G, b \in StrataHeld \ G : Remainder(a, n) >= Remainder(b, n)}

\* Mutant: every share is rounded up.
QuotaRoundedUp(label, n, favoured) ==
    Base(label, n) + (IF Remainder(label, n) > 0 THEN 1 ELSE 0)

Quota(label, n, favoured) == Base(label, n) + (IF label \in favoured THEN 1 ELSE 0)

\* A seed for each stratum is derived from the seed: here one rank serves all.
Stratified(n, rank, favoured) ==
    UNION {FirstOf(Stratum(a), Quota(a, n, favoured), rank) : a \in StrataHeld}

\* One sample is followed: a draw depends on the version and its arguments alone.
Draw(n, rank) ==
    /\ file.at = "published" /\ sample = NoSample
    /\ sample' =
          IF n > Size THEN [NoSample EXCEPT !.at = "422"]
          ELSE [stratified |-> FALSE, size |-> n, rank |-> rank, at |-> "drawn",
                keys |-> FirstOf(DOMAIN population, n, rank)]
    /\ UNCHANGED <<file, population>>

DrawStratified(n, rank) ==
    /\ file.at = "published" /\ n <= Size /\ sample = NoSample
    /\ \E favoured \in Favoured(n) :
          sample' = [stratified |-> TRUE, size |-> n, rank |-> rank, at |-> "drawn",
                     keys |-> Stratified(n, rank, favoured)]
    /\ UNCHANGED <<file, population>>

SamplingNext ==
    \/ \E f \in Formats : ReadFile(f)
    \/ \E line \in [id : Ids, stratum : Strata] \union {Blank} : ReadLine(line)
    \/ PublishFile
    \/ \E n \in 0..(MaxImport + 1), rank \in SeedOrders : Draw(n, rank) \/ DrawStratified(n, rank)

SamplingSpec == SamplingInit /\ [][SamplingNext]_samplingVars

-----------------------------------------------------------------------------
(* Properties *)

Share(label) == Cardinality(sample.keys \intersect Stratum(label))

\* A file is published whole, one record for each line that holds one; a sample of
\* it has exactly the size asked for, a stratified one also gives every stratum its
\* share, rounded one way or the other and never more than it has, and within a
\* stratum, or the whole, the keys a seed puts first: a larger plain sample contains
\* every smaller one.
SamplesExact ==
    /\ file.at = "published" => Size = Cardinality(Filled)
    /\ sample.at = "drawn" =>
          /\ sample.keys \subseteq DOMAIN population
          /\ Cardinality(sample.keys) = sample.size
          /\ sample.stratified =>
                \A a \in StrataHeld :
                    /\ Size * Share(a) < sample.size * Cardinality(Stratum(a)) + Size
                    /\ sample.size * Cardinality(Stratum(a)) < Size * Share(a) + Size
          /\ \A k \in sample.keys, l \in DOMAIN population :
                /\ ~sample.stratified \/ population[k] = population[l]
                /\ sample.rank[l] < sample.rank[k]
                => l \in sample.keys
=============================================================================
