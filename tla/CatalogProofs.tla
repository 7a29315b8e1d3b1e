---------------------------- MODULE CatalogProofs ----------------------------
(***************************************************************************)
(* What an answer to a creation is worth, for any number of racing         *)
(* creations, slugs and callers.  Rows are never removed, so a slug seen   *)
(* stays held and a project stored stays stored; and no two creations take *)
(* the same identifier, so a row that holds the slug of a creation that is *)
(* not stored is another's.                                                *)
(* What publications leave, for any number of racing publishers and        *)
(* requests of any length: whoever has a number holds the dataset's lock,  *)
(* so the number is still the next one when its version is stored.  What   *)
(* a client reads page by page; and what samples of a version contain.     *)
(***************************************************************************)
EXTENDS Catalog, Publication, Sampling, Counting, SequenceTheorems

\* The creations refused before they take an identifier.
Unnamed == {"new", "404", "422"}

RowOf(c) ==
    [id |-> creation[c].id, kind |-> creation[c].kind, home |-> creation[c].home,
     slug |-> creation[c].slug]

\* No two creations have the same identifier.
IdsApart ==
    \A c, d \in Creations :
        c # d /\ creation[c].at \notin Unnamed /\ creation[d].at \notin Unnamed
            => creation[c].id # creation[d].id

\* The slug a creation saw when it was asked is still held, and its project, if it was
\* stored then, is still stored.
SeenIsHeld ==
    \A c \in Creations :
        /\ creation[c].seen => Exists(creation[c].kind, creation[c].home, creation[c].slug)
        /\ creation[c].known => HomeStored(creation[c].kind, creation[c].home)

Creation ==
    [at : Unnamed \union {"named", "409", "201", "stored", "displaced", "died"},
     kind : Kinds, home : {Organisation} \union Projects, slug : Slugs \union {BadSlug},
     id : {0} \union (1..MaxId), seen : BOOLEAN, known : BOOLEAN, fits : BOOLEAN]

CatalogInv ==
    /\ creation \in [Creations -> Creation]
    /\ IdsApart
    /\ SeenIsHeld
    /\ CreationsTold

-----------------------------------------------------------------------------
(* Steps *)

\* A creation moves on, and the rows stay.
Moves(c, new) == table' = table /\ creation' = [creation EXCEPT ![c] = new]

\* Another row holds the slug of a creation that was refused or displaced for it.
Told(x) ==
    \/ x.at = "409"
    \/ x.at = "displaced" /\ x.known /\ x.fits
    => \E row \in table :
          /\ row.kind = x.kind /\ row.home = x.home
          /\ row.slug = x.slug /\ row.id # x.id

\* A step that stores nothing keeps the invariant, if what it makes of the creation
\* is right.
LEMMA MoveKeeps ==
    ASSUME CatalogInv, NEW c \in Creations, NEW new \in Creation, Moves(c, new),
           creation[c].at # "stored", new.at # "stored",
           \/ new.at \in Unnamed
           \/ new.id = creation[c].id /\ creation[c].at \notin Unnamed
           \/ \A d \in Creations : creation[d].id # new.id,
           new.seen => Exists(new.kind, new.home, new.slug) /\ new.at \notin {"201", "displaced"},
           new.known => HomeStored(new.kind, new.home),
           new.at = "409" \/ (new.at = "displaced" /\ new.known /\ new.fits) =>
              /\ Exists(new.kind, new.home, new.slug)
              /\ new.id = creation[c].id /\ creation[c].at \notin Unnamed
    PROVE  CatalogInv'
  <1>0. /\ IdsApart /\ SeenIsHeld /\ CreationsTold
        /\ table' = table /\ creation' \in [Creations -> Creation]
        /\ creation'[c] = new
        /\ \A d \in Creations \ {c} : creation'[d] = creation[d]
    BY DEF CatalogInv, Moves
  <1>1. IdsApart'
    BY <1>0 DEF IdsApart
  <1>2. SeenIsHeld'
    BY <1>0 DEF SeenIsHeld, Exists, HomeStored
  <1>3. (table = {RowOf(d) : d \in {e \in Creations : creation[e].at = "stored"}})'
    <2>1. table = {RowOf(d) : d \in {e \in Creations : creation[e].at = "stored"}}
      BY <1>0 DEF CreationsTold, RowOf
    <2>2. \A d \in Creations : creation'[d].at = "stored" <=> creation[d].at = "stored"
      BY <1>0
    <2>3. \A d \in Creations : creation[d].at = "stored" => creation'[d] = creation[d]
      BY <1>0
    <2> QED
      BY <1>0, <2>1, <2>2, <2>3 DEF RowOf
  <1>4. /\ \A row, other \in table :
              row.kind = other.kind /\ row.home = other.home /\ row.slug = other.slug
                 => row = other
        /\ \A row \in table : HomeStored(row.kind, row.home)'
    BY <1>0 DEF CreationsTold, HomeStored
  <1>5. \A d \in Creations : Told(creation'[d])
    <2>1. Told(new)
      <3> SUFFICES ASSUME new.at = "409" \/ (new.at = "displaced" /\ new.known /\ new.fits)
                   PROVE  \E row \in table : /\ row.kind = new.kind /\ row.home = new.home
                                             /\ row.slug = new.slug /\ row.id # new.id
        BY DEF Told
      <3>1. PICK row \in table : row.kind = new.kind /\ row.home = new.home /\ row.slug = new.slug
        BY DEF Exists
      <3>2. PICK e \in Creations : creation[e].at = "stored" /\ row = RowOf(e)
        BY <1>0 DEF CreationsTold, RowOf
      <3>3. row.id = creation[e].id /\ e # c
        BY <3>2 DEF RowOf
      <3>4. new.id = creation[c].id /\ creation[c].at \notin Unnamed
        OBVIOUS
      <3>5. creation[e].id # creation[c].id
        BY <1>0, <3>2, <3>3, <3>4 DEF IdsApart, Unnamed
      <3> QED
        BY <3>1, <3>3, <3>4, <3>5
    <2>2. \A d \in Creations : Told(creation[d])
      BY <1>0, Zenon DEF CreationsTold, Told
    <2> QED
      BY <1>0, <2>1, <2>2
  <1>6. \A d \in Creations :
           /\ creation'[d].at \in {"201", "stored", "displaced"} => ~creation'[d].seen
           /\ creation'[d].at = "stored" => creation'[d].fits
    BY <1>0 DEF CreationsTold
  <1>7. CreationsTold'
    <2>1. \A d \in Creations : Told(creation[d])'
      BY <1>0, <1>5 DEF Told
    <2> QED
      BY <1>0, <1>3, <1>4, <1>6, <2>1, Zenon DEF CreationsTold, RowOf, Told
  <1> QED
    BY <1>0, <1>1, <1>2, <1>7 DEF CatalogInv

\* A creation that is stored adds its row, whose slug nobody held.
LEMMA StoreKeeps ==
    ASSUME CatalogInv, NEW c \in Creations, creation[c].at = "201", Accepted(c),
           table' = table \union {RowOf(c)},
           creation' = [creation EXCEPT ![c].at = "stored"]
    PROVE  CatalogInv'
  <1> DEFINE new == [creation[c] EXCEPT !.at = "stored"]
  <1>1. /\ new.at = "stored" /\ new.id = creation[c].id /\ new.kind = creation[c].kind
        /\ new.slug = creation[c].slug /\ new.seen = creation[c].seen
        /\ new.home = creation[c].home /\ new.known = creation[c].known
        /\ new.fits = creation[c].fits /\ new \in Creation
    BY DEF CatalogInv, Creation
  <1>2. creation' = [creation EXCEPT ![c] = new]
    OBVIOUS
  <1> HIDE DEF new
  <1>3. /\ IdsApart /\ SeenIsHeld /\ CreationsTold
        /\ creation' \in [Creations -> Creation] /\ creation'[c] = new
        /\ \A d \in Creations \ {c} : creation'[d] = creation[d]
    BY <1>1, <1>2 DEF CatalogInv
  <1>4. IdsApart'
    BY <1>1, <1>3 DEF IdsApart, Unnamed
  <1>5. /\ \A kind, home, slug : Exists(kind, home, slug) => Exists(kind, home, slug)'
        /\ \A kind, home : HomeStored(kind, home) => HomeStored(kind, home)'
    BY DEF Exists, HomeStored
  <1>6. SeenIsHeld'
    BY <1>1, <1>3, <1>5 DEF SeenIsHeld, Exists, HomeStored
  <1>7. (table = {RowOf(d) : d \in {e \in Creations : creation[e].at = "stored"}})'
    <2>1. table = {RowOf(d) : d \in {e \in Creations : creation[e].at = "stored"}}
      BY <1>3 DEF CreationsTold, RowOf
    <2>2. \A d \in Creations : creation'[d].at = "stored" <=> (creation[d].at = "stored" \/ d = c)
      BY <1>1, <1>3
    <2>3. \A d \in Creations : RowOf(d)' = RowOf(d)
      BY <1>1, <1>3 DEF RowOf
    <2> QED
      BY <2>1, <2>2, <2>3
  <1>8. /\ \A row, other \in table' :
              row.kind = other.kind /\ row.home = other.home /\ row.slug = other.slug
                 => row = other
        /\ \A row \in table' : HomeStored(row.kind, row.home)'
    <2>1. /\ RowOf(c).kind = creation[c].kind /\ RowOf(c).slug = creation[c].slug
          /\ RowOf(c).home = creation[c].home
      BY DEF RowOf
    <2>2. \A row \in table : ~(/\ row.kind = RowOf(c).kind /\ row.home = RowOf(c).home
                               /\ row.slug = RowOf(c).slug)
      BY <2>1 DEF Accepted, SlugSeen, Exists
    <2>3. \A row \in table' : HomeStored(row.kind, row.home)
      BY <1>3, <2>1 DEF CreationsTold, Accepted
    <2> QED
      BY <1>3, <1>5, <2>2, <2>3 DEF CreationsTold
  <1>9. \A d \in Creations :
           /\ \/ creation'[d].at = "409"
              \/ creation'[d].at = "displaced" /\ creation'[d].known /\ creation'[d].fits
              => \E row \in table' :
                    /\ row.kind = creation'[d].kind /\ row.home = creation'[d].home
                    /\ row.slug = creation'[d].slug /\ row.id # creation'[d].id
           /\ creation'[d].at \in {"201", "stored", "displaced"} => ~creation'[d].seen
           /\ creation'[d].at = "stored" => creation'[d].fits
    BY <1>1, <1>3 DEF CreationsTold, Accepted
  <1>10. CreationsTold'
    BY <1>7, <1>8, <1>9 DEF CreationsTold, RowOf
  <1> QED
    BY <1>3, <1>4, <1>6, <1>10 DEF CatalogInv

\* Every step of the catalog.
LEMMA CatalogStep == CatalogInv /\ [CatalogNext]_catalogVars => CatalogInv'
  <1> SUFFICES ASSUME CatalogInv, [CatalogNext]_catalogVars PROVE CatalogInv'
    OBVIOUS
  <1>1. ASSUME UNCHANGED <<table, creation>>
        PROVE  CatalogInv'
    BY <1>1 DEF CatalogInv, IdsApart, SeenIsHeld, CreationsTold, Exists, HomeStored
  <1>2. ASSUME NEW c \in Creations, NEW p \in Principals, NEW k \in Kinds, NEW s \in Slugs,
               NEW fits \in BOOLEAN, NEW home \in Homes(k), Request(c, p, k, home, s, fits)
        PROVE  CatalogInv'
    <2>1. creation[c].at = "new" /\ table' = table
      BY <1>2 DEF Request
    <2>2. ASSUME NEW status \in {"404", "422"}, Refuse4xx(c, status)
          PROVE  CatalogInv'
      <3> DEFINE new == [NoCreation EXCEPT !.at = status]
      <3>1. new \in Creation /\ new.at = status /\ ~new.seen /\ ~new.known
        BY DEF NoCreation, Creation, Unnamed, Kinds
      <3>2. Moves(c, new)
        BY <2>1, <2>2 DEF Refuse4xx, Moves
      <3> HIDE DEF new
      <3> QED
        BY <2>1, <3>1, <3>2, MoveKeeps DEF Unnamed
    <2>3. ASSUME NEW id \in (1..MaxId) \ Taken,
                 creation' = [creation EXCEPT ![c] =
                    [at |-> "named", kind |-> k, home |-> home, slug |-> Normal[s], id |-> id,
                     seen |-> Exists(k, home, Normal[s]), known |-> HomeStored(k, home),
                     fits |-> fits]]
          PROVE  CatalogInv'
      <3> DEFINE new == [at |-> "named", kind |-> k, home |-> home, slug |-> Normal[s], id |-> id,
                         seen |-> Exists(k, home, Normal[s]), known |-> HomeStored(k, home),
                         fits |-> fits]
      <3>1. Normal[s] \in Slugs \union {BadSlug}
        BY CatalogAssumption
      <3>2. /\ Exists(k, home, Normal[s]) \in BOOLEAN /\ HomeStored(k, home) \in BOOLEAN
            /\ home \in {Organisation} \union Projects
        BY DEF Exists, HomeStored, Homes
      <3>3. new \in Creation
        BY <3>1, <3>2 DEF Creation
      <3>4. /\ new.at = "named" /\ (new.seen => Exists(new.kind, new.home, new.slug))
            /\ new.known => HomeStored(new.kind, new.home)
        OBVIOUS
      <3>5. \A d \in Creations : creation[d].id # new.id
        BY DEF Taken
      <3>6. Moves(c, new)
        BY <2>1, <2>3 DEF Moves
      <3> HIDE DEF new
      <3> QED
        BY <2>1, <3>3, <3>4, <3>5, <3>6, MoveKeeps
    <2> QED
      BY <1>2, <2>2, <2>3 DEF Request
  <1>3. ASSUME NEW c \in Creations, TestSlug(c)
        PROVE  CatalogInv'
    <2> DEFINE place == IF SlugSeen(c) THEN "409" ELSE "201"
               new == [creation[c] EXCEPT !.at = place]
    <2>1. creation[c].at = "named" /\ Moves(c, new)
      BY <1>3 DEF TestSlug, Moves
    <2>2. /\ new \in Creation /\ new.at = place /\ new.id = creation[c].id
          /\ new.kind = creation[c].kind /\ new.slug = creation[c].slug
          /\ new.seen = creation[c].seen /\ new.home = creation[c].home
          /\ new.known = creation[c].known
      BY DEF CatalogInv, Creation
    <2> HIDE DEF new
    <2>3. /\ new.seen => Exists(new.kind, new.home, new.slug) /\ place = "409"
          /\ new.known => HomeStored(new.kind, new.home)
      BY <2>2 DEF CatalogInv, SeenIsHeld, SlugSeen
    <2>4. place = "409" => Exists(new.kind, new.home, new.slug)
      BY <2>2 DEF SlugSeen
    <2>5. place \in {"409", "201"} /\ creation[c].at \notin Unnamed
      BY <2>1 DEF Unnamed
    <2> HIDE DEF place
    <2> QED
      BY <2>1, <2>2, <2>3, <2>4, <2>5, MoveKeeps
  <1>4. ASSUME NEW c \in Creations, CommitCreation(c)
        PROVE  CatalogInv'
    <2>1. creation[c].at = "201"
      BY <1>4 DEF CommitCreation
    <2>2. CASE Accepted(c)
      BY <1>4, <2>1, <2>2, StoreKeeps DEF CommitCreation, RowOf
    <2>3. CASE ~Accepted(c)
      <3> DEFINE new == [creation[c] EXCEPT !.at = "displaced"]
      <3>1. Moves(c, new)
        BY <1>4, <2>3 DEF CommitCreation, Moves
      <3>2. /\ new \in Creation /\ new.at = "displaced" /\ new.id = creation[c].id
            /\ new.kind = creation[c].kind /\ new.slug = creation[c].slug
            /\ new.seen = creation[c].seen /\ new.home = creation[c].home
            /\ new.known = creation[c].known /\ new.fits = creation[c].fits
        BY DEF CatalogInv, Creation
      <3> HIDE DEF new
      <3>3. /\ ~new.seen /\ (new.known => HomeStored(new.kind, new.home))
            /\ new.known /\ new.fits => Exists(new.kind, new.home, new.slug)
        BY <2>1, <2>3, <3>2 DEF CatalogInv, CreationsTold, SeenIsHeld, Accepted, SlugSeen
      <3>4. creation[c].at \notin Unnamed
        BY <2>1 DEF Unnamed
      <3> QED
        BY <2>1, <3>1, <3>2, <3>3, <3>4, MoveKeeps
    <2> QED
      BY <2>2, <2>3
  <1>5. ASSUME NEW c \in Creations, CreationDies(c)
        PROVE  CatalogInv'
    <2> DEFINE new == [NoCreation EXCEPT !.at = "died", !.id = creation[c].id]
    <2>1. creation[c].at \in {"named", "201"} /\ Moves(c, new)
      BY <1>5 DEF CreationDies, Moves
    <2>2. creation[c].id \in {0} \union (1..MaxId)
      BY DEF CatalogInv, Creation
    <2>3. new \in Creation /\ new.at = "died" /\ new.id = creation[c].id /\ ~new.seen /\ ~new.known
      BY <2>2 DEF NoCreation, Creation, Kinds
    <2> HIDE DEF new
    <2>4. creation[c].at \notin Unnamed
      BY <2>1 DEF Unnamed
    <2> QED
      BY <2>1, <2>3, <2>4, MoveKeeps
  <1>6. ASSUME NEW r \in Readers,
               \/ ReadFails(r) \/ \E limit \in PageLimits : ReadPage(r, limit)
               \/ \E k \in Kinds : \E home \in Homes(k) : StartReading(r, k, home)
               \/ \E keys \in Versions : StartRecords(r, keys)
        PROVE  CatalogInv'
    <2>1. UNCHANGED <<table, creation>>
      BY <1>6 DEF ReadPage, ReadFails, StartReading, StartRecords
    <2> QED
      BY <1>1, <2>1
  <1>7. CASE UNCHANGED catalogVars
    <2>1. UNCHANGED <<table, creation>>
      BY <1>7 DEF catalogVars
    <2> QED
      BY <1>1, <2>1
  <1> QED
    BY <1>2, <1>3, <1>4, <1>5, <1>6, <1>7 DEF CatalogNext

-----------------------------------------------------------------------------
(* The theorem *)

\* CatalogInv is inductive.
LEMMA CatalogHolds == CatalogSpec => []CatalogInv
  <1>1. CatalogInit => CatalogInv
    <2> SUFFICES ASSUME CatalogInit PROVE CatalogInv
      OBVIOUS
    <2>1. table = {} /\ creation = [c \in Creations |-> NoCreation]
      BY DEF CatalogInit
    <2>2. /\ NoCreation \in Creation /\ NoCreation.at = "new" /\ ~NoCreation.seen /\ ~NoCreation.known
      BY DEF NoCreation, Creation, Unnamed, Kinds
    <2>3. \A c \in Creations : creation[c].at = "new" /\ ~creation[c].seen /\ ~creation[c].known
      BY <2>1, <2>2
    <2>4. creation \in [Creations -> Creation]
      BY <2>1, <2>2
    <2>5. IdsApart /\ SeenIsHeld /\ CreationsTold
      BY <2>1, <2>3 DEF IdsApart, SeenIsHeld, CreationsTold, Unnamed
    <2> QED
      BY <2>4, <2>5 DEF CatalogInv
  <1>2. CatalogInv /\ [CatalogNext]_catalogVars => CatalogInv'
    BY CatalogStep
  <1> QED
    BY <1>1, <1>2, PTL DEF CatalogSpec

\* ProjectService.create, create_dataset and the dependency that commits after the
\* answer: rows are the creations stored, one for a slug of a home, and the project of
\* each dataset is stored; a creation is refused only for another's row, and displaced
\* only for one, for a project that was not stored when it was asked, or for values its
\* columns do not hold; and none is told 201 for a slug held when it was asked, whatever
\* creations race for whatever slugs and whoever is lost.
THEOREM CreationsAreTold == CatalogSpec => []CreationsTold
  <1>1. CatalogInv => CreationsTold
    BY DEF CatalogInv
  <1> QED
    BY <1>1, CatalogHolds, PTL

-----------------------------------------------------------------------------
(* Publication *)

UniqueKeys(v) == \A r, s \in v.records : r.key = s.key => r = s

\* A request that has been validated, and, once it has its number, is alone in
\* having one: the next.
JobFits(p) ==
    /\ job[p].at \in {"prepared", "numbered"} => ~Invalid(job[p].rows)
    /\ job[p].at = "numbered" =>
          /\ job[p].number = Cardinality(versions) + 1
          /\ \A q \in Publishers \ {p} : job[q].at # "numbered"

PublicationInv ==
    /\ PublicationTypeOK
    /\ IsFiniteSet(versions)
    /\ \A p \in Publishers : JobFits(p)
    /\ \A v \in versions : UniqueKeys(v)
    /\ PublicationsAreSerial
    /\ VersionsAreWhole

\* A function without repetitions has as many values as arguments.
LEMMA ImageCounts ==
    ASSUME NEW n \in Nat, NEW f, DOMAIN f = 1..n,
           \A i, j \in 1..n : f[i] = f[j] => i = j
    PROVE  Cardinality({f[i] : i \in 1..n}) = n
  <1> DEFINE S == {f[i] : i \in 1..n}
             g == [i \in 1..n |-> f[i]]
  <1>1. g \in Surjection(1..n, S)
    BY DEF Surjection
  <1>2. g \in Injection(1..n, S)
    BY DEF Injection, IsInjective
  <1>3. IsFiniteSet(1..n) /\ Cardinality(1..n) = n
    BY FS_Interval
  <1> HIDE DEF S, g
  <1>4. Cardinality(S) = n
    BY <1>1, <1>2, <1>3, FS_Surjection
  <1> QED
    BY <1>4 DEF S

\* The number read under the lock is the one after the last.
LEMMA NextIsNext ==
    ASSUME NEW n \in Nat, {v.number : v \in versions} = 1..n
    PROVE  NextNumber = n + 1
  <1>1. {v.number : v \in versions} \union {0} = 0..n
    OBVIOUS
  <1>2. Max(0..n) = n
    <2>1. n \in 0..n /\ \A y \in 0..n : n >= y
      OBVIOUS
    <2>2. ASSUME NEW x \in 0..n, \A y \in 0..n : x >= y
          PROVE  x = n
      BY <2>1, <2>2
    <2> QED
      BY <2>1, <2>2 DEF Max
  <1> QED
    BY <1>1, <1>2 DEF NextNumber

\* Normalising twice is normalising once.
LEMMA TextAgain == ASSUME NEW raw PROVE Text(Text(raw)) = Text(raw)
  BY DEF Text

\* A request that validation refuses was not acceptable.
LEMMA InvalidIsNot ==
    ASSUME NEW rows, Invalid(rows), DOMAIN rows \subseteq Nat
    PROVE  ~Acceptable(rows)
  <1>1. CASE RepeatsKey(rows)
    <2>1. PICK i, j \in DOMAIN rows : i < j /\ rows[j].raw = Text(rows[i].raw)
      BY <1>1 DEF RepeatsKey
    <2>2. Text(rows[j].raw) = Text(rows[i].raw) /\ i # j
      BY <2>1, TextAgain
    <2> QED
      BY <2>2 DEF Acceptable
  <1> QED
    BY <1>1 DEF Invalid, Acceptable

\* The records built from a validated request are as many as its rows, and have
\* as many keys, if no two have the same.
LEMMA BuiltIsWhole ==
    ASSUME NEW n \in Nat, NEW rows \in [1..n -> SourceRows],
           NEW v, v.records = Built(rows), UniqueKeys(v), ~Invalid(rows)
    PROVE  /\ Acceptable(rows)
           /\ Len(rows) = n
           /\ Cardinality(v.records) = n /\ Cardinality(Keys(v)) = n
           /\ v.records # {}
  <1> DEFINE made == [i \in 1..n |-> [key |-> Text(rows[i].raw), payload |-> rows[i].payload,
                                     labels |-> rows[i].labels, row |-> i]]
             keyed == [i \in 1..n |-> Text(rows[i].raw)]
  <1>1. DOMAIN rows = 1..n /\ Len(rows) = n
    OBVIOUS
  <1>2. v.records = {made[i] : i \in 1..n}
    BY <1>1 DEF Built
  <1>3. Keys(v) = {keyed[i] : i \in 1..n}
    <2>1. \A i \in 1..n : made[i].key = keyed[i]
      OBVIOUS
    <2> HIDE DEF made, keyed
    <2>2. \A k : k \in Keys(v) <=> \E r \in v.records : k = r.key
      BY DEF Keys
    <2>3. \A r : r \in v.records <=> \E i \in 1..n : r = made[i]
      BY <1>2
    <2>4. \A k : k \in Keys(v) <=> \E i \in 1..n : k = keyed[i]
      BY <2>1, <2>2, <2>3
    <2> QED
      BY <2>4
  <1>4. \A i, j \in 1..n : keyed[i] = keyed[j] => i = j
    <2>1. ASSUME NEW i \in 1..n, NEW j \in 1..n, keyed[i] = keyed[j] PROVE i = j
      <3>1. made[i] \in v.records /\ made[j] \in v.records /\ made[i].key = made[j].key
        BY <1>2, <2>1
      <3>2. made[i] = made[j]
        BY <3>1 DEF UniqueKeys
      <3>3. made[i].row = i /\ made[j].row = j
        OBVIOUS
      <3> QED
        BY <3>2, <3>3
    <2> QED
      BY <2>1
  <1>5. \A i, j \in 1..n : made[i] = made[j] => i = j
    <2>1. ASSUME NEW i \in 1..n, NEW j \in 1..n, made[i] = made[j] PROVE i = j
      <3>1. made[i].row = i /\ made[j].row = j
        OBVIOUS
      <3> QED
        BY <2>1, <3>1
    <2> QED
      BY <2>1
  <1>6. DOMAIN made = 1..n /\ DOMAIN keyed = 1..n
    OBVIOUS
  <1>7. Acceptable(rows)
    BY <1>1, <1>4 DEF Acceptable, Invalid
  <1>8. n # 0
    BY <1>1 DEF Invalid
  <1>9. v.records # {}
    <2> HIDE DEF made
    <2>1. 1 \in 1..n
      BY <1>8
    <2>2. made[1] \in v.records
      BY <1>2, <2>1
    <2> QED
      BY <2>2
  <1> HIDE DEF made, keyed
  <1>10. Cardinality(v.records) = n
    BY <1>2, <1>5, <1>6, ImageCounts
  <1>11. Cardinality(Keys(v)) = n
    BY <1>3, <1>4, <1>6, ImageCounts
  <1> QED
    BY <1>1, <1>7, <1>9, <1>10, <1>11

JobRow == [at : Stages, rows : Requests, number : Nat]

\* A request moves on and stores nothing.
LEMMA JobMoves ==
    ASSUME PublicationInv, NEW p \in Publishers, NEW new \in JobRow,
           job' = [job EXCEPT ![p] = new], versions' = versions,
           job[p].at # "published", new.at # "published",
           new.at \in {"prepared", "numbered"} => ~Invalid(new.rows),
           new.at = "numbered" =>
              /\ new.number = Cardinality(versions) + 1
              /\ \A q \in Publishers \ {p} : job[q].at # "numbered",
           new.at = "refused" => ~Acceptable(new.rows)
    PROVE  PublicationInv'
  <1>1. /\ PublicationTypeOK /\ PublicationsAreSerial /\ VersionsAreWhole
        /\ \A q \in Publishers : JobFits(q)
    BY DEF PublicationInv
  <1>2. /\ job' \in [Publishers -> JobRow] /\ job'[p] = new
        /\ \A q \in Publishers \ {p} : job'[q] = job[q]
    BY <1>1 DEF PublicationTypeOK, JobRow
  <1>3. PublicationTypeOK'
    BY <1>1, <1>2 DEF PublicationTypeOK, JobRow
  <1>4. \A q \in Publishers : JobFits(q)'
    <2>1. JobFits(p)'
      BY <1>2 DEF JobFits
    <2>2. ASSUME NEW q \in Publishers \ {p} PROVE JobFits(q)'
      <3>1. JobFits(q) /\ job'[q] = job[q]
        BY <1>1, <1>2
      <3> QED
        BY <1>2, <3>1 DEF JobFits
    <2> QED
      BY <2>1, <2>2
  <1>5. PublicationsAreSerial'
    BY <1>1, <1>2 DEF PublicationsAreSerial
  <1>6. VersionsAreWhole'
    <2>1. ASSUME NEW v \in versions
          PROVE  \E q \in Publishers :
                    /\ job'[q].at = "published" /\ Acceptable(job'[q].rows)
                    /\ job'[q].number = v.number
                    /\ Cardinality(v.records) = Cardinality(Keys(v))
                    /\ Cardinality(v.records) = Len(job'[q].rows)
      <3>1. PICK q \in Publishers :
                    /\ job[q].at = "published" /\ Acceptable(job[q].rows)
                    /\ job[q].number = v.number
                    /\ Cardinality(v.records) = Cardinality(Keys(v))
                    /\ Cardinality(v.records) = Len(job[q].rows)
        BY <1>1 DEF VersionsAreWhole
      <3>2. job'[q] = job[q]
        BY <1>2, <3>1
      <3> QED
        BY <3>1, <3>2
    <2> QED
      BY <2>1 DEF VersionsAreWhole
  <1> QED
    BY <1>3, <1>4, <1>5, <1>6 DEF PublicationInv

\* The version of the request that holds the lock is stored under the next number.
LEMMA VersionStored ==
    ASSUME PublicationInv, NEW p \in Publishers, NEW v,
           v = [number |-> job[p].number, records |-> Built(job[p].rows)],
           job[p].at = "numbered", ConstraintsHold(v),
           versions' = versions \union {v}, job' = [job EXCEPT ![p].at = "published"]
    PROVE  PublicationInv'
  <1>1. /\ PublicationTypeOK /\ PublicationsAreSerial /\ VersionsAreWhole
        /\ \A q \in Publishers : JobFits(q)
        /\ IsFiniteSet(versions) /\ \A u \in versions : UniqueKeys(u)
    BY DEF PublicationInv
  <1>2. /\ job \in [Publishers -> JobRow] /\ job[p] \in JobRow
        /\ job'[p] = [job[p] EXCEPT !.at = "published"]
        /\ \A q \in Publishers \ {p} : job'[q] = job[q]
    BY <1>1 DEF PublicationTypeOK, JobRow
  <1>3. /\ job'[p].at = "published" /\ job'[p].rows = job[p].rows
        /\ job'[p].number = job[p].number /\ job'[p] \in JobRow
    BY <1>2 DEF JobRow, Stages
  <1>4. PICK n \in Nat : job[p].rows \in [1..n -> SourceRows]
    BY <1>2 DEF JobRow, Requests
  <1>5. /\ v.number = job[p].number /\ v.records = Built(job[p].rows)
        /\ UniqueKeys(v) /\ \A u \in versions : u.number # v.number
    BY DEF ConstraintsHold, UniqueKeys
  <1>6. /\ ~Invalid(job[p].rows) /\ job[p].number = Cardinality(versions) + 1
        /\ \A q \in Publishers \ {p} : job[q].at # "numbered"
    BY <1>1 DEF JobFits
  <1>7. /\ Acceptable(job[p].rows) /\ Len(job[p].rows) = n
        /\ Cardinality(v.records) = n /\ Cardinality(Keys(v)) = n
        /\ v.records # {}
    BY <1>4, <1>5, <1>6, BuiltIsWhole
  <1>8. /\ IsFiniteSet(versions') /\ Cardinality(versions) \in Nat
        /\ Cardinality(versions') = Cardinality(versions) + 1
    <2>1. v \notin versions
      BY <1>5
    <2> QED
      BY <1>1, <2>1, FS_AddElement, FS_CardinalityType
  <1>9. PublicationTypeOK'
    <2>1. v.number \in Nat \ {0}
      BY <1>5, <1>6, <1>8
    <2>2. job' \in [Publishers -> JobRow]
      BY <1>2, <1>3
    <2> QED
      BY <1>1, <1>7, <2>1, <2>2 DEF PublicationTypeOK, JobRow
  <1>10. \A q \in Publishers : JobFits(q)'
    BY <1>1, <1>2, <1>3, <1>6 DEF JobFits
  <1>11. \A u \in versions' : UniqueKeys(u)
    BY <1>1, <1>5
  <1>12. PublicationsAreSerial'
    <2>1. {u.number : u \in versions'} = {u.number : u \in versions} \union {v.number}
      OBVIOUS
    <2>2. {u.number : u \in versions} = 1..Cardinality(versions)
      BY <1>1 DEF PublicationsAreSerial
    <2>3. {u.number : u \in versions'} = 1..Cardinality(versions')
      BY <1>5, <1>6, <1>8, <2>1, <2>2
    <2>4. \A q \in Publishers : job'[q].at = "refused" => ~Acceptable(job'[q].rows)
      BY <1>1, <1>2, <1>3 DEF PublicationsAreSerial
    <2> QED
      BY <2>3, <2>4 DEF PublicationsAreSerial
  <1>13. VersionsAreWhole'
    <2>1. ASSUME NEW u \in versions
          PROVE  \E q \in Publishers :
                    /\ job'[q].at = "published" /\ Acceptable(job'[q].rows)
                    /\ job'[q].number = u.number
                    /\ Cardinality(u.records) = Cardinality(Keys(u))
                    /\ Cardinality(u.records) = Len(job'[q].rows)
      <3>1. PICK q \in Publishers :
                    /\ job[q].at = "published" /\ Acceptable(job[q].rows)
                    /\ job[q].number = u.number
                    /\ Cardinality(u.records) = Cardinality(Keys(u))
                    /\ Cardinality(u.records) = Len(job[q].rows)
        BY <1>1 DEF VersionsAreWhole
      <3>2. job'[q] = job[q]
        BY <1>2, <3>1
      <3> QED
        BY <3>1, <3>2
    <2>2. /\ job'[p].at = "published" /\ Acceptable(job'[p].rows)
          /\ job'[p].number = v.number
          /\ Cardinality(v.records) = Cardinality(Keys(v))
          /\ Cardinality(v.records) = Len(job'[p].rows)
      BY <1>3, <1>5, <1>7
    <2> QED
      BY <2>1, <2>2 DEF VersionsAreWhole
  <1> QED
    BY <1>8, <1>9, <1>10, <1>11, <1>12, <1>13 DEF PublicationInv

\* A constraint refuses only a request that names one record twice.
LEMMA RefusedForItself ==
    ASSUME PublicationInv, NEW p \in Publishers, NEW v,
           v = [number |-> job[p].number, records |-> Built(job[p].rows)],
           job[p].at = "numbered", ~ConstraintsHold(v)
    PROVE  ~Acceptable(job[p].rows)
  <1>1. job[p].number = Cardinality(versions) + 1 /\ Cardinality(versions) \in Nat
    BY FS_CardinalityType DEF PublicationInv, JobFits
  <1>2. {u.number : u \in versions} = 1..Cardinality(versions)
    BY DEF PublicationInv, PublicationsAreSerial
  <1>3. \A u \in versions : u.number # v.number
    BY <1>1, <1>2
  <1>4. PICK r \in v.records, s \in v.records : r.key = s.key /\ r # s
    BY <1>3 DEF ConstraintsHold
  <1>5. PICK i \in DOMAIN job[p].rows : r = [key |-> Text(job[p].rows[i].raw),
              payload |-> job[p].rows[i].payload, labels |-> job[p].rows[i].labels, row |-> i]
    BY DEF Built
  <1>6. PICK j \in DOMAIN job[p].rows : s = [key |-> Text(job[p].rows[j].raw),
              payload |-> job[p].rows[j].payload, labels |-> job[p].rows[j].labels, row |-> j]
    BY DEF Built
  <1>7. i # j /\ Text(job[p].rows[i].raw) = Text(job[p].rows[j].raw)
    BY <1>4, <1>5, <1>6
  <1> QED
    BY <1>7 DEF Acceptable

\* Every step of every publisher keeps what publications leave.
LEMMA PublicationKept ==
    ASSUME PublicationInv, [PublicationNext]_publicationVars
    PROVE  PublicationInv'
  <1>0. /\ PublicationTypeOK /\ PublicationsAreSerial /\ IsFiniteSet(versions)
        /\ \A p \in Publishers : JobFits(p) /\ job[p] \in JobRow
        /\ job \in [Publishers -> JobRow] /\ Cardinality(versions) \in Nat
    BY FS_CardinalityType DEF PublicationInv, PublicationTypeOK, JobRow
  <1>1. ASSUME NEW p \in Publishers, NEW rows \in Requests, Prepare(p, rows)
        PROVE  PublicationInv'
    <2> DEFINE new == [at |-> IF Invalid(rows) THEN "refused" ELSE "prepared",
                       rows |-> rows, number |-> 0]
    <2>1. /\ job' = [job EXCEPT ![p] = new] /\ versions' = versions /\ job[p].at = "idle"
      BY <1>1 DEF Prepare
    <2>2. new \in JobRow /\ new.rows = rows
          /\ new.at = IF Invalid(rows) THEN "refused" ELSE "prepared"
      BY DEF JobRow, Stages
    <2>3. Invalid(rows) => ~Acceptable(rows)
      BY InvalidIsNot DEF Requests
    <2> HIDE DEF new
    <2> QED
      BY <2>1, <2>2, <2>3, JobMoves
  <1>2. ASSUME NEW p \in Publishers, TakeNumber(p) PROVE PublicationInv'
    <2> DEFINE new == [job[p] EXCEPT !.at = "numbered", !.number = NextNumber]
    <2>1. NextNumber = Cardinality(versions) + 1
      BY <1>0, NextIsNext DEF PublicationsAreSerial
    <2>2. /\ job' = [job EXCEPT ![p] = new] /\ versions' = versions /\ job[p].at = "prepared"
          /\ \A q \in Publishers : job[q].at # "numbered"
      BY <1>2 DEF TakeNumber
    <2>3. /\ new \in JobRow /\ new.rows = job[p].rows /\ new.at = "numbered"
          /\ new.number = Cardinality(versions) + 1
      <3>1. new = [job[p] EXCEPT !.at = "numbered", !.number = Cardinality(versions) + 1]
        BY <2>1
      <3>2. job[p] \in JobRow /\ Cardinality(versions) + 1 \in Nat
        BY <1>0
      <3> HIDE DEF new
      <3> QED
        BY <3>1, <3>2 DEF JobRow, Stages
    <2>4. ~Invalid(job[p].rows)
      BY <1>0, <2>2 DEF JobFits
    <2> HIDE DEF new
    <2> QED
      BY <2>2, <2>3, <2>4, JobMoves
  <1>3. ASSUME NEW p \in Publishers, Publish(p) PROVE PublicationInv'
    <2> DEFINE v == [number |-> job[p].number, records |-> Built(job[p].rows)]
    <2>1. CASE /\ ConstraintsHold(v)
               /\ versions' = versions \union {v}
               /\ job' = [job EXCEPT ![p].at = "published"]
      <3>1. job[p].at = "numbered"
        BY <1>3 DEF Publish
      <3> QED
        BY <2>1, <3>1, VersionStored
    <2>2. CASE /\ ~ConstraintsHold(v)
               /\ job' = [job EXCEPT ![p].at = "refused"]
               /\ UNCHANGED versions
      <3> DEFINE new == [job[p] EXCEPT !.at = "refused"]
      <3>1. job[p].at = "numbered"
        BY <1>3 DEF Publish
      <3>2. ~Acceptable(job[p].rows)
        BY <2>2, <3>1, RefusedForItself
      <3>3. new \in JobRow /\ new.rows = job[p].rows /\ new.at = "refused"
        BY <1>0 DEF JobRow, Stages
      <3>4. job' = [job EXCEPT ![p] = new]
        BY <2>2
      <3> HIDE DEF new
      <3> QED
        BY <2>2, <3>1, <3>2, <3>3, <3>4, JobMoves
    <2> QED
      BY <1>3, <2>1, <2>2 DEF Publish
  <1>4. ASSUME NEW p \in Publishers, Lose(p) PROVE PublicationInv'
    <2> DEFINE new == [job[p] EXCEPT !.at = "lost"]
    <2>1. job[p].at # "published" /\ job' = [job EXCEPT ![p] = new] /\ versions' = versions
      BY <1>4 DEF Lose
    <2>2. new \in JobRow /\ new.at = "lost"
      BY <1>0 DEF JobRow, Stages
    <2> HIDE DEF new
    <2> QED
      BY <2>1, <2>2, JobMoves
  <1>5. CASE UNCHANGED publicationVars
    BY <1>5 DEF PublicationInv, PublicationTypeOK, JobFits, PublicationsAreSerial,
                VersionsAreWhole, publicationVars
  <1> QED
    BY <1>1, <1>2, <1>3, <1>4, <1>5 DEF PublicationNext

\* Before the first publication.
LEMMA PublicationStarts == PublicationInit => PublicationInv
  <1> SUFFICES ASSUME PublicationInit PROVE PublicationInv
    OBVIOUS
  <1>1. versions = {} /\ IsFiniteSet(versions) /\ Cardinality(versions) = 0
    BY FS_EmptySet DEF PublicationInit
  <1>2. \A p \in Publishers : job[p] = [at |-> "idle", rows |-> << >>, number |-> 0]
    BY DEF PublicationInit
  <1>3. << >> \in Requests
    <2>1. << >> \in [1..0 -> SourceRows] /\ 0 \in 0..MaxRows
      BY PublicationAssumption
    <2> QED
      BY <2>1 DEF Requests
  <1>4. PublicationTypeOK
    BY <1>1, <1>3 DEF PublicationInit, PublicationTypeOK, Stages
  <1>5. PublicationsAreSerial
    BY <1>1, <1>2 DEF PublicationsAreSerial
  <1> QED
    BY <1>1, <1>2, <1>4, <1>5 DEF PublicationInv, JobFits, VersionsAreWhole

\* Publications happen as if one by one: numbers have no gap, and a request that
\* is fine by itself is never refused because of another one.
THEOREM Serial == PublicationSpec => []PublicationsAreSerial
  <1>1. PublicationInv => PublicationsAreSerial
    BY DEF PublicationInv
  <1> QED
    BY <1>1, PublicationStarts, PublicationKept, PTL DEF PublicationSpec

\* A published version is one acceptable request in full, with no key twice.
THEOREM Whole == PublicationSpec => []VersionsAreWhole
  <1>1. PublicationInv => VersionsAreWhole
    BY DEF PublicationInv
  <1> QED
    BY <1>1, PublicationStarts, PublicationKept, PTL DEF PublicationSpec

-----------------------------------------------------------------------------
(* diff_versions *)

\* The record of a key is the one with that key.
LEMMA RecordFound ==
    ASSUME NEW v, UniqueKeys(v)
    PROVE  /\ \A k \in Keys(v) : RecordOf(v, k) \in v.records /\ RecordOf(v, k).key = k
           /\ \A r \in v.records : r.key \in Keys(v) /\ RecordOf(v, r.key) = r
  <1>1. ASSUME NEW k \in Keys(v) PROVE RecordOf(v, k) \in v.records /\ RecordOf(v, k).key = k
    <2>1. \E r \in v.records : r.key = k
      BY DEF Keys
    <2> QED
      BY <2>1 DEF RecordOf
  <1>2. ASSUME NEW r \in v.records PROVE r.key \in Keys(v) /\ RecordOf(v, r.key) = r
    <2>1. r.key \in Keys(v)
      BY DEF Keys
    <2> QED
      BY <1>1, <2>1 DEF UniqueKeys
  <1> QED
    BY <1>1, <1>2

\* Equal envelopes are of equal key, payload and labels.
LEMMA EnvelopeTells ==
    ASSUME NEW r, NEW s, Envelope(r) = Envelope(s)
    PROVE  r.key = s.key /\ r.payload = s.payload /\ r.labels = s.labels
  BY DEF Envelope

\* What a key becomes, in both directions.
LEMMA KindCases ==
    ASSUME NEW s, NEW t, NEW k \in Keys(s) \union Keys(t)
    PROVE  /\ k \notin Keys(s) => Kind(s, t, k) = "added" /\ Kind(t, s, k) = "removed"
           /\ k \notin Keys(t) => Kind(s, t, k) = "removed" /\ Kind(t, s, k) = "added"
           /\ k \in Keys(s) /\ k \in Keys(t) =>
                 /\ Envelope(RecordOf(s, k)) = Envelope(RecordOf(t, k))
                       => Kind(s, t, k) = "unchanged" /\ Kind(t, s, k) = "unchanged"
                 /\ Envelope(RecordOf(s, k)) # Envelope(RecordOf(t, k))
                       => Kind(s, t, k) = "modified" /\ Kind(t, s, k) = "modified"
  BY DEF Kind

\* The diff of two versions with unique keys, key by key.
LEMMA DiffByKey ==
    ASSUME NEW s, NEW t, UniqueKeys(s), UniqueKeys(t), NEW k \in Keys(s) \union Keys(t)
    PROVE  /\ Kind(s, t, k) = "unchanged" => Changes(s, t, k) = {}
           /\ Kind(s, t, k) \in {"unchanged", "modified"} <=> Kind(s, t, k) = Kind(t, s, k)
           /\ Kind(s, t, k) = "unchanged" <=>
                 /\ k \in Keys(s) /\ k \in Keys(t)
                 /\ Envelope(RecordOf(s, k)) = Envelope(RecordOf(t, k))
  <1>1. Kind(s, t, k) = "unchanged" <=>
          /\ k \in Keys(s) /\ k \in Keys(t)
          /\ Envelope(RecordOf(s, k)) = Envelope(RecordOf(t, k))
    BY KindCases
  <1>2. Kind(s, t, k) \in {"unchanged", "modified"} <=> Kind(s, t, k) = Kind(t, s, k)
    BY KindCases
  <1>3. ASSUME Kind(s, t, k) = "unchanged" PROVE Changes(s, t, k) = {}
    <2>1. /\ RecordOf(s, k).payload = RecordOf(t, k).payload
          /\ RecordOf(s, k).labels = RecordOf(t, k).labels
      BY <1>1, <1>3, EnvelopeTells
    <2> QED
      BY <2>1 DEF Changes
  <1> QED
    BY <1>1, <1>2, <1>3

\* The content hashes of two versions are equal if and only if no record differs.
LEMMA HashesTell ==
    ASSUME NEW s, NEW t, UniqueKeys(s), UniqueKeys(t)
    PROVE  Manifest(s) = Manifest(t)
             <=> \A k \in Keys(s) \union Keys(t) : Kind(s, t, k) = "unchanged"
  <1>1. ASSUME NEW u, NEW v, UniqueKeys(u), UniqueKeys(v), Manifest(u) = Manifest(v),
               NEW k \in Keys(u)
        PROVE  k \in Keys(v) /\ Envelope(RecordOf(u, k)) = Envelope(RecordOf(v, k))
    <2>1. RecordOf(u, k) \in u.records /\ RecordOf(u, k).key = k
      BY <1>1, RecordFound
    <2>2. Envelope(RecordOf(u, k)) \in Manifest(v)
      BY <1>1, <2>1 DEF Manifest
    <2>3. PICK r \in v.records : Envelope(RecordOf(u, k)) = Envelope(r)
      BY <2>2 DEF Manifest
    <2>4. r.key = k
      BY <2>1, <2>3, EnvelopeTells
    <2>5. k \in Keys(v) /\ RecordOf(v, k) = r
      BY <1>1, <2>4, RecordFound
    <2> QED
      BY <2>3, <2>5
  <1>2. ASSUME Manifest(s) = Manifest(t), NEW k \in Keys(s) \union Keys(t)
        PROVE  Kind(s, t, k) = "unchanged"
    <2>1. CASE k \in Keys(s)
      BY <1>1, <1>2, <2>1, KindCases
    <2>2. CASE k \in Keys(t)
      BY <1>1, <1>2, <2>2, KindCases
    <2> QED
      BY <2>1, <2>2
  <1>3. ASSUME NEW u, NEW v, UniqueKeys(u), UniqueKeys(v),
               \A k \in Keys(u) :
                  k \in Keys(v) /\ Envelope(RecordOf(u, k)) = Envelope(RecordOf(v, k))
        PROVE  Manifest(u) \subseteq Manifest(v)
    <2>1. ASSUME NEW r \in u.records PROVE Envelope(r) \in Manifest(v)
      <3>1. r.key \in Keys(u) /\ RecordOf(u, r.key) = r
        BY <1>3, RecordFound
      <3>2. r.key \in Keys(v) /\ Envelope(r) = Envelope(RecordOf(v, r.key))
        BY <1>3, <3>1
      <3>3. RecordOf(v, r.key) \in v.records
        BY <1>3, <3>2, RecordFound
      <3> QED
        BY <3>2, <3>3 DEF Manifest
    <2> QED
      BY <2>1 DEF Manifest
  <1>4. ASSUME \A k \in Keys(s) \union Keys(t) : Kind(s, t, k) = "unchanged"
        PROVE  Manifest(s) = Manifest(t)
    <2>1. \A k \in Keys(s) \union Keys(t) :
              /\ k \in Keys(s) /\ k \in Keys(t)
              /\ Envelope(RecordOf(s, k)) = Envelope(RecordOf(t, k))
      BY <1>4, DiffByKey
    <2>2. Manifest(s) \subseteq Manifest(t)
      BY <1>3, <2>1
    <2>3. Manifest(t) \subseteq Manifest(s)
      BY <1>3, <2>1
    <2> QED
      BY <2>2, <2>3
  <1> QED
    BY <1>2, <1>4

\* The diff of two published versions tells what changed: nothing it calls
\* unchanged has, it reads the same in both directions, and it is empty exactly
\* when the content hashes are equal.
THEOREM DiffTells == PublicationSpec => []DiffTellsChanges
  <1>1. PublicationInv => DiffTellsChanges
    <2> SUFFICES ASSUME PublicationInv, NEW s \in versions, NEW t \in versions
                 PROVE  LET kind == [k \in Keys(s) \union Keys(t) |-> Kind(s, t, k)] IN
                        /\ \A k \in DOMAIN kind :
                              /\ kind[k] = "unchanged" => Changes(s, t, k) = {}
                              /\ kind[k] \in {"unchanged", "modified"} <=> kind[k] = Kind(t, s, k)
                        /\ Manifest(s) = Manifest(t)
                              <=> \A k \in DOMAIN kind : kind[k] = "unchanged"
      BY DEF DiffTellsChanges
    <2> DEFINE kind == [k \in Keys(s) \union Keys(t) |-> Kind(s, t, k)]
    <2>1. DOMAIN kind = Keys(s) \union Keys(t)
          /\ \A k \in Keys(s) \union Keys(t) : kind[k] = Kind(s, t, k)
      OBVIOUS
    <2>2. UniqueKeys(s) /\ UniqueKeys(t)
      BY DEF PublicationInv
    <2>3. \A k \in Keys(s) \union Keys(t) :
              /\ Kind(s, t, k) = "unchanged" => Changes(s, t, k) = {}
              /\ Kind(s, t, k) \in {"unchanged", "modified"} <=> Kind(s, t, k) = Kind(t, s, k)
      BY <2>2, DiffByKey
    <2>4. Manifest(s) = Manifest(t)
            <=> \A k \in Keys(s) \union Keys(t) : Kind(s, t, k) = "unchanged"
      BY <2>2, HashesTell
    <2> HIDE DEF kind
    <2>5. \A k \in DOMAIN kind :
              /\ kind[k] = "unchanged" => Changes(s, t, k) = {}
              /\ kind[k] \in {"unchanged", "modified"} <=> kind[k] = Kind(t, s, k)
      BY <2>1, <2>3
    <2>6. Manifest(s) = Manifest(t) <=> \A k \in DOMAIN kind : kind[k] = "unchanged"
      BY <2>1, <2>4
    <2> QED
      BY <2>5, <2>6 DEF kind
  <1> QED
    BY <1>1, PublicationStarts, PublicationKept, PTL DEF PublicationSpec

-----------------------------------------------------------------------------
(* Pages: a list is read complete and in order, however many rows are      *)
(* stored meanwhile, but for what the database sorts in another order than *)
(* the one in which the cursor cuts.                                       *)

Ascends(s) == \A i, j \in DOMAIN s : i < j => s[i] < s[j]

\* Numbers of which each comes after the smaller ones, but for those misplaced.
Follows(keys, s) ==
    \A i, j \in DOMAIN s : i < j => s[i] < s[j] \/ Misplaced(keys, s[i], s[j])

\* What a list is of.
Source(x) == IF x.kind = "record" THEN ToSet(x.keys) ELSE RowIds(x.kind, x.home)

ReaderRow ==
    [at : {"new", "reading", "done", "failed"}, kind : Kinds \union {"record"},
     home : {Organisation} \union Projects, keys : Versions \union {<<>>},
     after : Nat, got : Seq(Nat), base : SUBSET Nat]

\* Something got is misplaced, the way round that concerns an item got, or one not got.
Strays(x, g) == \E k \in ToSet(x.got) : Misplaced(x.keys, g, k)
Hidden(x, k) == \E g \in ToSet(x.got) : Misplaced(x.keys, g, k)

\* The items got are those up to the cursor, and what was there to begin with is not lost,
\* but for what is misplaced.
ReaderTells(x) ==
    /\ ToSet(x.got) \subseteq Source(x) /\ x.base \subseteq Source(x)
    /\ \A i, j \in DOMAIN x.got : i < j => x.got[i] < x.got[j] \/ Strays(x, x.got[i])
    /\ x.at = "reading" =>
          /\ \A k \in x.base : k <= x.after => k \in ToSet(x.got) \/ Hidden(x, k)
          /\ \A i \in DOMAIN x.got : x.got[i] <= x.after \/ Strays(x, x.got[i])
    /\ x.at = "done" => \A k \in x.base : k \in ToSet(x.got) \/ Hidden(x, k)

TableOK ==
    /\ IsFiniteSet(table) /\ \A row \in table : row.id \in Nat \ {0}
    /\ \A c \in Creations : creation[c].at \in {"named", "201"} => creation[c].id \in Nat \ {0}

PagesInv ==
    /\ TableOK
    /\ reader \in [Readers -> ReaderRow]
    /\ \A r \in Readers : ReaderTells(reader[r])

\* InOrder lists the elements of a set of numbers from the smallest.
LEMMA InOrderSorts ==
    ASSUME NEW S \in SUBSET Nat, IsFiniteSet(S)
    PROVE  /\ Cardinality(S) \in Nat /\ InOrder(S) \in [1..Cardinality(S) -> S]
           /\ Ascends(InOrder(S))
           /\ \A x \in S : \E i \in 1..Cardinality(S) : InOrder(S)[i] = x
<1>. DEFINE n == Cardinality(S)
            s == InOrder(S)
<1>. PICK R : R = BySize(S)
  OBVIOUS
<1>1. /\ Orders(R, S) /\ \A x \in S : Rank(R, S, x) = Cardinality({y \in S : y < x})
      /\ \A x, y \in S : <<x, y>> \in R <=> x < y
  BY NumbersOrdered
<1>2. /\ n \in Nat
      /\ \A x \in S : Rank(R, S, x) \in 0..(n - 1)
      /\ \A x, y \in S : x < y => Rank(R, S, x) < Rank(R, S, y)
      /\ \A m \in 0..(n - 1) : \E x \in S : Rank(R, S, x) = m
  <2>1. n \in Nat /\ \A x \in S : Rank(R, S, x) \in 0..(n - 1)
    BY <1>1, RanksFill
  <2>2. \A x, y \in S : <<x, y>> \in R => Rank(R, S, x) < Rank(R, S, y)
    BY <1>1, RanksFill
  <2>3. \A m \in 0..(n - 1) : \E x \in S : Rank(R, S, x) = m
    <3>1. \A m \in 0..(n - 1) : Placed(R, S, m)
      BY <1>1, RanksFill
    <3>. QED  BY <3>1 DEF Placed
  <2>. QED  BY <1>1, <2>1, <2>2, <2>3
<1>3. ASSUME NEW i \in 1..n PROVE s[i] \in S /\ Rank(R, S, s[i]) = i - 1
  <2>1. \E x \in S : Cardinality({y \in S : y < x}) = i - 1
    <3>1. i - 1 \in 0..(n - 1)
      BY <1>2
    <3>2. PICK x \in S : Rank(R, S, x) = i - 1
      BY <1>2, <3>1
    <3>. QED  BY <1>1, <3>2
  <2>2. s[i] = CHOOSE x \in S : Cardinality({y \in S : y < x}) = i - 1
    BY DEF InOrder, Nth
  <2>3. s[i] \in S /\ Cardinality({y \in S : y < s[i]}) = i - 1
    BY <2>1, <2>2
  <2>. QED  BY <1>1, <2>3
<1>4. s = [i \in 1..n |-> s[i]]
  BY DEF InOrder
<1>. HIDE DEF s
<1>5. s \in [1..n -> S]
  BY <1>3, <1>4
<1>6. Ascends(s)
  <2>. SUFFICES ASSUME NEW i \in 1..n, NEW j \in 1..n, i < j PROVE s[i] < s[j]
    BY <1>5 DEF Ascends
  <2>. PICK x \in S, y \in S : x = s[i] /\ y = s[j] /\ Rank(R, S, x) = i - 1 /\ Rank(R, S, y) = j - 1
    BY <1>3
  <2>1. x # y
    BY <1>2
  <2>2. ~(y < x)
    BY <1>2
  <2>. QED  BY <2>1, <2>2
<1>7. ASSUME NEW x \in S PROVE \E i \in 1..n : s[i] = x
  <2>1. PICK i \in 1..n : Rank(R, S, x) = i - 1
    <3>1. Rank(R, S, x) \in 0..(n - 1)
      BY <1>2
    <3>2. Rank(R, S, x) + 1 \in 1..n /\ Rank(R, S, x) = (Rank(R, S, x) + 1) - 1
      BY <1>2, <3>1
    <3>. QED  BY <3>2
  <2>. PICK y \in S : y = s[i] /\ Rank(R, S, y) = Rank(R, S, x)
    BY <1>3, <2>1
  <2>2. Rank(R, S, x) \in Int
    BY <1>2
  <2>3. ~(y < x) /\ ~(x < y)
    BY <1>2, <2>2
  <2>. QED  BY <2>1, <2>3
<1>. QED  BY <1>2, <1>5, <1>6, <1>7 DEF s

\* A list after a cursor is of what the source has beyond it, in the order of the list.
LEMMA AfterIsSorted ==
    ASSUME TableOK, NEW x \in ReaderRow
    PROVE  /\ After(x) \in Seq(Nat) /\ Follows(x.keys, After(x))
           /\ ToSet(After(x)) = {k \in Source(x) : k > x.after}
<1>0. x.after \in Nat /\ x.keys \in Versions \union {<<>>} /\ x.kind \in Kinds \union {"record"}
  BY DEF ReaderRow
<1>. PICK after \in Nat, keys \in Versions \union {<<>>} : after = x.after /\ keys = x.keys
  BY <1>0
<1>1. CASE x.kind = "record"
  <2>. DEFINE S == {p \in DOMAIN keys : keys[p] > after}
              n == Cardinality(S)
              places == InOrder(S)
              rows == [m \in 1..n |-> keys[places[m]]]
  <2>1. /\ keys \in Seq(Nat) /\ DOMAIN keys = 1..Len(keys) /\ Len(keys) \in Nat
        /\ \A p, q \in DOMAIN keys : keys[p] = keys[q] => p = q
    <3>1. CASE keys = <<>>
      BY <3>1
    <3>2. CASE keys \in Versions
      BY <3>2, CatalogAssumption DEF IsInjective
    <3>. QED  BY <3>1, <3>2
  <2>a. \A p \in DOMAIN keys : keys[p] \in Nat /\ p \in Nat
    BY <2>1
  <2>2. S \in SUBSET Nat /\ IsFiniteSet(S) /\ S \in SUBSET (1..Len(keys))
    <3>1. IsFiniteSet(1..Len(keys))
      BY <2>1, FS_Interval
    <3>2. S \in SUBSET (1..Len(keys))
      BY <2>1
    <3>. HIDE DEF S
    <3>3. IsFiniteSet(S)
      BY <3>1, <3>2, FS_Subset
    <3>. QED  BY <3>2, <3>3
  <2>3. /\ n \in Nat /\ places \in [1..n -> S] /\ Ascends(places)
        /\ \A p \in S : \E i \in 1..n : places[i] = p
    <3>. HIDE DEF S
    <3>. QED  BY <2>2, InOrderSorts
  <2>4. After(x) = rows
    BY <1>1, <2>3 DEF After, RecordsAfter
  <2>5. \A m \in 1..n : rows[m] \in Nat /\ rows[m] > after /\ rows[m] \in ToSet(keys)
    <3>. SUFFICES ASSUME NEW m \in 1..n
                  PROVE  rows[m] \in Nat /\ rows[m] > after /\ rows[m] \in ToSet(keys)
      OBVIOUS
    <3>. HIDE DEF places, n
    <3>. PICK p \in S : p = places[m] /\ rows[m] = keys[p]
      BY <2>3
    <3>1. keys[p] \in Nat /\ keys[p] > after /\ keys[p] \in ToSet(keys)
      BY <2>1 DEF ToSet
    <3>. HIDE DEF rows, S
    <3>. QED  BY <3>1
  <2>6. rows \in Seq(Nat) /\ DOMAIN rows = 1..n
    <3>1. rows \in [1..n -> Nat]
      BY <2>5
    <3>. HIDE DEF rows, n
    <3>. QED  BY <2>3, <3>1
  <2>7. Follows(keys, rows)
    <3>. SUFFICES ASSUME NEW i \in 1..n, NEW j \in 1..n, i < j
                  PROVE  rows[i] < rows[j] \/ Misplaced(keys, rows[i], rows[j])
      BY <2>6 DEF Follows
    <3>. PICK p \in DOMAIN keys, q \in DOMAIN keys : p = places[i] /\ q = places[j]
      BY <2>3
    <3>. HIDE DEF S, n, places
    <3>1. p < q
      BY <2>3 DEF Ascends
    <3>2. rows[i] = keys[p] /\ rows[j] = keys[q]
      OBVIOUS
    <3>. HIDE DEF rows
    <3>4. keys[p] \in Nat /\ keys[q] \in Nat /\ p \in Nat /\ q \in Nat
      BY <2>a
    <3>5. p # q
      BY <3>1, <3>4
    <3>3. keys[p] # keys[q]
      BY <2>1, <3>5
    <3>. QED  BY <3>1, <3>2, <3>3, <3>4 DEF Misplaced
  <2>8. ASSUME NEW k \in ToSet(keys), k > after PROVE k \in ToSet(rows)
    <3>1. PICK p \in S : keys[p] = k
      BY <2>8 DEF ToSet
    <3>2. PICK i \in 1..n : places[i] = p
      BY <2>3, <3>1
    <3>. QED  BY <2>6, <3>1, <3>2 DEF ToSet
  <2>9. ToSet(rows) = {k \in ToSet(keys) : k > after}
    <3>. HIDE DEF rows
    <3>. QED  BY <2>5, <2>6, <2>8 DEF ToSet
  <2>. QED  BY <1>1, <2>4, <2>6, <2>7, <2>9 DEF Source
<1>2. CASE x.kind # "record"
  <2>. DEFINE ids == RowIds(x.kind, x.home)
              S == {i \in ids : i > after}
              n == Cardinality(S)
              rows == InOrder(S)
  <2>1. S \in SUBSET Nat /\ IsFiniteSet(S)
    <3>. DEFINE these == {row \in table : row.kind = x.kind /\ row.home = x.home}
                id == [row \in these |-> row.id]
    <3>1. IsFiniteSet(these)
      BY FS_Subset DEF TableOK
    <3>2. id \in Surjection(these, ids)
      BY DEF Surjection, RowIds
    <3>3. ids \in SUBSET Nat
      BY DEF RowIds, TableOK
    <3>. HIDE DEF these, id, ids
    <3>4. IsFiniteSet(ids)
      BY <3>1, <3>2, FS_Surjection
    <3>5. S \in SUBSET ids
      OBVIOUS
    <3>. HIDE DEF S
    <3>. QED  BY <3>3, <3>4, <3>5, FS_Subset
  <2>. HIDE DEF S
  <2>2. /\ n \in Nat /\ rows \in [1..n -> S] /\ Ascends(rows)
        /\ \A k \in S : \E i \in 1..n : rows[i] = k
    BY <2>1, InOrderSorts
  <2>3. After(x) = rows
    BY <1>2 DEF After, RowsAfter, S
  <2>. HIDE DEF rows, n
  <2>4. rows \in Seq(Nat) /\ ToSet(rows) = S
    <3>1. \A i \in 1..n : rows[i] \in S /\ rows[i] \in Nat
      BY <2>1, <2>2
    <3>2. rows \in [1..n -> Nat] /\ DOMAIN rows = 1..n
      BY <2>2, <3>1
    <3>3. rows \in Seq(Nat)
      BY <2>2, <3>2
    <3>. QED  BY <2>2, <3>1, <3>2, <3>3 DEF ToSet
  <2>5. Follows(x.keys, rows)
    BY <2>2 DEF Ascends, Follows
  <2>. QED  BY <1>2, <2>2, <2>3, <2>4, <2>5 DEF Source, S
<1>. QED  BY <1>1, <1>2

\* What a list is after a page of m rows: two of its items come from what was got, or
\* from the page, or the one from what was got and the later one from the page.
Continues(all, got, rows, m) ==
    /\ all \in Seq(Nat)
    /\ ToSet(all) = ToSet(got) \union {rows[j] : j \in 1..m}
    /\ \A i, j \in DOMAIN all : i < j =>
          \/ \E a, b \in DOMAIN got : a < b /\ all[i] = got[a] /\ all[j] = got[b]
          \/ \E a, b \in 1..m : a < b /\ all[i] = rows[a] /\ all[j] = rows[b]
          \/ \E a \in DOMAIN got, b \in 1..m : all[i] = got[a] /\ all[j] = rows[b]

\* A page continues what was got.
LEMMA PageContinues ==
    ASSUME NEW got \in Seq(Nat), NEW rows \in Seq(Nat), NEW m \in 0..Len(rows)
    PROVE  /\ Continues(got \o SubSeq(rows, 1, m), got, rows, m)
           /\ m > 0 => Last(SubSeq(rows, 1, m)) = rows[m]
<1>. DEFINE page == SubSeq(rows, 1, m)
            all == got \o page
            l == Len(got)
<1>1. l \in Nat /\ m \in Nat /\ m <= Len(rows) /\ DOMAIN rows = 1..Len(rows) /\ DOMAIN got = 1..l
  OBVIOUS
<1>2. page \in Seq(Nat) /\ Len(page) = m /\ \A i \in 1..m : page[i] = rows[i]
  BY <1>1, SubSeqProperties
<1>. HIDE DEF page
<1>3. /\ all \in Seq(Nat) /\ Len(all) = l + m
      /\ \A i \in 1..(l + m) : all[i] = IF i <= l THEN got[i] ELSE page[i - l]
  BY <1>1, <1>2, ConcatProperties
<1>. HIDE DEF all, l
<1>4. DOMAIN all = 1..(l + m)
  BY <1>3
<1>5. \A i \in 1..(l + m) :
         IF i <= l THEN i \in 1..l /\ all[i] = got[i] ELSE i - l \in 1..m /\ all[i] = rows[i - l]
  BY <1>1, <1>2, <1>3
<1>6. ASSUME NEW i \in 1..(l + m), NEW j \in 1..(l + m), i < j
      PROVE  \/ \E a, b \in DOMAIN got : a < b /\ all[i] = got[a] /\ all[j] = got[b]
             \/ \E a, b \in 1..m : a < b /\ all[i] = rows[a] /\ all[j] = rows[b]
             \/ \E a \in DOMAIN got, b \in 1..m : all[i] = got[a] /\ all[j] = rows[b]
  <2>1. CASE j <= l
    <3>1. i \in DOMAIN got /\ j \in DOMAIN got /\ all[i] = got[i] /\ all[j] = got[j]
      BY <1>1, <1>5, <1>6, <2>1
    <3>. QED  BY <1>6, <3>1
  <2>2. CASE ~(i <= l)
    <3>1. i - l \in 1..m /\ j - l \in 1..m /\ i - l < j - l /\ all[i] = rows[i - l] /\ all[j] = rows[j - l]
      BY <1>1, <1>5, <1>6, <2>2
    <3>. QED  BY <3>1
  <2>3. CASE i <= l /\ ~(j <= l)
    <3>1. all[i] = got[i] /\ i \in DOMAIN got /\ all[j] = rows[j - l] /\ j - l \in 1..m
      BY <1>1, <1>5, <2>3
    <3>. QED  BY <3>1
  <2>. QED  BY <2>1, <2>2, <2>3
<1>7. ToSet(all) = ToSet(got) \union {rows[j] : j \in 1..m}
  <2>1. ToSet(all) = {all[i] : i \in 1..(l + m)} /\ ToSet(got) = {got[i] : i \in 1..l}
    BY <1>1, <1>4 DEF ToSet
  <2>2. ASSUME NEW i \in 1..l PROVE i \in 1..(l + m) /\ all[i] = got[i]
    BY <1>1, <1>5
  <2>3. ASSUME NEW j \in 1..m PROVE l + j \in 1..(l + m) /\ all[l + j] = rows[j]
    <3>1. l + j \in 1..(l + m) /\ ~(l + j <= l) /\ (l + j) - l = j
      BY <1>1
    <3>. QED  BY <1>5, <3>1
  <2>4. ASSUME NEW i \in 1..(l + m) PROVE all[i] \in ToSet(got) \union {rows[j] : j \in 1..m}
    <3>1. CASE i <= l
      BY <1>1, <1>5, <2>1, <3>1
    <3>2. CASE ~(i <= l)
      BY <1>5, <3>2
    <3>. QED  BY <3>1, <3>2
  <2>. QED  BY <2>1, <2>2, <2>3, <2>4
<1>8. m > 0 => Last(page) = rows[m]
  BY <1>1, <1>2 DEF Last
<1>9. Continues(all, got, rows, m)
  <2>1. \A i, j \in DOMAIN all : i \in 1..(l + m) /\ j \in 1..(l + m)
    BY <1>4
  <2>. QED  BY <1>3, <1>6, <1>7, <2>1, Zenon DEF Continues
<1>. QED  BY <1>8, <1>9 DEF all, page

\* Rows are added and never removed.
LEMMA TableGrows ==
    ASSUME CatalogInv, TableOK, [CatalogNext]_catalogVars
    PROVE  TableOK' /\ \A kind, place : RowIds(kind, place) \subseteq RowIds(kind, place)'
<1>1. ASSUME UNCHANGED <<table, creation>>
      PROVE  TableOK' /\ \A kind, place : RowIds(kind, place) \subseteq RowIds(kind, place)'
  BY <1>1 DEF TableOK, RowIds
<1>2. ASSUME NEW c \in Creations, NEW p \in Principals, NEW k \in Kinds, NEW s \in Slugs,
             NEW fits \in BOOLEAN, NEW home \in Homes(k), Request(c, p, k, home, s, fits)
      PROVE  TableOK' /\ \A kind, place : RowIds(kind, place) \subseteq RowIds(kind, place)'
  <2>1. table' = table
    BY <1>2 DEF Request
  <2>2. \A i \in 1..MaxId : i \in Nat \ {0}
    OBVIOUS
  <2>3. \A d \in Creations : creation'[d].at \in {"named", "201"} => creation'[d].id \in Nat \ {0}
    <3>1. ASSUME NEW status \in {"404", "422"}, Refuse4xx(c, status)
          PROVE  \A d \in Creations : creation'[d].at \in {"named", "201"} => creation'[d].id \in Nat \ {0}
      BY <3>1 DEF Refuse4xx, NoCreation, CatalogInv, TableOK
    <3>2. ASSUME NEW id \in (1..MaxId) \ Taken,
                 creation' = [creation EXCEPT ![c] =
                    [at |-> "named", kind |-> k, home |-> home, slug |-> Normal[s], id |-> id,
                     seen |-> Exists(k, home, Normal[s]), known |-> HomeStored(k, home),
                     fits |-> fits]]
          PROVE  \A d \in Creations : creation'[d].at \in {"named", "201"} => creation'[d].id \in Nat \ {0}
      BY <2>2, <3>2 DEF CatalogInv, TableOK
    <3>. QED  BY <1>2, <3>1, <3>2 DEF Request
  <2>. QED  BY <2>1, <2>3 DEF TableOK, RowIds
<1>3. ASSUME NEW c \in Creations, TestSlug(c) \/ CommitCreation(c) \/ CreationDies(c)
      PROVE  TableOK' /\ \A kind, place : RowIds(kind, place) \subseteq RowIds(kind, place)'
  <2>. DEFINE row == [id |-> creation[c].id, kind |-> creation[c].kind,
                      home |-> creation[c].home, slug |-> creation[c].slug]
  <2>1. \/ table' = table
        \/ table' = table \union {row} /\ creation[c].at = "201"
    BY <1>3 DEF TestSlug, CommitCreation, CreationDies
  <2>2. creation[c].at = "201" => row.id \in Nat \ {0}
    BY DEF TableOK
  <2>. HIDE DEF row
  <2>3. IsFiniteSet(table') /\ \A x \in table' : x.id \in Nat \ {0}
    BY <2>1, <2>2, FS_AddElement DEF TableOK
  <2>4. creation \in [Creations -> Creation]
    BY DEF CatalogInv
  <2>5. \A d \in Creations : creation'[d].at \in {"named", "201"} => creation'[d].id \in Nat \ {0}
    <3>. SUFFICES ASSUME NEW d \in Creations, creation'[d].at \in {"named", "201"}
                  PROVE  creation'[d].id \in Nat \ {0}
      OBVIOUS
    <3>1. creation'[d].id = creation[d].id /\ creation[d].at \in {"named", "201"}
      <4>1. CASE d # c
        BY <1>3, <2>4, <4>1 DEF TestSlug, CommitCreation, CreationDies
      <4>2. CASE d = c /\ TestSlug(c)
        BY <2>4, <4>2 DEF TestSlug, Creation
      <4>3. CASE d = c /\ CommitCreation(c)
        BY <2>4, <4>3 DEF CommitCreation, Creation
      <4>4. CASE d = c /\ CreationDies(c)
        BY <2>4, <4>4 DEF CreationDies, NoCreation
      <4>. QED  BY <1>3, <4>1, <4>2, <4>3, <4>4
    <3>. QED  BY <3>1 DEF TableOK
  <2>. QED  BY <2>1, <2>3, <2>5 DEF TableOK, RowIds
<1>4. ASSUME NEW r \in Readers,
             \/ ReadFails(r) \/ \E limit \in PageLimits : ReadPage(r, limit)
             \/ \E k \in Kinds : \E home \in Homes(k) : StartReading(r, k, home)
             \/ \E keys \in Versions : StartRecords(r, keys)
      PROVE  TableOK' /\ \A kind, place : RowIds(kind, place) \subseteq RowIds(kind, place)'
  BY <1>1, <1>4 DEF ReadPage, ReadFails, StartReading, StartRecords
<1>. QED  BY <1>1, <1>2, <1>3, <1>4 DEF CatalogNext, catalogVars

\* What a reader may tell it may tell of a longer list.
LEMMA TellsOfMore ==
    ASSUME NEW x, ReaderTells(x), \A kind, place : RowIds(kind, place) \subseteq RowIds(kind, place)'
    PROVE  ReaderTells(x)'
<1>1. Source(x) \subseteq Source(x)'
  BY DEF Source
<1>. QED  BY <1>1 DEF ReaderTells, Strays, Hidden, Misplaced

\* A page keeps what a reader tells.
LEMMA PageIsRead ==
    ASSUME TableOK, NEW r \in Readers, NEW limit \in PageLimits, reader \in [Readers -> ReaderRow],
           ReaderTells(reader[r]), ReadPage(r, limit)
    PROVE  \E x \in ReaderRow : reader' = [reader EXCEPT ![r] = x] /\ ReaderTells(x)
<1>. PICK old \in ReaderRow : old = reader[r]
  OBVIOUS
<1>. PICK rows : rows = After(old)
  OBVIOUS
<1>. DEFINE more == Len(rows) > limit
            m == IF more THEN limit ELSE Len(rows)
            page == SubSeq(rows, 1, m)
            x == [old EXCEPT !.got = old.got \o page,
                             !.after = IF more THEN Last(page) ELSE 0,
                             !.at = IF more THEN "reading" ELSE "done"]
<1>1. /\ old.kind \in Kinds \union {"record"} /\ old.after \in Nat /\ old.got \in Seq(Nat)
      /\ old.base \in SUBSET Nat /\ old.at = "reading"
  BY DEF ReaderRow, ReadPage
<1>2. /\ rows \in Seq(Nat) /\ Follows(old.keys, rows)
      /\ ToSet(rows) = {k \in Source(old) : k > old.after}
  BY AfterIsSorted
<1>3. /\ m \in 0..Len(rows) /\ Len(rows) \in Nat /\ DOMAIN rows = 1..Len(rows)
      /\ (more => m > 0) /\ (~more => m = Len(rows))
  <2>1. limit \in Nat /\ limit > 0
    BY CatalogAssumption
  <2>. QED  BY <1>2, <2>1
<1>b. \A j \in 1..m : j \in DOMAIN rows
  <2>1. m \in 0..Len(rows) /\ DOMAIN rows = 1..Len(rows) /\ Len(rows) \in Nat
    BY <1>3
  <2>. HIDE DEF m
  <2>. QED  BY <2>1
<1>4. /\ ToSet(old.got) \subseteq Source(old) /\ old.base \subseteq Source(old)
      /\ \A i, j \in DOMAIN old.got : i < j => old.got[i] < old.got[j] \/ Strays(old, old.got[i])
      /\ \A k \in old.base : k <= old.after => k \in ToSet(old.got) \/ Hidden(old, k)
      /\ \A i \in DOMAIN old.got : old.got[i] <= old.after \/ Strays(old, old.got[i])
  BY <1>1 DEF ReaderTells
<1>5. reader' = [reader EXCEPT ![r] = x]
  BY <1>1 DEF ReadPage
<1>. HIDE DEF m, more
<1>6. \A j \in DOMAIN rows : rows[j] > old.after /\ rows[j] \in ToSet(rows) /\ rows[j] \in Nat
  BY <1>2 DEF ToSet
<1>. DEFINE all == old.got \o page
<1>7. Continues(all, old.got, rows, m)
  BY <1>1, <1>2, <1>3, PageContinues
<1>a. m > 0 => Last(page) = rows[m]
  BY <1>1, <1>2, <1>3, PageContinues
<1>. PICK last : last = IF more THEN Last(page) ELSE 0
  OBVIOUS
<1>8. last \in Nat /\ (more => last = rows[m] /\ m \in DOMAIN rows)
  <2>1. CASE more
    <3>1. m \in DOMAIN rows /\ last = rows[m]
      BY <1>3, <1>a, <2>1
    <3>. QED  BY <1>6, <3>1
  <2>. QED  BY <2>1
<1>. HIDE DEF page
<1>9. /\ x \in ReaderRow /\ x.got = all /\ x.after = last /\ x.kind = old.kind /\ x.base = old.base
      /\ x.home = old.home /\ x.keys = old.keys /\ x.at = IF more THEN "reading" ELSE "done"
  <2>1. all \in Seq(Nat)
    BY <1>7 DEF Continues
  <2>. PICK place \in {"reading", "done"} : place = IF more THEN "reading" ELSE "done"
    OBVIOUS
  <2>2. x = [old EXCEPT !.got = all, !.after = last, !.at = place]
    OBVIOUS
  <2>. HIDE DEF all, x
  <2>. QED  BY <1>8, <2>1, <2>2 DEF ReaderRow
<1>. HIDE DEF x, all
<1>10. /\ all \in Seq(Nat) /\ ToSet(all) = ToSet(old.got) \union {rows[j] : j \in 1..m}
       /\ Source(x) = Source(old)
       /\ \A j \in 1..m : j \in DOMAIN rows /\ rows[j] \in ToSet(x.got)
  <2>1. all \in Seq(Nat) /\ ToSet(all) = ToSet(old.got) \union {rows[j] : j \in 1..m}
    BY <1>7 DEF Continues
  <2>2. Source(x) = Source(old)
    BY <1>9 DEF Source
  <2>3. \A j \in 1..m : j \in DOMAIN rows
    BY <1>b
  <2>. QED  BY <1>9, <2>1, <2>2, <2>3
<1>11. \A g \in Nat : (Strays(old, g) => Strays(x, g)) /\ (Hidden(old, g) => Hidden(x, g))
  BY <1>9, <1>10 DEF Strays, Hidden
<1>12. \A a, b \in 1..m : a < b => rows[a] < rows[b] \/ Strays(x, rows[a])
  BY <1>2, <1>9, <1>10 DEF Follows, Strays
<1>13. ASSUME NEW i \in DOMAIN all, NEW j \in DOMAIN all, i < j
       PROVE  all[i] < all[j] \/ Strays(x, all[i])
  <2>1. \/ \E a, b \in DOMAIN old.got : a < b /\ all[i] = old.got[a] /\ all[j] = old.got[b]
        \/ \E a, b \in 1..m : a < b /\ all[i] = rows[a] /\ all[j] = rows[b]
        \/ \E a \in DOMAIN old.got, b \in 1..m : all[i] = old.got[a] /\ all[j] = rows[b]
    BY <1>7, <1>13 DEF Continues
  <2>2. all[i] \in Nat
    BY <1>10
  <2>3. CASE \E a, b \in DOMAIN old.got : a < b /\ all[i] = old.got[a] /\ all[j] = old.got[b]
    BY <1>4, <1>11, <2>2, <2>3
  <2>4. CASE \E a, b \in 1..m : a < b /\ all[i] = rows[a] /\ all[j] = rows[b]
    BY <1>12, <2>4
  <2>5. CASE \E a \in DOMAIN old.got, b \in 1..m : all[i] = old.got[a] /\ all[j] = rows[b]
    <3>. PICK a \in DOMAIN old.got, b \in 1..m : all[i] = old.got[a] /\ all[j] = rows[b]
      BY <2>5
    <3>1. all[j] > old.after /\ all[j] \in Nat
      BY <1>6, <1>10
    <3>. QED  BY <1>1, <1>4, <1>11, <2>2, <3>1
  <2>. QED  BY <2>1, <2>3, <2>4, <2>5
<1>14. ToSet(all) \subseteq Source(x)
  <2>1. \A j \in 1..m : rows[j] \in Source(old)
    BY <1>2, <1>6, <1>10
  <2>. QED  BY <1>4, <1>10, <2>1
<1>15. ASSUME NEW k \in old.base, ~more \/ k <= last PROVE k \in ToSet(all) \/ Hidden(x, k)
  <2>0. k \in Nat
    BY <1>1
  <2>1. CASE k <= old.after
    BY <1>4, <1>10, <1>11, <2>0, <2>1
  <2>2. CASE ~(k <= old.after)
    <3>1. k \in ToSet(rows)
      BY <1>1, <1>2, <1>4, <2>2
    <3>2. PICK j \in 1..Len(rows) : rows[j] = k
      BY <1>3, <3>1 DEF ToSet
    <3>3. CASE j <= m
      BY <1>3, <1>10, <3>2, <3>3
    <3>4. CASE ~(j <= m)
      <4>0. more
        <5>1. m # Len(rows)
          BY <3>4
        <5>. QED  BY <1>3, <5>1
      <4>1. more /\ m \in 1..m /\ m < j /\ last = rows[m]
        BY <1>3, <1>8, <3>4, <4>0
      <4>2. last < k \/ Misplaced(old.keys, last, k)
        BY <1>2, <1>8, <3>2, <4>1 DEF Follows
      <4>3. Misplaced(x.keys, last, k)
        BY <1>8, <1>9, <1>15, <2>0, <4>1, <4>2
      <4>. QED  BY <1>10, <4>1, <4>3 DEF Hidden
    <3>. QED  BY <3>3, <3>4
  <2>. QED  BY <2>1, <2>2
<1>16. ASSUME more, NEW i \in DOMAIN all PROVE all[i] <= last \/ Strays(x, all[i])
  <2>1. all[i] \in ToSet(all) /\ all[i] \in Nat
    BY <1>10 DEF ToSet
  <2>2. CASE all[i] \in ToSet(old.got)
    <3>1. all[i] <= old.after \/ Strays(old, all[i])
      BY <1>4, <2>2 DEF ToSet
    <3>2. last > old.after
      BY <1>6, <1>8, <1>16
    <3>. QED  BY <1>1, <1>8, <1>11, <2>1, <3>1, <3>2
  <2>3. CASE \E j \in 1..m : all[i] = rows[j]
    <3>1. PICK j \in 1..m : all[i] = rows[j]
      BY <2>3
    <3>2. m \in 1..m /\ last = rows[m] /\ (j < m \/ j = m)
      BY <1>3, <1>8, <1>16
    <3>. QED  BY <1>8, <1>12, <2>1, <3>1, <3>2
  <2>. QED  BY <1>10, <2>1, <2>2, <2>3
<1>17. ReaderTells(x)
  BY <1>9, <1>10, <1>4, <1>13, <1>14, <1>15, <1>16 DEF ReaderTells
<1>. QED  BY <1>5, <1>9, <1>17

\* Every step of the catalog keeps what its readers tell.
LEMMA PagesKept ==
    ASSUME CatalogInv, PagesInv, [CatalogNext]_catalogVars
    PROVE  PagesInv'
<1>1. TableOK' /\ \A kind, place : RowIds(kind, place) \subseteq RowIds(kind, place)'
  BY TableGrows DEF PagesInv
<1>2. ASSUME UNCHANGED reader PROVE PagesInv'
  <2>1. ASSUME NEW r \in Readers PROVE ReaderTells(reader[r])'
    <3>. PICK x : x = reader[r]
      OBVIOUS
    <3>1. ReaderTells(x)'
      BY <1>1, TellsOfMore DEF PagesInv
    <3>2. x = reader'[r]
      BY <1>2
    <3>. QED  BY <3>1, <3>2 DEF ReaderTells, Strays, Hidden, Misplaced, Source, RowIds
  <2>. QED  BY <1>1, <1>2, <2>1 DEF PagesInv
<1>3. ASSUME NEW r \in Readers, NEW x \in ReaderRow, reader' = [reader EXCEPT ![r] = x], ReaderTells(x)
      PROVE  PagesInv'
  <2>1. ASSUME NEW q \in Readers PROVE ReaderTells(reader[q])'
    <3>. PICK y : y = reader'[q]
      OBVIOUS
    <3>1. ReaderTells(y)
      BY <1>3 DEF PagesInv
    <3>2. ReaderTells(y)'
      BY <1>1, <3>1, TellsOfMore
    <3>. QED  BY <3>2 DEF ReaderTells, Strays, Hidden, Misplaced, Source, RowIds
  <2>2. reader' \in [Readers -> ReaderRow]
    BY <1>3 DEF PagesInv
  <2>. QED  BY <1>1, <2>1, <2>2 DEF PagesInv
<1>4. ASSUME NEW r \in Readers, NEW limit \in PageLimits, ReadPage(r, limit) PROVE PagesInv'
  BY <1>3, <1>4, PageIsRead DEF PagesInv
<1>5. ASSUME NEW r \in Readers, ReadFails(r) PROVE PagesInv'
  <2>. DEFINE x == [NoReader EXCEPT !.at = "failed"]
  <2>1. x \in ReaderRow /\ ReaderTells(x)
    <3>1. NoReader \in ReaderRow /\ NoReader.got = <<>> /\ NoReader.base = {}
      BY DEF NoReader, ReaderRow, Kinds
    <3>2. x \in ReaderRow
      BY <3>1 DEF ReaderRow
    <3>3. x.at = "failed" /\ x.got = <<>> /\ x.base = {}
      BY <3>1 DEF ReaderRow
    <3>4. ToSet(<<>>) = {}
      BY DEF ToSet
    <3>. QED  BY <3>2, <3>3, <3>4 DEF ReaderTells
  <2>2. reader' = [reader EXCEPT ![r] = x]
    BY <1>5 DEF ReadFails
  <2>. HIDE DEF x
  <2>. QED  BY <1>3, <2>1, <2>2
<1>6. ASSUME NEW r \in Readers, NEW x \in ReaderRow, reader' = [reader EXCEPT ![r] = x],
             x.got = <<>>, x.after = 0, x.at = "reading", x.base = Source(x)
      PROVE  PagesInv'
  <2>1. \A i \in x.base : i \in Nat /\ ~(i <= 0)
    <3>1. \A i \in ToSet(x.keys) : i \in Nat \ {0}
      BY CatalogAssumption DEF ReaderRow, ToSet
    <3>. QED  BY <1>6, <3>1 DEF Source, RowIds, PagesInv, TableOK
  <2>2. ReaderTells(x)
    BY <1>6, <2>1 DEF ReaderTells, ToSet
  <2>. QED  BY <1>3, <1>6, <2>2
<1>7. ASSUME NEW r \in Readers, NEW k \in Kinds, NEW home \in Homes(k), StartReading(r, k, home)
      PROVE  PagesInv'
  <2>. DEFINE x == [at |-> "reading", kind |-> k, home |-> home, keys |-> <<>>,
                    after |-> 0, got |-> <<>>, base |-> RowIds(k, home)]
  <2>1. reader' = [reader EXCEPT ![r] = x]
    BY <1>7 DEF StartReading
  <2>2. RowIds(k, home) \in SUBSET Nat /\ home \in {Organisation} \union Projects /\ k # "record"
    BY DEF RowIds, PagesInv, TableOK, Homes, Kinds
  <2>3. /\ x \in ReaderRow /\ x.got = <<>> /\ x.after = 0 /\ x.at = "reading"
        /\ x.base = RowIds(k, home) /\ x.kind = k /\ x.home = home
    BY <2>2 DEF ReaderRow
  <2>. HIDE DEF x
  <2>4. x.base = Source(x)
    BY <2>2, <2>3 DEF Source
  <2>. QED  BY <1>6, <2>1, <2>3, <2>4
<1>8. ASSUME NEW r \in Readers, NEW keys \in Versions, StartRecords(r, keys) PROVE PagesInv'
  <2>. DEFINE x == [at |-> "reading", kind |-> "record", home |-> Organisation, keys |-> keys,
                    after |-> 0, got |-> <<>>, base |-> ToSet(keys)]
  <2>1. reader' = [reader EXCEPT ![r] = x]
    BY <1>8 DEF StartRecords
  <2>2. ToSet(keys) \in SUBSET Nat
    BY CatalogAssumption DEF ToSet
  <2>3. /\ x \in ReaderRow /\ x.got = <<>> /\ x.after = 0 /\ x.at = "reading"
        /\ x.base = ToSet(keys) /\ x.kind = "record" /\ x.keys = keys
    BY <2>2 DEF ReaderRow
  <2>. HIDE DEF x
  <2>4. x.base = Source(x)
    BY <2>3 DEF Source
  <2>. QED  BY <1>6, <2>1, <2>3, <2>4
<1>9. ASSUME NEW c \in Creations,
             \/ TestSlug(c) \/ CommitCreation(c) \/ CreationDies(c)
             \/ \E p \in Principals, k \in Kinds, s \in Slugs, fits \in BOOLEAN :
                   \E home \in Homes(k) : Request(c, p, k, home, s, fits)
      PROVE  PagesInv'
  <2>1. UNCHANGED reader
    BY <1>9 DEF Request, TestSlug, CommitCreation, CreationDies
  <2>. QED  BY <1>2, <2>1
<1>. QED  BY <1>2, <1>4, <1>5, <1>7, <1>8, <1>9 DEF CatalogNext, catalogVars

\* A client that iterates a list, with whatever limits, gets every row that was there when
\* it began, each once and in order, whatever is stored meanwhile; and every record of a
\* version, however the database sorts the keys, but for those a misplaced one hides.
THEOREM PagesAreComplete == CatalogSpec => []PagesComplete
<1>1. CatalogInit => PagesInv
  <2>. SUFFICES ASSUME CatalogInit PROVE PagesInv
    OBVIOUS
  <2>1. TableOK
    BY FS_EmptySet DEF CatalogInit, TableOK, NoCreation
  <2>2. NoReader \in ReaderRow /\ ReaderTells(NoReader)
    BY DEF NoReader, ReaderRow, ReaderTells, ToSet, Kinds
  <2>. QED  BY <2>1, <2>2 DEF CatalogInit, PagesInv
<1>2. PagesInv => PagesComplete
  BY DEF PagesInv, PagesComplete, ReaderTells, Strays, Hidden, Source
<1>3. CatalogInv /\ PagesInv /\ [CatalogNext]_catalogVars => PagesInv'
  BY PagesKept
<1>. QED  BY <1>1, <1>2, <1>3, CatalogHolds, PTL DEF CatalogSpec

-----------------------------------------------------------------------------
(* Samples of a version, plain and stratified *)

\* The keys records may have.
SampleKeys == (Ids \ {NoId}) \union (1..(MaxLines + 1))

\* The keys a seed puts first are as many as asked for, and no key before one of them is
\* left out.
LEMMA FirstAreFirst ==
    ASSUME NEW rank \in SeedOrders, NEW keys \in SUBSET SampleKeys, IsFiniteSet(keys),
           NEW n \in 0..Cardinality(keys)
    PROVE  /\ FirstOf(keys, n, rank) \subseteq keys
           /\ IsFiniteSet(FirstOf(keys, n, rank)) /\ Cardinality(FirstOf(keys, n, rank)) = n
           /\ \A k \in FirstOf(keys, n, rank), l \in keys :
                 rank[l] < rank[k] => l \in FirstOf(keys, n, rank)
<1>. DEFINE R == {pair \in keys \X keys : rank[pair[1]] < rank[pair[2]]}
            first == FirstOf(keys, n, rank)
            at == [k \in first |-> Rank(R, keys, k)]
<1>0. Cardinality(keys) \in Nat /\ n \in Nat
  BY FS_CardinalityType
<1>1. \A k, l \in keys : rank[k] \in Int /\ (rank[k] = rank[l] => k = l)
  BY SamplingAssumption DEF SampleKeys
<1>2. \A k, l \in keys : <<k, l>> \in R <=> rank[k] < rank[l]
  OBVIOUS
<1>. HIDE DEF R
<1>3. Orders(R, keys)
  BY <1>1, <1>2 DEF Orders
<1>4. /\ \A k \in keys : Rank(R, keys, k) \in 0..(Cardinality(keys) - 1)
      /\ \A k, l \in keys : <<k, l>> \in R => Rank(R, keys, k) < Rank(R, keys, l)
  BY <1>3, RanksFill
<1>5. \A m \in 0..(Cardinality(keys) - 1) : Placed(R, keys, m)
  BY <1>3, RanksFill
<1>6. ASSUME NEW k \in keys PROVE Rank(R, keys, k) = Cardinality({l \in keys : rank[l] < rank[k]})
  <2>1. {l \in keys : <<l, k>> \in R} = {l \in keys : rank[l] < rank[k]}
    BY <1>2
  <2>. QED  BY <2>1 DEF Rank
<1>7. \A k : k \in first <=> k \in keys /\ Rank(R, keys, k) < n
  BY <1>6 DEF FirstOf
<1>. HIDE DEF first
<1>8. first \in SUBSET keys
  BY <1>7
<1>9. IsFiniteSet(first)
  BY <1>8, FS_Subset
<1>10. at \in Surjection(first, 0..(n - 1))
  <2>1. \A k \in first : at[k] \in 0..(n - 1)
    BY <1>0, <1>4, <1>7
  <2>2. ASSUME NEW m \in 0..(n - 1) PROVE \E k \in first : at[k] = m
    <3>1. m \in 0..(Cardinality(keys) - 1)
      BY <1>0
    <3>2. PICK k \in keys : Rank(R, keys, k) = m
      BY <1>5, <3>1 DEF Placed
    <3>3. m < n
      BY <1>0
    <3>4. k \in first
      BY <1>7, <3>2, <3>3
    <3>. QED  BY <3>2, <3>4
  <2>. QED  BY <2>1, <2>2 DEF Surjection
<1>11. at \in Injection(first, 0..(n - 1))
  <2>1. ASSUME NEW k \in first, NEW l \in first, at[k] = at[l] PROVE k = l
    <3>1. k \in keys /\ l \in keys /\ Rank(R, keys, k) = Rank(R, keys, l) /\ Rank(R, keys, k) \in Int
      BY <1>4, <1>8, <2>1
    <3>2. ~(rank[k] < rank[l]) /\ ~(rank[l] < rank[k])
      <4>1. ASSUME NEW x \in keys, NEW y \in keys, Rank(R, keys, x) = Rank(R, keys, y),
                   Rank(R, keys, x) \in Int, rank[x] < rank[y]
            PROVE  FALSE
        <5>1. Rank(R, keys, x) < Rank(R, keys, y)
          BY <1>2, <1>4, <4>1
        <5>. QED  BY <4>1, <5>1
      <4>. QED  BY <3>1, <4>1
    <3>. QED  BY <1>1, <3>1, <3>2
  <2>. QED  BY <1>10, <2>1 DEF Injection, IsInjective, Surjection
<1>12. Cardinality(first) = n
  <2>. HIDE DEF at
  <2>1. Cardinality(0..(n - 1)) = n
    BY <1>0, FS_Interval
  <2>. QED  BY <1>9, <1>10, <1>11, <2>1, FS_Surjection
<1>13. ASSUME NEW k \in first, NEW l \in keys, rank[l] < rank[k] PROVE l \in first
  <2>1. k \in keys /\ Rank(R, keys, k) < n /\ Rank(R, keys, l) < Rank(R, keys, k)
    BY <1>2, <1>4, <1>7, <1>13
  <2>2. Rank(R, keys, k) \in Int /\ Rank(R, keys, l) \in Int
    BY <1>4, <2>1
  <2>. QED  BY <1>0, <1>7, <2>1, <2>2
<1>. QED  BY <1>8, <1>9, <1>12, <1>13 DEF first

PopulationOK ==
    /\ IsFiniteSet(DOMAIN population) /\ DOMAIN population # {}
    /\ DOMAIN population \subseteq SampleKeys

\* How the records are distributed.
LEMMA StrataCount ==
    ASSUME PopulationOK
    PROVE  /\ Size \in Nat \ {0} /\ IsFiniteSet(StrataHeld)
           /\ \A a : /\ Stratum(a) \subseteq DOMAIN population /\ IsFiniteSet(Stratum(a))
                     /\ Cardinality(Stratum(a)) \in Nat
           /\ Total([a \in StrataHeld |-> Cardinality(Stratum(a))], StrataHeld) = Size
<1>. DEFINE D == DOMAIN population
            of == [k \in D |-> population[k]]
            count == [a \in StrataHeld |-> Cardinality(Stratum(a))]
<1>1. Size \in Nat \ {0}
  BY FS_CardinalityType, FS_EmptySet DEF PopulationOK, Size
<1>2. IsFiniteSet(StrataHeld)
  <2>1. of \in Surjection(D, StrataHeld)
    BY DEF Surjection, StrataHeld
  <2>. HIDE DEF of
  <2>. QED  BY <2>1, FS_Surjection DEF PopulationOK
<1>3. ASSUME NEW a
      PROVE  /\ Stratum(a) \subseteq D /\ IsFiniteSet(Stratum(a)) /\ Cardinality(Stratum(a)) \in Nat
  <2>1. Stratum(a) \in SUBSET D
    BY DEF Stratum
  <2>2. IsFiniteSet(Stratum(a))
    BY <2>1, FS_Subset DEF PopulationOK
  <2>. QED  BY <2>1, <2>2, FS_CardinalityType
<1>4. CountsParts(count, D, population, StrataHeld)
  <2>1. \A a : PartOf(D, population, {a}) = Stratum(a)
    BY DEF PartOf, Stratum
  <2>. QED  BY <2>1 DEF CountsParts
<1>5. PartOf(D, population, StrataHeld) = D
  BY DEF PartOf, StrataHeld
<1>6. Total(count, StrataHeld) = Size
  <2>. HIDE DEF count
  <2>. QED  BY <1>2, <1>4, <1>5, TotalOfParts DEF PopulationOK, Size
<1>. QED  BY <1>1, <1>2, <1>3, <1>6

\* What division leaves.
LEMMA Divides ==
    ASSUME NEW x \in Nat, NEW d \in Nat \ {0}
    PROVE  /\ x \div d \in Nat /\ x % d \in Nat /\ x % d < d
           /\ x = d * (x \div d) + (x % d)
  OBVIOUS

\* Products grow with their factors.
LEMMA Multiplies ==
    ASSUME NEW d \in Nat, NEW a \in Nat, NEW b \in Nat, a <= b
    PROVE  d * a \in Nat /\ d * b \in Nat /\ d * a <= d * b
<1>1. d * (b - a) \in Nat /\ d * a \in Nat
  OBVIOUS
<1>2. d * b = d * a + d * (b - a)
  OBVIOUS
<1>. QED  BY <1>1, <1>2

\* Products distribute over sums.
LEMMA Distributes ==
    ASSUME NEW d \in Nat, NEW a \in Nat, NEW b \in Nat
    PROVE  d * (a + b) = d * a + d * b /\ d * a \in Nat /\ d * b \in Nat
  OBVIOUS

\* The quotas of a stratified sample: its size together, none more than the stratum has, each
\* the exact share rounded one way or the other.
LEMMA QuotasFit ==
    ASSUME PopulationOK, NEW n \in 0..Size, NEW G \in Favoured(n)
    PROVE  /\ \A a \in StrataHeld :
                 /\ Quota(a, n, G) \in 0..Cardinality(Stratum(a))
                 /\ Size * Quota(a, n, G) < n * Cardinality(Stratum(a)) + Size
                 /\ n * Cardinality(Stratum(a)) < Size * Quota(a, n, G) + Size
           /\ Total([a \in StrataHeld |-> Quota(a, n, G)], StrataHeld) = n
<1>. DEFINE H == StrataHeld
            count == [a \in H |-> Cardinality(Stratum(a))]
            base == [a \in H |-> Base(a, n)]
            rem == [a \in H |-> Remainder(a, n)]
            zero == [a \in H |-> 0]
            times == [a \in H |-> n * count[a]]
            mark == [a \in H |-> IF a \in G THEN 1 ELSE 0]
            quota == [a \in H |-> Quota(a, n, G)]
            g == Cardinality(G)
<1>. PICK N : N = Size
  OBVIOUS
<1>1. /\ N \in Nat \ {0} /\ n \in Nat /\ n <= N /\ IsFiniteSet(H) /\ Total(count, H) = N
      /\ \A a \in H : count[a] \in Nat /\ count[a] = Cardinality(Stratum(a))
  BY StrataCount
<1>2. G \in SUBSET H /\ g = n - Total(base, H) /\ g \in Nat
      /\ \A a \in G, b \in H \ G : rem[a] >= rem[b]
  <2>1. G \in SUBSET H /\ g = ToPlace(n) /\ \A a \in G, b \in H \ G : Remainder(a, n) >= Remainder(b, n)
    BY DEF Favoured
  <2>2. IsFiniteSet(G)
    BY <1>1, <2>1, FS_Subset
  <2>3. g \in Nat
    BY <2>2, FS_CardinalityType
  <2>4. ToPlace(n) = n - Total(base, H)
    BY DEF ToPlace, Total
  <2>. QED  BY <2>1, <2>3, <2>4
<1>3. ASSUME NEW a \in H
      PROVE  /\ base[a] \in Nat /\ rem[a] \in Nat /\ rem[a] < N
             /\ n * count[a] = N * base[a] + rem[a]
  <2>. PICK c \in Nat : c = count[a]
    BY <1>1
  <2>1. n * c \in Nat
    BY <1>1
  <2>2. base[a] = (n * c) \div N /\ rem[a] = (n * c) % N
    BY <1>1 DEF Base, Remainder
  <2>. HIDE DEF base, rem, count
  <2>. PICK x \in Nat : x = n * c
    BY <2>1
  <2>3. base[a] = x \div N /\ rem[a] = x % N
    BY <2>2
  <2>4. x \div N \in Nat /\ x % N \in Nat /\ x % N < N /\ x = N * (x \div N) + (x % N)
    BY <1>1, Divides
  <2>. QED  BY <2>3, <2>4
<1>4. \A a \in H : quota[a] = base[a] + mark[a] /\ mark[a] \in Nat
  BY DEF Quota
<1>5. \A a \in H : Quota(a, n, G) = quota[a] /\ mark[a] = (IF a \in G THEN 1 ELSE 0)
                   /\ times[a] = n * count[a] /\ zero[a] = 0
  OBVIOUS
<1>. HIDE DEF count, base, rem, zero, times, mark, H, g
<1>6. Combines(times, n, count, zero, H)
  <2>1. \A x \in Nat : n * x + 0 = n * x
    BY <1>1
  <2>. QED  BY <1>1, <1>5, <2>1 DEF Combines
<1>7. Combines(times, N, base, rem, H)
  BY <1>3, <1>5 DEF Combines
<1>8. Combines(quota, 1, base, mark, H)
  <2>. HIDE DEF quota
  <2>1. \A x \in Nat : 1 * x = x
    OBVIOUS
  <2>. QED  BY <1>3, <1>4, <2>1 DEF Combines
<1>9. Marks(mark, G, H)
  BY <1>5 DEF Marks
<1>. HIDE DEF quota
<1>10. Total(base, H) \in Nat /\ Total(rem, H) \in Nat
  BY <1>1, <1>3, TotalType
<1>11. Total(zero, H) = 0 /\ Total(mark, H) = g
  BY <1>1, <1>2, <1>5, <1>9, TotalOfZeros, TotalOfMarks DEF g
<1>12. Total(times, H) = n * N + Total(zero, H)
  <2>1. Total(times, H) = n * Total(count, H) + Total(zero, H)
    BY <1>1, <1>6, TotalCombines
  <2>. QED  BY <1>1, <2>1
<1>13. Total(times, H) = N * Total(base, H) + Total(rem, H)
  BY <1>1, <1>7, TotalCombines
<1>14. Total(quota, H) = 1 * Total(base, H) + Total(mark, H)
  BY <1>1, <1>8, TotalCombines
<1>15. Total(quota, H) = n
  BY <1>1, <1>2, <1>10, <1>11, <1>14
<1>16. Total(rem, H) = N * g
  <2>. PICK b \in Nat : b = Total(base, H)
    BY <1>10
  <2>1. n = b + g
    BY <1>1, <1>2
  <2>2. n * N = N * b + N * g /\ N * b \in Nat /\ N * g \in Nat
    BY <1>1, <1>2, <2>1
  <2>3. n * N + 0 = N * b + Total(rem, H)
    BY <1>11, <1>12, <1>13
  <2>. QED  BY <1>10, <2>2, <2>3
<1>17. ASSUME NEW a \in G PROVE rem[a] > 0
  <2>. DEFINE P == {b \in H : rem[b] > 0}
  <2>1. SUFFICES ASSUME rem[a] = 0 PROVE FALSE
    BY <1>2, <1>3
  <2>2. P \in SUBSET H /\ P \in SUBSET (G \ {a}) /\ a \in G
    <3>1. ASSUME NEW b \in P PROVE b \in G \ {a}
      <4>1. b \in H /\ rem[b] > 0 /\ rem[b] \in Nat
        BY <1>3
      <4>. QED  BY <1>2, <2>1, <4>1
    <3>. QED  BY <3>1
  <2>3. Bounded(rem, N, P, H)
    <3>. SUFFICES ASSUME NEW x \in H
                  PROVE  rem[x] \in Nat /\ (IF x \in P THEN rem[x] <= N ELSE rem[x] = 0)
      BY DEF Bounded
    <3>1. rem[x] \in Nat /\ rem[x] < N
      BY <1>3
    <3>. QED  BY <1>1, <3>1
  <2>. HIDE DEF P
  <2>4. Total(rem, H) <= N * Cardinality(P)
    BY <1>1, <2>2, <2>3, TotalBounded
  <2>5. IsFiniteSet(G) /\ IsFiniteSet(G \ {a}) /\ Cardinality(G \ {a}) = g - 1
    BY <1>1, <1>2, FS_Subset, FS_RemoveElement DEF g
  <2>6. Cardinality(P) \in Nat /\ Cardinality(P) <= g - 1
    BY <2>2, <2>5, FS_Subset, FS_CardinalityType
  <2>7. g - 1 \in Nat
    BY <1>2, <2>6
  <2>8. N * Cardinality(P) <= N * (g - 1)
    BY <1>1, <2>6, <2>7, Multiplies
  <2>9. N * (g - 1) = N * g - N /\ N * g \in Nat /\ N * Cardinality(P) \in Nat
    BY <1>1, <1>2, <2>6
  <2>. QED  BY <1>1, <1>16, <2>4, <2>8, <2>9
<1>18. ASSUME NEW a \in H
       PROVE  /\ quota[a] \in 0..count[a]
              /\ N * quota[a] < n * count[a] + N
              /\ n * count[a] < N * quota[a] + N
  <2>. PICK b \in Nat, r \in Nat, c \in Nat, m \in Nat :
            /\ b = base[a] /\ r = rem[a] /\ c = count[a] /\ m = mark[a]
    BY <1>1, <1>3, <1>4
  <2>1. n * c = N * b + r /\ r < N /\ quota[a] = b + m /\ m \in {0, 1} /\ (m = 1 => r > 0)
    BY <1>3, <1>4, <1>5, <1>17
  <2>2. N * (b + m) = N * b + N * m /\ N * b \in Nat /\ N * m = (IF m = 1 THEN N ELSE 0)
    <3>1. N * 1 = N /\ N * 0 = 0
      BY <1>1
    <3>2. N * (b + m) = N * b + N * m /\ N * b \in Nat
      BY <1>1, Distributes
    <3>. HIDE DEF mark
    <3>3. N * m = (IF m = 1 THEN N ELSE 0)
      BY <2>1, <3>1
    <3>. QED  BY <3>2, <3>3
  <2>3. N * (b + m) < n * c + N /\ n * c < N * (b + m) + N
    BY <1>1, <2>1, <2>2
  <2>4. n * c <= N * c /\ N * c \in Nat
    <3>1. c * n <= c * N /\ c * n = n * c /\ c * N = N * c /\ c * N \in Nat
      BY <1>1, Multiplies
    <3>. QED  BY <3>1
  <2>5. b + m <= c
    <3>1. SUFFICES ASSUME c + 1 <= b + m PROVE FALSE
      BY <2>1
    <3>2. CASE m = 0
      <4>1. N * (c + 1) <= N * b
        BY <1>1, <3>1, <3>2, Multiplies
      <4>2. N * (c + 1) = N * c + N * 1 /\ N * 1 = N
        BY <1>1, Distributes
      <4>. QED  BY <1>1, <2>1, <2>2, <2>4, <4>1, <4>2
    <3>3. CASE m = 1
      <4>1. N * c <= N * b
        BY <1>1, <3>1, <3>3, Multiplies
      <4>. QED  BY <1>1, <2>1, <2>2, <2>4, <3>3, <4>1
    <3>. QED  BY <2>1, <3>2, <3>3
  <2>6. b + m \in 0..c
    BY <2>1, <2>5
  <2>. QED  BY <2>1, <2>3, <2>6
<1>. QED  BY <1>1, <1>5, <1>15, <1>18 DEF H, quota

\* A stratified sample has each stratum's quota of its first keys.
LEMMA StratifiedFits ==
    ASSUME PopulationOK, NEW n \in 0..Size, NEW G \in Favoured(n), NEW rank \in SeedOrders,
           NEW keys, keys = Stratified(n, rank, G)
    PROVE  /\ keys \subseteq DOMAIN population /\ Cardinality(keys) = n
           /\ \A a \in StrataHeld :
                 LET share == Cardinality(keys \cap Stratum(a)) IN
                 /\ Size * share < n * Cardinality(Stratum(a)) + Size
                 /\ n * Cardinality(Stratum(a)) < Size * share + Size
           /\ \A k \in keys, l \in DOMAIN population :
                 population[k] = population[l] /\ rank[l] < rank[k] => l \in keys
<1>. DEFINE part(a) == FirstOf(Stratum(a), Quota(a, n, G), rank)
            quota == [a \in StrataHeld |-> Quota(a, n, G)]
<1>1. keys = UNION {part(a) : a \in StrataHeld}
  BY DEF Stratified
<1>2. ASSUME NEW a \in StrataHeld
      PROVE  /\ part(a) \subseteq Stratum(a) /\ Cardinality(part(a)) = Quota(a, n, G)
             /\ \A k \in part(a), l \in Stratum(a) : rank[l] < rank[k] => l \in part(a)
  <2>1. Stratum(a) \in SUBSET SampleKeys /\ IsFiniteSet(Stratum(a))
    BY StrataCount DEF PopulationOK
  <2>2. Quota(a, n, G) \in 0..Cardinality(Stratum(a))
    BY QuotasFit
  <2>. QED  BY <2>1, <2>2, FirstAreFirst
<1>. HIDE DEF part
<1>3. \A a, b : \A k \in Stratum(a) : k \in Stratum(b) <=> a = b
  BY DEF Stratum
<1>4. \A a \in StrataHeld : keys \cap Stratum(a) = part(a)
  BY <1>1, <1>2, <1>3
<1>5. keys \in SUBSET DOMAIN population
  BY <1>1, <1>2 DEF Stratum
<1>6. IsFiniteSet(keys)
  BY <1>5, FS_Subset DEF PopulationOK
<1>7. Cardinality(keys) = n
  <2>1. \A a : PartOf(keys, population, {a}) = keys \cap Stratum(a)
    BY <1>5 DEF PartOf, Stratum
  <2>2. CountsParts(quota, keys, population, StrataHeld)
    BY <1>2, <1>4, <2>1 DEF CountsParts
  <2>3. PartOf(keys, population, StrataHeld) = keys
    BY <1>5 DEF PartOf, StrataHeld
  <2>4. Total(quota, StrataHeld) = n
    BY QuotasFit
  <2>. HIDE DEF quota
  <2>. QED  BY <1>6, <2>2, <2>3, <2>4, StrataCount, TotalOfParts
<1>8. ASSUME NEW a \in StrataHeld
      PROVE  LET share == Cardinality(keys \cap Stratum(a)) IN
             /\ Size * share < n * Cardinality(Stratum(a)) + Size
             /\ n * Cardinality(Stratum(a)) < Size * share + Size
  <2>1. Cardinality(keys \cap Stratum(a)) = Quota(a, n, G)
    BY <1>2, <1>4
  <2>. QED  BY <2>1, QuotasFit
<1>9. ASSUME NEW k \in keys, NEW l \in DOMAIN population, population[k] = population[l], rank[l] < rank[k]
      PROVE  l \in keys
  <2>1. PICK a \in StrataHeld : k \in part(a)
    BY <1>1
  <2>2. k \in Stratum(a) /\ l \in Stratum(a)
    BY <1>2, <1>9, <2>1 DEF Stratum
  <2>3. l \in part(a)
    BY <1>2, <1>9, <2>1, <2>2
  <2>. QED  BY <1>1, <2>3
<1>. QED  BY <1>5, <1>7, <1>8, <1>9

-----------------------------------------------------------------------------
(* Files, and the records they become *)

Line == [id : Ids, stratum : Strata] \union {Blank}

File ==
    [format : Formats \union {"none"}, lines : Seq(Line), at : {"reading", "published", "refused"}]

FileOK ==
    /\ file \in File /\ Len(file.lines) <= MaxLines
    /\ file.at = "published" =>
          /\ file.format # "none" /\ PopulationOK /\ Size = Cardinality(Filled)

SampleTells ==
    sample.at = "drawn" =>
          /\ sample.keys \subseteq DOMAIN population
          /\ Cardinality(sample.keys) = sample.size
          /\ sample.stratified =>
                \A a \in StrataHeld :
                    /\ Size * Share(a) < sample.size * Cardinality(Stratum(a)) + Size
                    /\ sample.size * Cardinality(Stratum(a)) < Size * Share(a) + Size
          /\ \A k \in sample.keys, l \in DOMAIN population :
                /\ ~sample.stratified \/ population[k] = population[l]
                /\ sample.rank[l] < sample.rank[k]
                => l \in sample.keys

SamplingInv ==
    /\ FileOK /\ SampleTells
    /\ sample # NoSample => file.at = "published"

\* A file that is accepted becomes one record for each line that holds one.
LEMMA FileIsWhole ==
    ASSUME FileOK, Accepts,
           population' = [k \in {KeyOfLine(i) : i \in Filled} |->
                             file.lines[CHOOSE i \in Filled : KeyOfLine(i) = k].stratum]
    PROVE  PopulationOK' /\ Size' = Cardinality(Filled)
<1>. DEFINE D == {KeyOfLine(i) : i \in Filled}
            key == [i \in Filled |-> KeyOfLine(i)]
<1>. PICK lines : lines = file.lines
  OBVIOUS
<1>1. lines \in Seq(Line) /\ Len(lines) \in Nat /\ DOMAIN lines = 1..Len(lines) /\ Len(lines) <= MaxLines
  BY DEF FileOK, File
<1>2. Filled \in SUBSET (1..Len(lines)) /\ IsFiniteSet(1..Len(lines)) /\ Filled # {}
  <2>1. IsFiniteSet(1..Len(lines))
    BY <1>1, FS_Interval
  <2>2. Filled # {}
    BY DEF Accepts
  <2>. QED  BY <1>1, <2>1, <2>2 DEF Filled
<1>3. IsFiniteSet(Filled)
  BY <1>2, FS_Subset
<1>4. key \in Surjection(Filled, D)
  BY DEF Surjection
<1>5. key \in Injection(Filled, D)
  BY <1>4 DEF Injection, IsInjective, Surjection, Accepts
<1>6. ASSUME NEW i \in Filled PROVE KeyOfLine(i) \in SampleKeys
  <2>. DEFINE upTo == {j \in Filled : j <= i}
  <2>1. i \in 1..Len(lines) /\ Len(lines) \in Nat /\ MaxLines \in Nat
    BY <1>1, <1>2, SamplingAssumption
  <2>2. Cardinality(upTo) \in Nat /\ Cardinality(upTo) <= Len(lines)
    <3>1. upTo \in SUBSET (1..Len(lines))
      BY <1>2
    <3>. HIDE DEF upTo
    <3>2. IsFiniteSet(upTo) /\ Cardinality(upTo) <= Cardinality(1..Len(lines))
      BY <1>2, <3>1, FS_Subset
    <3>3. Cardinality(1..Len(lines)) = Len(lines)
      BY <1>1, FS_Interval
    <3>. QED  BY <3>2, <3>3, FS_CardinalityType
  <2>3. RowNumber(i) \in 1..(MaxLines + 1)
    <3>1. RowNumber(i) = i \/ RowNumber(i) = 1 + Cardinality(upTo)
      BY DEF RowNumber
    <3>. HIDE DEF upTo
    <3>. QED  BY <1>1, <2>1, <2>2, <3>1
  <2>4. lines[i] \in [id : Ids, stratum : Strata]
    BY <1>1, <2>1 DEF Filled, Line
  <2>. QED  BY <2>3, <2>4 DEF KeyOfLine, SampleKeys
<1>7. DOMAIN population' = D /\ D \subseteq SampleKeys /\ D # {}
  BY <1>2, <1>6
<1>. HIDE DEF D, key
<1>8. IsFiniteSet(D) /\ Cardinality(D) = Cardinality(Filled)
  BY <1>3, <1>4, <1>5, FS_Surjection
<1>. QED  BY <1>7, <1>8 DEF PopulationOK, Size

\* Publication leaves a file alone, and so does a draw.
LEMMA FileStays ==
    ASSUME FileOK, UNCHANGED <<file, population>>
    PROVE  FileOK'
<1>1. PopulationOK' = PopulationOK /\ Size' = Size /\ Filled' = Filled
  BY DEF PopulationOK, Size, Filled
<1>. QED  BY <1>1 DEF FileOK

\* Every step of reading, publishing and drawing.
LEMMA SamplingKept ==
    ASSUME SamplingInv, [SamplingNext]_samplingVars
    PROVE  SamplingInv'
<1>1. CASE UNCHANGED samplingVars
  <2>1. file' = file /\ population' = population /\ sample' = sample
    BY <1>1 DEF samplingVars
  <2>2. SampleTells'
    <3>1. /\ Size' = Size /\ StrataHeld' = StrataHeld /\ DOMAIN population' = DOMAIN population
          /\ \A a : Stratum(a)' = Stratum(a) /\ Share(a)' = Share(a)
      BY <2>1 DEF Size, StrataHeld, Share, Stratum
    <3>. QED  BY <2>1, <3>1 DEF SamplingInv, SampleTells
  <2>. QED  BY <2>1, <2>2, FileStays DEF SamplingInv
<1>2. ASSUME file.at # "published", sample' = sample, FileOK' PROVE SamplingInv'
  <2>1. sample = NoSample /\ NoSample.at = "none"
    BY <1>2 DEF SamplingInv, NoSample
  <2>. QED  BY <1>2, <2>1 DEF SamplingInv, SampleTells
<1>3. ASSUME file.at = "published", UNCHANGED <<file, population>>, SampleTells'
      PROVE  SamplingInv'
  <2>1. FileOK'
    BY <1>3, FileStays DEF SamplingInv
  <2>. QED  BY <1>3, <2>1 DEF SamplingInv
<1>. PICK lines : lines = file.lines
  OBVIOUS
<1>4. lines \in Seq(Line) /\ Len(lines) <= MaxLines
  BY DEF SamplingInv, FileOK, File
<1>5. ASSUME NEW f \in Formats, ReadFile(f) PROVE SamplingInv'
  <2>1. file.at # "published"
    BY <1>5 DEF ReadFile, SamplingInv, FileOK
  <2>2. file' \in File /\ file'.at = file.at /\ file'.lines = lines /\ sample' = sample
    BY <1>5 DEF ReadFile, SamplingInv, FileOK, File
  <2>. QED  BY <1>2, <1>4, <2>1, <2>2 DEF FileOK
<1>6. ASSUME NEW line \in Line, ReadLine(line) PROVE SamplingInv'
  <2>. DEFINE more == Append(lines, line)
  <2>1. more \in Seq(Line) /\ Len(more) = Len(lines) + 1
    BY <1>4
  <2>2. Len(lines) < MaxLines /\ Len(lines) \in Nat /\ MaxLines \in Nat
    BY <1>4, <1>6, SamplingAssumption DEF ReadLine
  <2>3. /\ file.at = "reading" /\ sample' = sample
        /\ file' = [file EXCEPT !.lines = more]
    BY <1>6 DEF ReadLine
  <2>. HIDE DEF more
  <2>4. file' \in File /\ file'.at = file.at /\ file'.lines = more
    BY <2>1, <2>3 DEF SamplingInv, FileOK, File
  <2>. QED  BY <1>2, <2>1, <2>2, <2>3, <2>4 DEF FileOK
<1>7. CASE PublishFile
  <2>1. file.at = "reading" /\ file.format # "none" /\ sample' = sample
    BY <1>7 DEF PublishFile
  <2>2. CASE Accepts
    <3>1. PopulationOK' /\ Size' = Cardinality(Filled)
      BY <1>7, <2>2, FileIsWhole DEF PublishFile, SamplingInv
    <3>2. /\ file' \in File /\ file'.at = "published"
          /\ file'.lines = lines /\ file'.format = file.format
      BY <1>7, <2>2 DEF PublishFile, SamplingInv, FileOK, File
    <3>3. Filled' = Filled
      BY <3>2 DEF Filled
    <3>. QED  BY <1>2, <1>4, <2>1, <3>1, <3>2, <3>3 DEF FileOK
  <2>3. CASE ~Accepts
    <3>1. file' \in File /\ file'.at = "refused" /\ file'.lines = lines
      BY <1>7, <2>3 DEF PublishFile, SamplingInv, FileOK, File
    <3>. QED  BY <1>2, <1>4, <2>1, <3>1 DEF FileOK
  <2>. QED  BY <2>2, <2>3
<1>8. ASSUME NEW n \in 0..(MaxImport + 1), NEW rank \in SeedOrders, Draw(n, rank) PROVE SamplingInv'
  <2>1. file.at = "published" /\ UNCHANGED <<file, population>> /\ PopulationOK
    BY <1>8 DEF Draw, SamplingInv, FileOK
  <2>2. CASE n > Size
    <3>1. sample'.at = "422"
      BY <1>8, <2>2 DEF Draw, NoSample
    <3>. QED  BY <1>3, <2>1, <3>1 DEF SampleTells
  <2>3. CASE ~(n > Size)
    <3>. DEFINE keys == FirstOf(DOMAIN population, n, rank)
    <3>1. sample' = [stratified |-> FALSE, size |-> n, rank |-> rank, at |-> "drawn", keys |-> keys]
      BY <1>8, <2>3 DEF Draw
    <3>2. n \in 0..Cardinality(DOMAIN population)
      BY <2>1, <2>3, StrataCount, SamplingAssumption DEF Size
    <3>3. /\ keys \subseteq DOMAIN population /\ Cardinality(keys) = n
          /\ \A k \in keys, l \in DOMAIN population : rank[l] < rank[k] => l \in keys
      BY <2>1, <3>2, FirstAreFirst DEF PopulationOK
    <3>. HIDE DEF keys
    <3>4. /\ sample'.keys = keys /\ sample'.size = n /\ sample'.rank = rank
          /\ sample'.stratified = FALSE /\ DOMAIN population' = DOMAIN population
      BY <2>1, <3>1
    <3>. QED  BY <1>3, <2>1, <3>3, <3>4 DEF SampleTells
  <2>. QED  BY <2>2, <2>3
<1>9. ASSUME NEW n \in 0..(MaxImport + 1), NEW rank \in SeedOrders, DrawStratified(n, rank) PROVE SamplingInv'
  <2>1. file.at = "published" /\ UNCHANGED <<file, population>> /\ PopulationOK /\ n <= Size
    BY <1>9 DEF DrawStratified, SamplingInv, FileOK
  <2>2. PICK G \in Favoured(n) :
           sample' = [stratified |-> TRUE, size |-> n, rank |-> rank, at |-> "drawn",
                      keys |-> Stratified(n, rank, G)]
    BY <1>9 DEF DrawStratified
  <2>. PICK keys : keys = Stratified(n, rank, G)
    OBVIOUS
  <2>3. n \in 0..Size
    BY <2>1, StrataCount, SamplingAssumption
  <2>4. /\ keys \subseteq DOMAIN population /\ Cardinality(keys) = n
        /\ \A k \in keys, l \in DOMAIN population :
              population[k] = population[l] /\ rank[l] < rank[k] => l \in keys
    BY <2>1, <2>3, StratifiedFits
  <2>5. \A a \in StrataHeld :
           /\ Size * Cardinality(keys \cap Stratum(a)) < n * Cardinality(Stratum(a)) + Size
           /\ n * Cardinality(Stratum(a)) < Size * Cardinality(keys \cap Stratum(a)) + Size
    BY <2>1, <2>3, StratifiedFits
  <2>6. /\ sample'.keys = keys /\ sample'.size = n /\ sample'.rank = rank /\ population' = population
        /\ Size' = Size /\ StrataHeld' = StrataHeld /\ \A a : Stratum(a)' = Stratum(a)
    BY <2>1, <2>2 DEF Size, StrataHeld, Stratum
  <2>7. \A a : Share(a)' = Cardinality(keys \cap Stratum(a))
    BY <2>6 DEF Share
  <2>8. \A a \in StrataHeld' :
           /\ Size' * Share(a)' < sample'.size * Cardinality(Stratum(a)') + Size'
           /\ sample'.size * Cardinality(Stratum(a)') < Size' * Share(a)' + Size'
    BY <2>5, <2>6, <2>7
  <2>9. SampleTells'
    BY <2>2, <2>4, <2>6, <2>8 DEF SampleTells
  <2>. QED  BY <1>3, <2>1, <2>9
<1>. QED  BY <1>1, <1>5, <1>6, <1>7, <1>8, <1>9 DEF SamplingNext, Line

\* parse_records, publish_version, deterministic_sample and stratified_sample: a file is
\* published whole, and a sample has the size asked for, the share of every stratum, and
\* the keys its seed puts first, for any file, population and seed.
THEOREM SamplesAreExact == SamplingSpec => []SamplesExact
<1>1. SamplingInit => SamplingInv
  <2>. SUFFICES ASSUME SamplingInit PROVE SamplingInv
    OBVIOUS
  <2>1. file \in File /\ Len(file.lines) <= MaxLines /\ file.at # "published"
    BY SamplingAssumption DEF SamplingInit, File
  <2>. QED  BY <2>1 DEF SamplingInit, SamplingInv, FileOK, SampleTells, NoSample
<1>2. SamplingInv /\ [SamplingNext]_samplingVars => SamplingInv'
  BY SamplingKept
<1>3. SamplingInv => SamplesExact
  BY DEF SamplingInv, FileOK, SampleTells, SamplesExact
<1>. QED  BY <1>1, <1>2, <1>3, PTL DEF SamplingSpec
=============================================================================
