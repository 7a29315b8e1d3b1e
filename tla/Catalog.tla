------------------------------- MODULE Catalog -------------------------------
(***************************************************************************)
(* The catalog of one organisation: requests that create projects, and     *)
(* datasets in a project, each slug once, and clients that list them page  *)
(* by page.                                                                *)
(* A creation takes its identifier and tests its slug in a transaction     *)
(* whose INSERT is not flushed before the commit, and the session of a     *)
(* request is committed when its response has been sent (the exit of a     *)
(* dependency with yield): the answer is given first.  Nobody asks whether *)
(* the project of a new dataset exists, or whether the columns hold the    *)
(* values: the database does, at the commit.  Identifiers of one process   *)
(* increase; those of several replicas come in any order.                  *)
(***************************************************************************)
EXTENDS Naturals, Sequences, SequencesExt, FiniteSets

CONSTANTS
    Creations,          \* numbers, in the order the requests begin
    Readers,
    Slugs, Normal,      \* as given, and what strip().lower() makes of each
    BadSlug,            \* what the pattern of slugs refuses
    Principals,         \* [role, scopes, bound]
    Projects,           \* the projects that requests name, which may not exist
    PageLimits,         \* the limits of page requests
    Versions            \* the keys of a version's records as the database sorts them

\* Record keys are numbered as Python compares them (code points), which need not be
\* the order in which the database's collation sorts them; 0 is no key.
ASSUME CatalogAssumption ==
    /\ Creations \subseteq Nat
    /\ Normal \in [Slugs -> Slugs \union {BadSlug}]
    /\ Projects \subseteq Nat
    /\ PageLimits \subseteq 1..200
    /\ \A keys \in Versions : keys \in Seq(Nat \ {0}) /\ IsInjective(keys)

VARIABLES
    table,       \* the committed rows, an [id, kind, home, slug] each
    creation,    \* [Creations -> the request]
    reader       \* [Readers -> the iteration]

catalogVars == <<table, creation, reader>>

Kinds == {"project", "dataset"}

MaxId == Cardinality(Creations)

\* The home of a dataset is its project; the home of a project is the organisation.
Organisation == 0

Homes(kind) == IF kind = "project" THEN {Organisation} ELSE Projects

NoCreation ==
    [at |-> "new", kind |-> "project", home |-> Organisation, slug |-> BadSlug, id |-> 0,
     seen |-> FALSE, known |-> FALSE, fits |-> FALSE]

NoReader ==
    [at |-> "new", kind |-> "project", home |-> Organisation, keys |-> <<>>,
     after |-> 0, got |-> <<>>, base |-> {}]

CatalogInit ==
    /\ table = {}
    /\ creation = [c \in Creations |-> NoCreation]
    /\ reader = [r \in Readers |-> NoReader]

\* The permissions of the roles that matter here.
RoleActions(role) ==
    CASE role = "viewer" -> {"dataset:read"}
      [] role = "runner" -> {"dataset:read"}
      [] role = "editor" -> {"dataset:read", "dataset:write"}
      [] role = "admin" -> {"dataset:read", "dataset:write", "project:admin"}

\* authorize: the role allows the action, the scopes of an API key do, and the
\* key is not bound to another project than the one the request names.
Authorized(p, action) ==
    /\ action \in RoleActions(p.role)
    /\ p.scopes = {} \/ action \in p.scopes
    /\ action = "project:admin" \/ p.bound # "other"

ActionFor(kind) == IF kind = "project" THEN "project:admin" ELSE "dataset:write"

Refuse4xx(c, status) == creation' = [creation EXCEPT ![c] = [NoCreation EXCEPT !.at = status]]

\* ids taken by creations that got that far.
Taken == {creation[c].id : c \in Creations}

Exists(kind, home, slug) ==
    \E row \in table : row.kind = kind /\ row.home = home /\ row.slug = slug

\* The foreign key of a dataset finds its project.
HomeStored(kind, home) ==
    kind = "project" \/ \E row \in table : row.kind = "project" /\ row.id = home

\* ProjectService.create or create_dataset: refused by authorisation (404) or by
\* validation (422), else the new object waits for the test of its slug.  fits: the
\* columns hold its values (a tag of a dataset may be too long for its column).
Request(c, p, kind, home, raw, fits) ==
    /\ creation[c].at = "new"
    /\ \A d \in Creations : d < c => creation[d].at # "new"
    /\ IF ~Authorized(p, ActionFor(kind)) THEN Refuse4xx(c, "404")
       ELSE IF Normal[raw] = BadSlug THEN Refuse4xx(c, "422")
       ELSE \E id \in (1..MaxId) \ Taken :
               creation' = [creation EXCEPT ![c] =
                  [at |-> "named", kind |-> kind, home |-> home, slug |-> Normal[raw],
                   id |-> id, seen |-> Exists(kind, home, Normal[raw]),
                   known |-> HomeStored(kind, home), fits |-> fits]]
    /\ UNCHANGED <<table, reader>>

SlugSeen(c) == Exists(creation[c].kind, creation[c].home, creation[c].slug)

\* SqlProjectRepository.add, SqlDatasetRepository.add_dataset: the test of the
\* slug; then the object joins the session and the client is answered.
TestSlug(c) ==
    /\ creation[c].at = "named"
    /\ creation' = [creation EXCEPT ![c].at = IF SlugSeen(c) THEN "409" ELSE "201"]
    /\ UNCHANGED <<table, reader>>

\* Mutant: the table has no unique key.
AcceptedUnkeyed(c) == creation[c].fits /\ HomeStored(creation[c].kind, creation[c].home)

\* The columns, the foreign key to the project and the unique key of the slugs.
Accepted(c) ==
    /\ creation[c].fits
    /\ HomeStored(creation[c].kind, creation[c].home)
    /\ ~SlugSeen(c)

\* get_session commits: the INSERT, or a database error that nobody is told of.
CommitCreation(c) ==
    /\ creation[c].at = "201"
    /\ IF Accepted(c)
       THEN /\ table' = table \union {[id |-> creation[c].id, kind |-> creation[c].kind,
                                       home |-> creation[c].home, slug |-> creation[c].slug]}
            /\ creation' = [creation EXCEPT ![c].at = "stored"]
       ELSE /\ creation' = [creation EXCEPT ![c].at = "displaced"]
            /\ UNCHANGED table
    /\ UNCHANGED reader

\* The process goes away, before or after the answer.
CreationDies(c) ==
    /\ creation[c].at \in {"named", "201"}
    /\ creation' = [creation EXCEPT ![c] = [NoCreation EXCEPT !.at = "died", !.id = creation[c].id]]
    /\ UNCHANGED <<table, reader>>

-----------------------------------------------------------------------------
(* Lists.  limit + 1 rows tell whether there is another page.               *)

RowIds(kind, home) == {row.id : row \in {x \in table : x.kind = kind /\ x.home = home}}

\* ORDER BY: the numbers of a set from the smallest.
Nth(S, n) == CHOOSE i \in S : Cardinality({j \in S : j < i}) = n - 1

InOrder(S) == [n \in 1..Cardinality(S) |-> Nth(S, n)]

\* The rows of a list after a cursor, in the order of their ids.
RowsAfter(kind, home, after) == InOrder({i \in RowIds(kind, home) : i > after})

\* The records of a version: the order is the database's, the cut at the cursor is
\* Python's (record.key > after).
RecordsAfter(keys, after) ==
    LET places == InOrder({p \in DOMAIN keys : keys[p] > after})
    IN  [n \in DOMAIN places |-> keys[places[n]]]

\* Mutant: the rows of a list come in the order they were found.
AfterUnsorted(x) ==
    IF x.kind = "record" THEN RecordsAfter(x.keys, x.after)
    ELSE Reverse(RowsAfter(x.kind, x.home, x.after))

\* What a reader has still to see.
After(x) ==
    IF x.kind = "record" THEN RecordsAfter(x.keys, x.after)
    ELSE RowsAfter(x.kind, x.home, x.after)

\* A client begins to iterate; base is what it may expect to see.
StartReading(r, kind, home) ==
    /\ reader[r].at = "new"
    /\ reader' = [reader EXCEPT ![r] =
          [at |-> "reading", kind |-> kind, home |-> home, keys |-> <<>>,
           after |-> 0, got |-> <<>>, base |-> RowIds(kind, home)]]
    /\ UNCHANGED <<table, creation>>

StartRecords(r, keys) ==
    /\ reader[r].at = "new"
    /\ reader' = [reader EXCEPT ![r] =
          [at |-> "reading", kind |-> "record", home |-> Organisation, keys |-> keys,
           after |-> 0, got |-> <<>>, base |-> ToSet(keys)]]
    /\ UNCHANGED <<table, creation>>

\* One page: its items, and a cursor if there are more.
ReadPage(r, limit) ==
    LET rows == After(reader[r])
        hasMore == Len(rows) > limit
        page == SubSeq(rows, 1, IF hasMore THEN limit ELSE Len(rows))
    IN
    /\ reader[r].at = "reading"
    /\ reader' = [reader EXCEPT ![r].got = @ \o page,
                                ![r].after = IF hasMore THEN Last(page) ELSE 0,
                                ![r].at = IF hasMore THEN @ ELSE "done"]
    /\ UNCHANGED <<table, creation>>

\* A page request fails, which ends the iteration with an error.
ReadFails(r) ==
    /\ reader[r].at = "reading"
    /\ reader' = [reader EXCEPT ![r] = [NoReader EXCEPT !.at = "failed"]]
    /\ UNCHANGED <<table, creation>>

CatalogNext ==
    \/ \E c \in Creations :
          \/ TestSlug(c) \/ CommitCreation(c) \/ CreationDies(c)
          \/ \E p \in Principals, k \in Kinds, s \in Slugs, fits \in BOOLEAN :
                \E home \in Homes(k) : Request(c, p, k, home, s, fits)
    \/ \E r \in Readers :
          \/ ReadFails(r) \/ \E limit \in PageLimits : ReadPage(r, limit)
          \/ \E k \in Kinds : \E home \in Homes(k) : StartReading(r, k, home)
          \/ \E keys \in Versions : StartRecords(r, keys)

CatalogSpec == CatalogInit /\ [][CatalogNext]_catalogVars

-----------------------------------------------------------------------------
(* Properties *)

\* What the answers of racing creations are worth, although each is given before
\* its commit: rows are exactly the creations stored, which fit, one for a slug of a
\* home, and every dataset's project is stored; a creation is refused only where
\* another one of its kind and home holds the slug, and so is one displaced after it
\* was told 201, unless its project was not stored when it was asked (nobody tests
\* that) or its values do not fit; none is told 201 for a slug held when it was asked.
CreationsTold ==
    /\ table = {[id |-> creation[c].id, kind |-> creation[c].kind,
                 home |-> creation[c].home, slug |-> creation[c].slug] :
                   c \in {d \in Creations : creation[d].at = "stored"}}
    /\ \A row, other \in table :
          row.kind = other.kind /\ row.home = other.home /\ row.slug = other.slug => row = other
    /\ \A row \in table : HomeStored(row.kind, row.home)
    /\ \A c \in Creations :
          /\ \/ creation[c].at = "409"
             \/ creation[c].at = "displaced" /\ creation[c].known /\ creation[c].fits
             => \E row \in table :
                   /\ row.kind = creation[c].kind /\ row.home = creation[c].home
                   /\ row.slug = creation[c].slug /\ row.id # creation[c].id
          /\ creation[c].at \in {"201", "stored", "displaced"} => ~creation[c].seen
          /\ creation[c].at = "stored" => creation[c].fits

\* The database sorts g before k, and Python compares k as the smaller one.  A page
\* that ends with g hides k from the next ones; one that ends with k brings g again.
Misplaced(keys, g, k) ==
    /\ k < g
    /\ \E i, j \in DOMAIN keys : i < j /\ keys[i] = g /\ keys[j] = k

\* A client that iterates a list, with any limits, while rows are committed below and
\* above its cursor gets nothing that is not stored, and every row that was there when
\* it began, each once and in order.  Of the records of a version one is missing, got
\* twice or got out of order only where one that was got is misplaced: where the
\* orders of the database and of Python agree, all are got, each once and in order.
PagesComplete ==
    \A r \in Readers :
        LET got == ToSet(reader[r].got)
            Before(g, k) == Misplaced(reader[r].keys, g, k)
        IN
        /\ \A i, j \in DOMAIN reader[r].got :
              i < j => \/ reader[r].got[i] < reader[r].got[j]
                       \/ \E k \in got : Before(reader[r].got[i], k)
        /\ reader[r].at = "done" =>
              \A k \in reader[r].base : k \in got \/ \E g \in got : Before(g, k)
        /\ got \subseteq
              IF reader[r].kind = "record" THEN ToSet(reader[r].keys)
              ELSE RowIds(reader[r].kind, reader[r].home)
=============================================================================
