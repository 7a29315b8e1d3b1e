----------------------------- MODULE AuditChain -----------------------------
(***************************************************************************)
(* append_audit_event (infrastructure/audit.py) and the transactions that  *)
(* call it, for one organisation.  The hash of an event covers all of its  *)
(* columns, so it identifies the event: id stands for it, and previous is  *)
(* the id whose hash the event holds, 0 for none.                          *)
(***************************************************************************)
EXTENDS Naturals, Sequences

CONSTANTS
    Writers,         \* the transactions that append events
    Topics,          \* what an event may be about
    Nobody,
    MaxEvents        \* bound: events ever made

ASSUME ChainAssumption ==
    /\ Nobody \notin Writers
    /\ MaxEvents \in Nat

VARIABLES
    log,             \* the committed rows of audit_events, in order of commit
    pending,         \* [Writers -> events flushed and not committed]
    holder,          \* who holds the advisory lock of the organisation
    issued           \* events made so far, their ids are 1..issued

chainVars == <<log, pending, holder, issued>>

Events == [id : Nat, sequence : Nat, previous : Nat, about : Topics]

ChainInit ==
    /\ log = << >>
    /\ pending = [w \in Writers |-> << >>]
    /\ holder = Nobody
    /\ issued = 0

\* Mutant: the flush is missing, and there is no autoflush.
VisibleUnflushed(w) == log

\* The rows a transaction sees: the committed ones and those it has flushed.
Visible(w) == log \o pending[w]

\* ORDER BY sequence DESC LIMIT 1
NewestIn(s) ==
    CHOOSE i \in DOMAIN s : \A j \in DOMAIN s : s[j].sequence <= s[i].sequence

Newest(s) == s[NewestIn(s)]

Extension(s, about) ==
    [id |-> issued + 1,
     sequence |-> IF s = << >> THEN 1 ELSE Newest(s).sequence + 1,
     previous |-> IF s = << >> THEN 0 ELSE Newest(s).id,
     about |-> about]

\* Mutant: nobody waits for the lock.
LockChainUnasked(w) ==
    /\ holder' = w
    /\ UNCHANGED <<log, pending, issued>>

\* pg_advisory_xact_lock: waits while another transaction has the lock.
LockChain(w) ==
    /\ holder = Nobody
    /\ holder' = w
    /\ UNCHANGED <<log, pending, issued>>

\* The head is read and the next event flushed; again, if called again.
AppendEvent(w, about) ==
    /\ holder = w
    /\ issued < MaxEvents
    /\ issued' = issued + 1
    /\ pending' = [pending EXCEPT ![w] = Append(@, Extension(Visible(w), about))]
    /\ UNCHANGED <<log, holder>>

\* The end of a transaction that holds the lock; other commits leave the log alone.
Commit(w) ==
    /\ holder = w
    /\ pending[w] # << >>
    /\ log' = log \o pending[w]
    /\ pending' = [pending EXCEPT ![w] = << >>]
    /\ holder' = Nobody
    /\ UNCHANGED issued

Rollback(w) ==
    /\ holder = w
    /\ pending' = [pending EXCEPT ![w] = << >>]
    /\ holder' = Nobody
    /\ UNCHANGED <<log, issued>>

ChainNext ==
    \E w \in Writers :
        \/ LockChain(w)
        \/ \E about \in Topics : AppendEvent(w, about)
        \/ Commit(w)
        \/ Rollback(w)

ChainSpec == ChainInit /\ [][ChainNext]_chainVars

-----------------------------------------------------------------------------
(* Properties *)

\* A chain: numbered without a gap, each event over the hash of the one before.
Linked(s) ==
    \A i \in DOMAIN s :
        /\ s[i].sequence = i
        /\ s[i].previous = IF i = 1 THEN 0 ELSE s[i - 1].id

\* Each variable has its shape.
ChainTypeOK ==
    /\ log \in Seq(Events)
    /\ pending \in [Writers -> Seq(Events)]
    /\ holder \in Writers \union {Nobody}
    /\ issued \in Nat

\* However transactions interleave, append several events or roll back, the
\* events each of them sees are one chain: the log never forks, and the unique
\* key on the sequence never refuses a commit.
ChainUnbroken == \A w \in Writers : Linked(log \o pending[w])
=============================================================================
