--------------------------- MODULE ServiceAccounts ---------------------------
(***************************************************************************)
(* The requests that create and revoke the service accounts of one         *)
(* organisation (api/routes/access.py), from authentication                *)
(* (api/dependencies.py) to commit, with the audit events they append.     *)
(* A request is one transaction of AuditChain.  Authenticating by an API   *)
(* key sets last_used_at, so the session keeps that object until its flush *)
(* and a later SELECT ... FOR UPDATE of the same row does not refresh it.  *)
(* Callers are administrators of their project; accounts do not expire.    *)
(***************************************************************************)
EXTENDS AuditChain, FiniteSets

CONSTANTS
    Accounts,
    Operator         \* a caller without an API key (development mode)

ASSUME AccountsAssumption ==
    /\ Operator \notin Accounts
    /\ {"create", "revoke"} \X Accounts \subseteq Topics

VARIABLES
    accounts,        \* the committed rows: [Accounts -> "absent", "active", "revoked"]
    request          \* [Writers -> the request the transaction serves]

accountVars == <<accounts, request>>

Idle == [at |-> "idle", caller |-> Operator, action |-> "revoke", target |-> Operator]

Places == {"idle", "started", "changed", "logging", "closing"}

AccountsInit ==
    /\ ChainInit
    /\ accounts = [a \in Accounts |-> "absent"]
    /\ request = [w \in Writers |-> Idle]

Goes(w, place) == request' = [request EXCEPT ![w].at = place]

\* The rows a request has locked: the target once it is read FOR UPDATE, the
\* caller's own once last_used_at is flushed.
RowsHeld(w) ==
    LET r == request[w] IN
    (IF r.action = "revoke" /\ r.at \in {"changed", "logging", "closing"}
     THEN {r.target} ELSE {})
    \union
    (IF \/ r.action = "create" /\ r.at \in {"changed", "logging"}
        \/ r.at = "closing" /\ holder = w
     THEN {r.caller} \ {Operator} ELSE {})

RowFree(w, a) == \A v \in Writers \ {w} : a \notin RowsHeld(v)

\* get_principal, and the checks of the route.
Authenticate(w, caller, action, target) ==
    /\ request[w].at = "idle" /\ holder # w
    /\ caller # Operator => accounts[caller] = "active"
    /\ action = "revoke" => accounts[target] # "absent"
    /\ action = "create" => accounts[target] = "absent" /\ \A v \in Writers :
          request[v].at # "idle" => request[v].target # target
    /\ request' = [request EXCEPT ![w] =
          [at |-> "started", caller |-> caller, action |-> action, target |-> target]]
    /\ UNCHANGED <<chainVars, accounts>>

\* create_service_account: the first flush writes the account and last_used_at.
FlushAccount(w) ==
    /\ request[w].at = "started" /\ request[w].action = "create"
    /\ RowFree(w, request[w].caller)
    /\ Goes(w, "changed")
    /\ UNCHANGED <<chainVars, accounts>>

\* What the SELECT ... FOR UPDATE of the target returns: the object made at
\* authentication if the account revokes itself, else the row.
Seen(w) ==
    IF request[w].caller = request[w].target THEN "active" ELSE accounts[request[w].target]

\* revoke_service_account: the row is locked; revoked_at is set if it is not.
LockAccount(w) ==
    /\ request[w].at = "started" /\ request[w].action = "revoke"
    /\ RowFree(w, request[w].target)
    /\ Goes(w, IF Seen(w) = "revoked" THEN "closing" ELSE "changed")
    /\ UNCHANGED <<chainVars, accounts>>

\* append_audit_event begins.
LockLog(w) ==
    /\ request[w].at = "changed"
    /\ LockChain(w)
    /\ Goes(w, "logging")
    /\ UNCHANGED accounts

\* Mutant: the audit event is written in a transaction of its own.
LogEventApart(w) ==
    /\ request[w].at = "logging"
    /\ RowFree(w, request[w].caller)
    /\ issued < MaxEvents
    /\ issued' = issued + 1
    /\ log' = Append(log, Extension(log, <<request[w].action, request[w].target>>))
    /\ Goes(w, "closing")
    /\ UNCHANGED <<pending, holder, accounts>>

\* Its flush writes the event, revoked_at and the caller's last_used_at.
LogEvent(w) ==
    /\ request[w].at = "logging"
    /\ RowFree(w, request[w].caller)
    /\ AppendEvent(w, <<request[w].action, request[w].target>>)
    /\ Goes(w, "closing")
    /\ UNCHANGED accounts

\* The commit of the request; without an event it only writes last_used_at.
Close(w) ==
    /\ request[w].at = "closing"
    /\ request' = [request EXCEPT ![w] = Idle]
    /\ \/ /\ holder = w
          /\ Commit(w)
          /\ accounts' = [accounts EXCEPT ![request[w].target] =
                IF request[w].action = "create" THEN "active" ELSE "revoked"]
       \/ /\ holder # w
          /\ RowFree(w, request[w].caller)
          /\ UNCHANGED <<chainVars, accounts>>

\* The request fails, its client or process goes away, or PostgreSQL ends a
\* deadlock (two accounts that revoke each other wait for each other's row).
Fail(w) ==
    /\ request[w].at # "idle"
    /\ request' = [request EXCEPT ![w] = Idle]
    /\ IF holder = w THEN Rollback(w) ELSE UNCHANGED chainVars
    /\ UNCHANGED accounts

\* The analysis routes append events about their own subjects.
OtherRequest(w) ==
    /\ request[w].at = "idle"
    /\ \/ LockChain(w) \/ Commit(w) \/ Rollback(w)
       \/ \E about \in Topics \ ({"create", "revoke"} \X Accounts) : AppendEvent(w, about)
    /\ UNCHANGED accountVars

AccountsNext ==
    \E w \in Writers :
        \/ \E caller \in Accounts \union {Operator}, action \in {"create", "revoke"},
              target \in Accounts : Authenticate(w, caller, action, target)
        \/ OtherRequest(w)
        \/ FlushAccount(w) \/ LockAccount(w) \/ LockLog(w)
        \/ LogEvent(w) \/ Close(w) \/ Fail(w)

AccountsSpec == AccountsInit /\ [][AccountsNext]_<<chainVars, accountVars>>

-----------------------------------------------------------------------------
(* Properties *)

Reported(action, a) == Cardinality({i \in DOMAIN log : log[i].about = <<action, a>>})

\* The log and the rows tell the same story at every commit, whatever fails in
\* between: one creation for each account there is, a revocation for each that is
\* revoked, and none for any other.
LogTellsAccounts ==
    \A a \in Accounts :
        /\ Reported("create", a) = IF accounts[a] = "absent" THEN 0 ELSE 1
        /\ Reported("revoke", a) > 0 <=> accounts[a] = "revoked"

\* "Idempotently revoke a service-account credential." (access.py): repeating the
\* request does not revoke again.
RevokedOnce == \A a \in Accounts : Reported("revoke", a) <= 1
=============================================================================
