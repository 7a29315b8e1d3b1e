-------------------------- MODULE AuditChainProofs --------------------------
(***************************************************************************)
(* The audit chain is unbroken for any number of writers and of events,    *)
(* the requests on service accounts use it as its transactions do, and     *)
(* what they leave in it is what they leave in the rows.                   *)
(***************************************************************************)
EXTENDS ServiceAccounts, FiniteSetTheorems, TLAPS

\* Only the transaction that holds the lock has events to commit.
HolderWrites == \A w \in Writers : pending[w] # << >> => holder = w

ChainInv == ChainTypeOK /\ HolderWrites /\ ChainUnbroken

-----------------------------------------------------------------------------

\* Events of a transaction follow the committed ones.
LEMMA Following ==
    ASSUME NEW s \in Seq(Events), NEW t \in Seq(Events), NEW e \in Events
    PROVE  /\ s \o t \in Seq(Events)
           /\ s \o << >> = s
           /\ s \o Append(t, e) = Append(s \o t, e)
<1>1. s \o t \in Seq(Events) /\ s \o << >> = s
  OBVIOUS
<1>2. s \o Append(t, e) = Append(s \o t, e)
  OBVIOUS
<1>. QED  BY <1>1, <1>2

\* In a chain the row with the highest sequence is the last one.
LEMMA NewestIsLast ==
    ASSUME NEW s \in Seq(Events), s # << >>, Linked(s)
    PROVE  NewestIn(s) = Len(s) /\ Newest(s) = s[Len(s)]
<1>1. Len(s) \in DOMAIN s /\ DOMAIN s = 1..Len(s)
  OBVIOUS
<1>2. \A j \in DOMAIN s : s[j].sequence <= s[Len(s)].sequence
  BY <1>1 DEF Linked
<1>3. ASSUME NEW i \in DOMAIN s, \A j \in DOMAIN s : s[j].sequence <= s[i].sequence
      PROVE  i = Len(s)
  BY <1>1, <1>3 DEF Linked
<1>4. NewestIn(s) = Len(s)
  BY <1>1, <1>2, <1>3 DEF NewestIn
<1>. QED  BY <1>4 DEF Newest

\* What append_audit_event makes of a chain extends it.
LEMMA ExtensionLinks ==
    ASSUME NEW s \in Seq(Events), Linked(s), NEW about \in Topics, issued \in Nat
    PROVE  /\ Extension(s, about) \in Events
           /\ Linked(Append(s, Extension(s, about)))
<1>. DEFINE e == Extension(s, about)
<1>1. CASE s = << >>
  <2>1. e = [id |-> issued + 1, sequence |-> 1, previous |-> 0, about |-> about]
    BY <1>1 DEF Extension
  <2>. HIDE DEF e
  <2>2. e \in Events
    BY <2>1 DEF Events
  <2>3. Append(s, e) = <<e>>
    BY <1>1
  <2>. QED  BY <2>1, <2>2, <2>3 DEF Linked, e
<1>2. CASE s # << >>
  <2>1. /\ Len(s) \in DOMAIN s
        /\ Newest(s) = s[Len(s)]
        /\ s[Len(s)] \in Events
        /\ s[Len(s)].sequence = Len(s)
    BY <1>2, NewestIsLast DEF Linked
  <2>2. e = [id |-> issued + 1, sequence |-> Len(s) + 1,
             previous |-> s[Len(s)].id, about |-> about]
    BY <1>2, <2>1 DEF Extension
  <2>. HIDE DEF e
  <2>3. e \in Events
    BY <2>1, <2>2 DEF Events
  <2>4. ASSUME NEW i \in DOMAIN Append(s, e)
        PROVE  /\ Append(s, e)[i].sequence = i
               /\ Append(s, e)[i].previous = IF i = 1 THEN 0 ELSE Append(s, e)[i - 1].id
    <3>0. i \in 1..(Len(s) + 1) /\ Len(s) \in Nat \ {0}
      BY <1>2, <2>3
    <3>1. CASE i = Len(s) + 1
      <4>1. Append(s, e)[i] = e /\ Append(s, e)[i - 1] = s[Len(s)] /\ i # 1
        BY <2>3, <3>0, <3>1
      <4>. QED  BY <2>2, <3>1, <4>1
    <3>2. CASE i \in 1..Len(s)
      <4>1. Append(s, e)[i] = s[i] /\ (i # 1 => Append(s, e)[i - 1] = s[i - 1])
        BY <2>3, <3>0, <3>2
      <4>. QED  BY <3>2, <4>1 DEF Linked
    <3>. QED  BY <3>0, <3>1, <3>2
  <2>5. Linked(Append(s, e))
    BY <2>4 DEF Linked
  <2>. QED  BY <2>3, <2>5 DEF e
<1>. QED  BY <1>1, <1>2

\* The empty log is a chain.
LEMMA ChainStarts == ChainInit => ChainInv
<1>. SUFFICES ASSUME ChainInit PROVE ChainInv
  OBVIOUS
<1>1. ChainTypeOK
  BY DEF ChainInit, ChainTypeOK
<1>2. HolderWrites
  BY DEF ChainInit, HolderWrites
<1>3. ChainUnbroken
  <2>1. ASSUME NEW w \in Writers PROVE log \o pending[w] = << >>
    BY DEF ChainInit
  <2>. QED  BY <2>1 DEF ChainUnbroken, Linked
<1>. QED  BY <1>1, <1>2, <1>3 DEF ChainInv

\* Every step of every writer keeps the chain.
LEMMA ChainKept == ChainInv /\ [ChainNext]_chainVars => ChainInv'
<1>. SUFFICES ASSUME ChainInv, [ChainNext]_chainVars PROVE ChainInv'
  OBVIOUS
<1>. USE ChainAssumption
<1>0. ChainTypeOK /\ HolderWrites /\ ChainUnbroken
  BY DEF ChainInv
<1>1. ASSUME NEW w \in Writers, LockChain(w) PROVE ChainInv'
  <2>1. UNCHANGED <<log, pending, issued>> /\ holder = Nobody /\ holder' = w
    BY <1>1 DEF LockChain
  <2>2. ChainTypeOK'
    BY <1>0, <2>1 DEF ChainTypeOK
  <2>3. HolderWrites'
    BY <1>0, <2>1 DEF HolderWrites
  <2>4. ChainUnbroken'
    BY <1>0, <2>1 DEF ChainUnbroken
  <2>. QED  BY <2>2, <2>3, <2>4 DEF ChainInv
<1>2. ASSUME NEW w \in Writers, NEW about \in Topics, AppendEvent(w, about)
      PROVE  ChainInv'
  <2>. DEFINE e == Extension(Visible(w), about)
  <2>1. /\ UNCHANGED <<log, holder>> /\ holder = w /\ issued' = issued + 1
        /\ pending' = [pending EXCEPT ![w] = Append(@, e)]
    BY <1>2 DEF AppendEvent
  <2>2. Visible(w) \in Seq(Events) /\ Linked(Visible(w))
    BY <1>0, Following DEF Visible, ChainTypeOK, ChainUnbroken
  <2>3. e \in Events /\ Linked(Append(Visible(w), e))
    BY <1>0, <2>2, ExtensionLinks DEF ChainTypeOK
  <2>. HIDE DEF e
  <2>4. pending'[w] = Append(pending[w], e) /\ pending[w] \in Seq(Events)
    BY <1>0, <2>1 DEF ChainTypeOK
  <2>5. \A v \in Writers \ {w} : pending'[v] = pending[v]
    BY <1>0, <2>1 DEF ChainTypeOK
  <2>6. ChainTypeOK'
    <3>1. Append(pending[w], e) \in Seq(Events)
      BY <2>3, <2>4
    <3>. QED  BY <1>0, <2>1, <3>1 DEF ChainTypeOK
  <2>7. HolderWrites'
    BY <1>0, <2>1, <2>5 DEF HolderWrites
  <2>8. ChainUnbroken'
    <3>1. ASSUME NEW v \in Writers PROVE Linked(log \o pending'[v])
      <4>1. CASE v = w
        <5>1. log \o Append(pending[w], e) = Append(log \o pending[w], e)
          BY <1>0, <2>3, <2>4, Following DEF ChainTypeOK
        <5>. QED  BY <2>3, <2>4, <4>1, <5>1 DEF Visible
      <4>2. CASE v # w
        BY <1>0, <2>5, <4>2 DEF ChainUnbroken
      <4>. QED  BY <4>1, <4>2
    <3>. QED  BY <2>1, <3>1 DEF ChainUnbroken
  <2>. QED  BY <2>6, <2>7, <2>8 DEF ChainInv
<1>3. ASSUME NEW w \in Writers, Commit(w) PROVE ChainInv'
  <2>1. /\ log' = log \o pending[w] /\ pending' = [pending EXCEPT ![w] = << >>]
        /\ holder = w /\ holder' = Nobody /\ UNCHANGED issued
    BY <1>3 DEF Commit
  <2>2. log \in Seq(Events) /\ pending[w] \in Seq(Events)
    BY <1>0 DEF ChainTypeOK
  <2>3. log' \in Seq(Events)
    BY <2>1, <2>2
  <2>4. ChainTypeOK'
    BY <1>0, <2>1, <2>3 DEF ChainTypeOK
  <2>5. ASSUME NEW v \in Writers PROVE pending'[v] = << >>
    BY <1>0, <2>1 DEF HolderWrites, ChainTypeOK
  <2>6. ASSUME NEW v \in Writers PROVE Linked(log' \o pending'[v])
    <3>1. log' \o << >> = log'
      BY <2>3
    <3>. QED  BY <1>0, <2>1, <2>5, <3>1 DEF ChainUnbroken
  <2>. QED  BY <2>4, <2>5, <2>6 DEF ChainInv, HolderWrites, ChainUnbroken
<1>4. ASSUME NEW w \in Writers, Rollback(w) PROVE ChainInv'
  <2>1. /\ pending' = [pending EXCEPT ![w] = << >>]
        /\ holder = w /\ holder' = Nobody /\ UNCHANGED <<log, issued>>
    BY <1>4 DEF Rollback
  <2>2. log \in Seq(Events) /\ pending[w] \in Seq(Events)
    BY <1>0 DEF ChainTypeOK
  <2>3. ChainTypeOK'
    BY <1>0, <2>1 DEF ChainTypeOK
  <2>4. ASSUME NEW v \in Writers PROVE pending'[v] = << >>
    BY <1>0, <2>1 DEF HolderWrites, ChainTypeOK
  <2>5. Linked(log)
    \* a chain's prefix is a chain
    <3>1. ASSUME NEW i \in DOMAIN log
          PROVE  /\ i \in DOMAIN (log \o pending[w])
                 /\ (log \o pending[w])[i] = log[i]
                 /\ i # 1 => (log \o pending[w])[i - 1] = log[i - 1]
      BY <2>2
    <3>. QED  BY <1>0, <3>1 DEF ChainUnbroken, Linked
  <2>6. ASSUME NEW v \in Writers PROVE Linked(log' \o pending'[v])
    <3>1. log \o << >> = log
      BY <2>2
    <3>. QED  BY <2>1, <2>4, <2>5, <3>1
  <2>. QED  BY <2>3, <2>4, <2>6 DEF ChainInv, HolderWrites, ChainUnbroken
<1>5. CASE UNCHANGED chainVars
  BY <1>0, <1>5 DEF ChainInv, ChainTypeOK, HolderWrites, ChainUnbroken, chainVars
<1>. QED  BY <1>1, <1>2, <1>3, <1>4, <1>5 DEF ChainNext

\* However transactions interleave, the events each one sees are one chain
\* without gaps, and so is the log they leave.
THEOREM ChainHolds == ChainSpec => []ChainUnbroken
<1>1. ChainInv => ChainUnbroken
  BY DEF ChainInv
<1>. QED  BY ChainStarts, ChainKept, <1>1, PTL DEF ChainSpec

-----------------------------------------------------------------------------
(* Requests on service accounts *)

AccountActions == {"create", "revoke"}

RequestRow == [at : Places, caller : Accounts \union {Operator},
               action : AccountActions, target : Accounts \union {Operator}]

AccountsTypeOK ==
    /\ accounts \in [Accounts -> {"absent", "active", "revoked"}]
    /\ request \in [Writers -> RequestRow]
    /\ \A w \in Writers : request[w].at # "idle" => request[w].target \in Accounts

\* What the event of a request is about.
Subject(w) == <<request[w].action, request[w].target>>

\* What a transaction has flushed is what its request has come to: nothing
\* before append_audit_event, its one event after it, and other subjects'
\* events if it serves no request of this kind.
WriterFits(w) ==
    /\ request[w].at = "idle" =>
          \A i \in DOMAIN pending[w] : pending[w][i].about \notin AccountActions \X Accounts
    /\ request[w].at \in {"started", "changed"} => holder # w
    /\ request[w].at = "logging" => holder = w /\ pending[w] = << >>
    /\ request[w].at = "closing" /\ holder = w =>
          Len(pending[w]) = 1 /\ pending[w][1].about = Subject(w)

PendingFits == \A w \in Writers : WriterFits(w)

\* What a request is about to create is not there and nobody else's to create;
\* what it is about to revoke is there.
TargetsFit ==
    \A w \in Writers :
        request[w].at # "idle" =>
            IF request[w].action = "create"
            THEN /\ accounts[request[w].target] = "absent"
                 /\ \A v \in Writers \ {w} :
                       request[v].at # "idle" => request[v].target # request[w].target
            ELSE accounts[request[w].target] # "absent"

AccountsInv ==
    /\ ChainInv /\ AccountsTypeOK
    /\ PendingFits /\ TargetsFit /\ LogTellsAccounts

\* The number of a log's events about a subject.
Count(s, x) == Cardinality({i \in DOMAIN s : s[i].about = x})

-----------------------------------------------------------------------------

\* The events about a subject are finitely many.
LEMMA CountType ==
    ASSUME NEW s \in Seq(Events), NEW x
    PROVE  IsFiniteSet({i \in DOMAIN s : s[i].about = x}) /\ Count(s, x) \in Nat
<1>1. IsFiniteSet(1..Len(s)) /\ DOMAIN s = 1..Len(s)
  BY FS_Interval
<1>2. IsFiniteSet({i \in DOMAIN s : s[i].about = x})
  BY <1>1, FS_Subset
<1>. QED  BY <1>2, FS_CardinalityType DEF Count

\* One more event counts for what it is about.
LEMMA CountAppend ==
    ASSUME NEW s \in Seq(Events), NEW e \in Events, NEW x
    PROVE  Count(Append(s, e), x) = Count(s, x) + (IF e.about = x THEN 1 ELSE 0)
<1>. DEFINE old == {i \in DOMAIN s : s[i].about = x}
            new == {i \in DOMAIN Append(s, e) : Append(s, e)[i].about = x}
<1>1. /\ Len(s) \in Nat /\ DOMAIN s = 1..Len(s)
      /\ DOMAIN Append(s, e) = 1..(Len(s) + 1)
      /\ \A i \in 1..Len(s) : Append(s, e)[i] = s[i]
      /\ Append(s, e)[Len(s) + 1] = e
  OBVIOUS
<1>2. IsFiniteSet(old)
  BY CountType
<1>3. Len(s) + 1 \notin old
  BY <1>1
<1>4. CASE e.about = x
  <2>1. new = old \union {Len(s) + 1}
    BY <1>1, <1>4
  <2>. HIDE DEF old, new
  <2>2. Cardinality(new) = Cardinality(old) + 1
    BY <1>2, <1>3, <2>1, FS_AddElement
  <2>. QED  BY <1>4, <2>2 DEF Count, old, new
<1>5. CASE e.about # x
  <2>1. new = old
    BY <1>1, <1>5
  <2>2. Count(s, x) \in Nat
    BY CountType
  <2>3. Count(Append(s, e), x) = Count(s, x)
    BY <2>1 DEF Count
  <2>. QED  BY <1>5, <2>2, <2>3
<1>. QED  BY <1>4, <1>5

\* Events about other subjects do not count.
LEMMA CountOthers ==
    ASSUME NEW s \in Seq(Events), NEW t \in Seq(Events), NEW x,
           \A i \in DOMAIN t : t[i].about # x
    PROVE  Count(s \o t, x) = Count(s, x)
<1>1. \A i \in DOMAIN (s \o t) :
          \/ i \in DOMAIN s /\ (s \o t)[i] = s[i]
          \/ i \notin DOMAIN s /\ i - Len(s) \in DOMAIN t /\ (s \o t)[i] = t[i - Len(s)]
  OBVIOUS
<1>2. \A i \in DOMAIN s : i \in DOMAIN (s \o t) /\ (s \o t)[i] = s[i]
  OBVIOUS
<1>3. {i \in DOMAIN (s \o t) : (s \o t)[i].about = x} = {i \in DOMAIN s : s[i].about = x}
  BY <1>1, <1>2
<1>. QED  BY <1>3 DEF Count

\* The last part of every request: it becomes another, or none.
LEMMA RequestMoves ==
    ASSUME AccountsTypeOK, NEW w \in Writers, NEW row \in RequestRow,
           row.at # "idle" => row.target \in Accounts,
           request' = [request EXCEPT ![w] = row]
    PROVE  /\ request' \in [Writers -> RequestRow]
           /\ \A v \in Writers : request'[v].at # "idle" => request'[v].target \in Accounts
           /\ request'[w] = row
           /\ \A v \in Writers \ {w} : request'[v] = request[v]
BY DEF AccountsTypeOK

\* The places are reached by the request that was there.
LEMMA GoesMoves ==
    ASSUME AccountsTypeOK, NEW w \in Writers, NEW place \in Places, Goes(w, place),
           request[w].at # "idle"
    PROVE  /\ request' \in [Writers -> RequestRow]
           /\ \A v \in Writers : request'[v].at # "idle" => request'[v].target \in Accounts
           /\ request'[w].at = place /\ request'[w].action = request[w].action
           /\ request'[w].target = request[w].target /\ request'[w].caller = request[w].caller
           /\ \A v \in Writers \ {w} : request'[v] = request[v]
<1>1. request[w] \in RequestRow /\ request[w].target \in Accounts
  BY DEF AccountsTypeOK
<1>2. request' = [request EXCEPT ![w] = [request[w] EXCEPT !.at = place]]
  BY DEF Goes
<1>3. [request[w] EXCEPT !.at = place] \in RequestRow
  BY <1>1 DEF RequestRow
<1>. QED  BY <1>1, <1>2, <1>3, RequestMoves DEF RequestRow

\* A step of the requests is a step of the audit log's transactions, or leaves
\* the log alone.
LEMMA RequestsAppend ==
    ASSUME AccountsTypeOK, [AccountsNext]_<<chainVars, accountVars>>
    PROVE  [ChainNext]_chainVars
<1>1. ASSUME NEW w \in Writers, OtherRequest(w) PROVE ChainNext
  BY <1>1 DEF OtherRequest, ChainNext
<1>2. ASSUME NEW w \in Writers, LockLog(w) PROVE ChainNext
  BY <1>2 DEF LockLog, ChainNext
<1>3. ASSUME NEW w \in Writers, LogEvent(w) PROVE ChainNext
  <2>1. Subject(w) \in Topics
    BY <1>3, AccountsAssumption DEF LogEvent, AccountsTypeOK, RequestRow, AccountActions, Subject
  <2>2. AppendEvent(w, Subject(w))
    BY <1>3 DEF LogEvent, Subject
  <2>. QED  BY <2>1, <2>2 DEF ChainNext
<1>4. ASSUME NEW w \in Writers, Close(w) PROVE [ChainNext]_chainVars
  BY <1>4 DEF Close, ChainNext
<1>5. ASSUME NEW w \in Writers, Fail(w) PROVE [ChainNext]_chainVars
  BY <1>5 DEF Fail, ChainNext
<1>6. ASSUME NEW w \in Writers, FlushAccount(w) \/ LockAccount(w) PROVE UNCHANGED chainVars
  BY <1>6 DEF FlushAccount, LockAccount
<1>7. ASSUME NEW w \in Writers, NEW caller, NEW action, NEW target,
             Authenticate(w, caller, action, target)
      PROVE  UNCHANGED chainVars
  BY <1>7 DEF Authenticate
<1>. QED  BY <1>1, <1>2, <1>3, <1>4, <1>5, <1>6, <1>7 DEF AccountsNext

\* What an operation on the log leaves alone: everything of the other transactions.
LEMMA LogFrame ==
    ASSUME ChainInv, NEW w \in Writers,
           \/ LockChain(w) \/ Commit(w) \/ Rollback(w)
           \/ \E about \in Topics : AppendEvent(w, about)
    PROVE  /\ holder \in {w, Nobody} /\ holder' \in {w, Nobody}
           /\ \A v \in Writers \ {w} : pending'[v] = pending[v]
<1>1. pending \in [Writers -> Seq(Events)]
  BY DEF ChainInv, ChainTypeOK
<1>. QED  BY <1>1 DEF LockChain, Commit, Rollback, AppendEvent

\* What the step of another writer leaves to a transaction.
LEMMA OtherFits ==
    ASSUME NEW v \in Writers, WriterFits(v), request'[v] = request[v],
           pending'[v] = pending[v],
           \/ holder' = holder
           \/ \E w \in Writers \ {v} : holder \in {w, Nobody} /\ holder' \in {w, Nobody}
    PROVE  WriterFits(v)'
BY ChainAssumption DEF WriterFits, Subject

\* What is to be created or revoked stays so while no row changes.
LEMMA TargetsStay ==
    ASSUME TargetsFit, accounts' = accounts, NEW w \in Writers,
           \A v \in Writers \ {w} : request'[v] = request[v],
           \/ request'[w].at = "idle"
           \/ /\ request[w].at # "idle" /\ request'[w].action = request[w].action
              /\ request'[w].target = request[w].target
    PROVE  TargetsFit'
BY DEF TargetsFit

\* What the rows and the log say stays so while neither changes.
LEMMA TellsStay ==
    ASSUME LogTellsAccounts, accounts' = accounts, log' = log
    PROVE  LogTellsAccounts'
BY DEF LogTellsAccounts, Reported

\* A request is authenticated.
LEMMA AuthenticateKeeps ==
    ASSUME AccountsInv, NEW w \in Writers, NEW caller \in Accounts \union {Operator},
           NEW action \in AccountActions, NEW target \in Accounts,
           Authenticate(w, caller, action, target)
    PROVE  AccountsTypeOK' /\ PendingFits' /\ TargetsFit' /\ LogTellsAccounts'
<1>. DEFINE row == [at |-> "started", caller |-> caller, action |-> action, target |-> target]
<1>1. AccountsTypeOK /\ PendingFits /\ TargetsFit /\ LogTellsAccounts
  BY DEF AccountsInv
<1>2. /\ request[w].at = "idle" /\ holder # w
      /\ request' = [request EXCEPT ![w] = row]
      /\ log' = log /\ pending' = pending /\ holder' = holder /\ accounts' = accounts
  BY DEF Authenticate, chainVars
<1>3. row \in RequestRow
  BY DEF RequestRow, Places
<1>4. /\ request' \in [Writers -> RequestRow]
      /\ \A v \in Writers : request'[v].at # "idle" => request'[v].target \in Accounts
      /\ request'[w] = row
      /\ \A v \in Writers \ {w} : request'[v] = request[v]
  BY <1>1, <1>2, <1>3, RequestMoves
<1>5. AccountsTypeOK'
  BY <1>1, <1>2, <1>4 DEF AccountsTypeOK
<1>6. \A v \in Writers \ {w} : WriterFits(v)'
  BY <1>1, <1>2, <1>4, OtherFits DEF PendingFits
<1>7. WriterFits(w)'
  BY <1>2, <1>4 DEF WriterFits
<1>8. /\ request'[w].at = "started" /\ request'[w].action = action
      /\ request'[w].target = target
  BY <1>4
<1>9. /\ action = "revoke" => accounts[target] # "absent"
      /\ action = "create" => accounts[target] = "absent" /\ \A v \in Writers :
            request[v].at # "idle" => request[v].target # target
  BY DEF Authenticate
<1>10. TargetsFit'
  BY <1>1, <1>2, <1>4, <1>8, <1>9 DEF TargetsFit, AccountActions
<1>. QED  BY <1>1, <1>2, <1>5, <1>6, <1>7, <1>10, TellsStay DEF PendingFits

\* A request on the way to its commit.
LEMMA ProgressKeeps ==
    ASSUME AccountsInv, NEW w \in Writers,
           FlushAccount(w) \/ LockAccount(w) \/ LockLog(w) \/ LogEvent(w)
    PROVE  AccountsTypeOK' /\ PendingFits' /\ TargetsFit' /\ LogTellsAccounts'
<1>1. /\ ChainInv /\ ChainTypeOK /\ HolderWrites
      /\ AccountsTypeOK /\ PendingFits /\ TargetsFit /\ LogTellsAccounts
  BY DEF AccountsInv, ChainInv
<1>2. /\ log' = log /\ accounts' = accounts /\ request[w].at # "idle"
  BY DEF FlushAccount, LockAccount, LockLog, LogEvent, LockChain, AppendEvent, chainVars
<1>3. PICK place \in Places : Goes(w, place)
  BY DEF FlushAccount, LockAccount, LockLog, LogEvent, Places
<1>4. /\ request' \in [Writers -> RequestRow]
      /\ \A v \in Writers : request'[v].at # "idle" => request'[v].target \in Accounts
      /\ request'[w].at = place /\ request'[w].action = request[w].action
      /\ request'[w].target = request[w].target
      /\ \A v \in Writers \ {w} : request'[v] = request[v]
  BY <1>1, <1>2, <1>3, GoesMoves
<1>5. AccountsTypeOK'
  BY <1>1, <1>2, <1>4 DEF AccountsTypeOK
<1>6. ASSUME FlushAccount(w) \/ LockAccount(w) PROVE PendingFits'
  <2>1. UNCHANGED chainVars /\ request[w].at = "started"
    BY <1>6 DEF FlushAccount, LockAccount
  <2>2. Goes(w, "changed") \/ Goes(w, "closing")
    BY <1>6 DEF FlushAccount, LockAccount
  <2>3. request'[w].at \in {"changed", "closing"}
    BY <1>1, <1>2, <2>2, GoesMoves DEF Places
  <2>4. WriterFits(w)'
    BY <1>1, <2>1, <2>3 DEF WriterFits, PendingFits, chainVars
  <2>5. \A v \in Writers \ {w} : WriterFits(v)'
    BY <1>1, <1>4, <2>1, OtherFits DEF PendingFits, chainVars
  <2>. QED  BY <2>4, <2>5 DEF PendingFits
<1>7. ASSUME LockLog(w) PROVE PendingFits'
  <2>1. LockChain(w) /\ Goes(w, "logging") /\ request[w].at = "changed"
    BY <1>7 DEF LockLog
  <2>2. request'[w].at = "logging"
    BY <1>1, <1>2, <2>1, GoesMoves DEF Places
  <2>3. holder' = w /\ pending'[w] = pending[w] /\ holder # w
    BY <2>1, ChainAssumption DEF LockChain
  <2>4. WriterFits(w)'
    BY <1>1, <2>2, <2>3 DEF WriterFits, HolderWrites
  <2>5. \A v \in Writers \ {w} : WriterFits(v)'
    BY <1>1, <1>4, <2>1, LogFrame, OtherFits DEF PendingFits
  <2>. QED  BY <2>4, <2>5 DEF PendingFits
<1>8. ASSUME LogEvent(w) PROVE PendingFits'
  <2>1. AppendEvent(w, Subject(w)) /\ Goes(w, "closing") /\ request[w].at = "logging"
    BY <1>8 DEF LogEvent, Subject
  <2>2. request'[w].at = "closing" /\ Subject(w)' = Subject(w)
    BY <1>1, <1>2, <2>1, GoesMoves DEF Places, Subject
  <2>3. pending[w] = << >>
    BY <1>1, <2>1 DEF PendingFits, WriterFits
  <2>4. /\ pending'[w] = Append(<< >>, Extension(Visible(w), Subject(w)))
    BY <1>1, <2>1, <2>3 DEF AppendEvent, ChainTypeOK
  <2>5. Len(pending'[w]) = 1 /\ pending'[w][1] = Extension(Visible(w), Subject(w))
    BY <2>4
  <2>6. Extension(Visible(w), Subject(w)).about = Subject(w)
    BY DEF Extension
  <2>7. WriterFits(w)'
    BY <2>2, <2>5, <2>6 DEF WriterFits
  <2>8. Subject(w) \in Topics
    BY <1>1, <1>2, AccountsAssumption DEF AccountsTypeOK, RequestRow, AccountActions, Subject
  <2>9. \A v \in Writers \ {w} : WriterFits(v)'
    BY <1>1, <1>4, <2>1, <2>8, LogFrame, OtherFits DEF PendingFits
  <2>. QED  BY <2>7, <2>9 DEF PendingFits
<1>9. TargetsFit'
  BY <1>1, <1>2, <1>4, TargetsStay
<1>. QED  BY <1>1, <1>2, <1>5, <1>6, <1>7, <1>8, <1>9, TellsStay

\* A commit adds one event, about what the request did.
LEMMA CommitCounts ==
    ASSUME AccountsInv, NEW w \in Writers, request[w].at = "closing", Commit(w)
    PROVE  \A a \in Accounts, x \in AccountActions :
              /\ Reported(x, a) \in Nat
              /\ Reported(x, a)' = Reported(x, a)
                                      + (IF Subject(w) = <<x, a>> THEN 1 ELSE 0)
<1>. DEFINE e == pending[w][1]
<1>1. ChainTypeOK /\ AccountsTypeOK /\ PendingFits
  BY DEF AccountsInv, ChainInv
<1>2. /\ log \in Seq(Events) /\ pending[w] \in Seq(Events)
      /\ holder = w /\ log' = log \o pending[w]
      /\ Len(pending[w]) = 1 /\ e.about = Subject(w)
  BY <1>1 DEF ChainTypeOK, Commit, PendingFits, WriterFits
<1>3. e \in Events /\ pending[w] = <<e>>
  BY <1>2
<1>. HIDE DEF e
<1>4. log' = Append(log, e)
  BY <1>2, <1>3
<1>. TAKE a \in Accounts, x \in AccountActions
<1>5. Reported(x, a) = Count(log, <<x, a>>) /\ Reported(x, a)' = Count(log', <<x, a>>)
  BY DEF Reported, Count
<1>6. Count(log, <<x, a>>) \in Nat
  BY <1>2, CountType
<1>7. Count(Append(log, e), <<x, a>>)
          = Count(log, <<x, a>>) + (IF e.about = <<x, a>> THEN 1 ELSE 0)
  BY <1>2, <1>3, CountAppend
<1>. QED  BY <1>2, <1>4, <1>5, <1>6, <1>7 DEF e

\* Transactions of other requests leave the counts as they are.
LEMMA OthersCount ==
    ASSUME AccountsInv, NEW w \in Writers, OtherRequest(w)
    PROVE  \A x \in AccountActions, a \in Accounts : Reported(x, a)' = Reported(x, a)
<1>1. ChainTypeOK /\ PendingFits /\ request[w].at = "idle"
  BY DEF AccountsInv, ChainInv, OtherRequest
<1>2. CASE log' = log
  BY <1>2 DEF Reported
<1>3. CASE Commit(w)
  <2>1. pending[w] \in Seq(Events)
        /\ \A i \in DOMAIN pending[w] : pending[w][i].about \notin AccountActions \X Accounts
    BY <1>1 DEF ChainTypeOK, PendingFits, WriterFits
  <2>2. log' = log \o pending[w] /\ log \in Seq(Events)
    BY <1>1, <1>3 DEF Commit, ChainTypeOK
  <2>. TAKE x \in AccountActions, a \in Accounts
  <2>3. <<x, a>> \in AccountActions \X Accounts
    OBVIOUS
  <2>4. Count(log \o pending[w], <<x, a>>) = Count(log, <<x, a>>)
    BY <2>1, <2>2, <2>3, CountOthers
  <2>. QED  BY <2>2, <2>4 DEF Reported, Count
<1>. QED  BY <1>2, <1>3 DEF OtherRequest, LockChain, Rollback, AppendEvent

\* A commit of a creation or a revocation writes its event with its row.
LEMMA CommitTells ==
    ASSUME AccountsInv, NEW w \in Writers, request[w].at = "closing", Commit(w),
           accounts' = [accounts EXCEPT ![request[w].target] =
                          IF request[w].action = "create" THEN "active" ELSE "revoked"]
    PROVE  LogTellsAccounts'
<1>1. /\ ChainTypeOK /\ AccountsTypeOK /\ TargetsFit /\ LogTellsAccounts
  BY DEF AccountsInv, ChainInv
<1>2. /\ request[w].target \in Accounts /\ request[w].action \in AccountActions
      /\ request[w].action = "create" => accounts[request[w].target] = "absent"
      /\ request[w].action = "revoke" => accounts[request[w].target] # "absent"
  BY <1>1 DEF AccountsTypeOK, TargetsFit, RequestRow, AccountActions
<1>3. \A a \in Accounts :
          accounts'[a] = IF a # request[w].target THEN accounts[a]
                         ELSE IF request[w].action = "create" THEN "active" ELSE "revoked"
  BY <1>1, <1>2 DEF AccountsTypeOK
<1>4. ASSUME NEW a \in Accounts
      PROVE  /\ Reported("create", a)' = IF accounts'[a] = "absent" THEN 0 ELSE 1
             /\ Reported("revoke", a)' > 0 <=> accounts'[a] = "revoked"
  <2>1. /\ Reported("create", a) = IF accounts[a] = "absent" THEN 0 ELSE 1
        /\ Reported("revoke", a) > 0 <=> accounts[a] = "revoked"
    BY <1>1 DEF LogTellsAccounts
  <2>2. /\ Reported("create", a)' = Reported("create", a)
              + (IF request[w].action = "create" /\ request[w].target = a THEN 1 ELSE 0)
        /\ Reported("revoke", a)' = Reported("revoke", a)
              + (IF request[w].action = "revoke" /\ request[w].target = a THEN 1 ELSE 0)
        /\ Reported("revoke", a) \in Nat
    BY CommitCounts DEF Subject, AccountActions
  <2>. QED  BY <1>2, <1>3, <2>1, <2>2 DEF AccountActions
<1>. QED  BY <1>4 DEF LogTellsAccounts

\* A request ends.
LEMMA IdleMoves ==
    ASSUME AccountsTypeOK, NEW w \in Writers, request' = [request EXCEPT ![w] = Idle]
    PROVE  /\ request' \in [Writers -> RequestRow]
           /\ \A v \in Writers : request'[v].at # "idle" => request'[v].target \in Accounts
           /\ request'[w].at = "idle"
           /\ \A v \in Writers \ {w} : request'[v] = request[v]
<1>1. Idle \in RequestRow /\ Idle.at = "idle"
  BY DEF Idle, RequestRow, Places, AccountActions
<1>. QED  BY <1>1, RequestMoves

\* A request is committed.
LEMMA CloseKeeps ==
    ASSUME AccountsInv, NEW w \in Writers, Close(w)
    PROVE  AccountsTypeOK' /\ PendingFits' /\ TargetsFit' /\ LogTellsAccounts'
<1>1. /\ ChainInv /\ ChainTypeOK /\ HolderWrites
      /\ AccountsTypeOK /\ PendingFits /\ TargetsFit /\ LogTellsAccounts
  BY DEF AccountsInv, ChainInv
<1>2. /\ request' \in [Writers -> RequestRow]
      /\ \A v \in Writers : request'[v].at # "idle" => request'[v].target \in Accounts
      /\ request'[w].at = "idle"
      /\ \A v \in Writers \ {w} : request'[v] = request[v]
  BY <1>1, IdleMoves DEF Close
<1>3. CASE holder = w
  <2>1. /\ Commit(w) /\ request[w].at = "closing"
        /\ accounts' = [accounts EXCEPT ![request[w].target] =
                          IF request[w].action = "create" THEN "active" ELSE "revoked"]
    BY <1>3 DEF Close
  <2>2. LogTellsAccounts'
    BY <2>1, CommitTells
  <2>3. /\ request[w].target \in Accounts
        /\ accounts' \in [Accounts -> {"absent", "active", "revoked"}]
        /\ accounts'[request[w].target] # "absent"
        /\ \A a \in Accounts \ {request[w].target} : accounts'[a] = accounts[a]
    BY <1>1, <2>1 DEF AccountsTypeOK
  <2>4. AccountsTypeOK'
    BY <1>2, <2>3 DEF AccountsTypeOK
  <2>5. TargetsFit'
    <3>1. \A v \in Writers \ {w} :
              request[v].at # "idle" /\ request[v].action = "create" =>
                  request[v].target # request[w].target
      BY <1>1, <2>1 DEF TargetsFit
    <3>. QED  BY <1>1, <1>2, <2>3, <3>1 DEF TargetsFit, AccountsTypeOK
  <2>6. pending'[w] = << >>
    BY <1>1, <2>1 DEF Commit, ChainTypeOK
  <2>7. WriterFits(w)'
    BY <1>2, <2>6 DEF WriterFits
  <2>8. \A v \in Writers \ {w} : WriterFits(v)'
    BY <1>1, <1>2, <2>1, LogFrame, OtherFits DEF PendingFits
  <2>. QED  BY <2>2, <2>4, <2>5, <2>7, <2>8 DEF PendingFits
<1>4. CASE holder # w
  <2>1. /\ log' = log /\ pending' = pending /\ holder' = holder /\ accounts' = accounts
    BY <1>4 DEF Close, chainVars
  <2>2. pending'[w] = << >>
    BY <1>1, <1>4, <2>1 DEF HolderWrites
  <2>3. WriterFits(w)'
    BY <1>2, <2>2 DEF WriterFits
  <2>4. \A v \in Writers \ {w} : WriterFits(v)'
    BY <1>1, <1>2, <2>1, OtherFits DEF PendingFits
  <2>5. AccountsTypeOK'
    BY <1>1, <1>2, <2>1 DEF AccountsTypeOK
  <2>. QED  BY <1>1, <1>2, <2>1, <2>3, <2>4, <2>5, TargetsStay, TellsStay DEF PendingFits
<1>. QED  BY <1>3, <1>4

\* A request fails: what its transaction flushed is gone, row and event.
LEMMA FailKeeps ==
    ASSUME AccountsInv, NEW w \in Writers, Fail(w)
    PROVE  AccountsTypeOK' /\ PendingFits' /\ TargetsFit' /\ LogTellsAccounts'
<1>1. /\ ChainInv /\ ChainTypeOK /\ HolderWrites
      /\ AccountsTypeOK /\ PendingFits /\ TargetsFit /\ LogTellsAccounts
  BY DEF AccountsInv, ChainInv
<1>2. /\ request' \in [Writers -> RequestRow]
      /\ \A v \in Writers : request'[v].at # "idle" => request'[v].target \in Accounts
      /\ request'[w].at = "idle"
      /\ \A v \in Writers \ {w} : request'[v] = request[v]
      /\ accounts' = accounts
  BY <1>1, IdleMoves DEF Fail
<1>3. log' = log /\ pending'[w] = << >>
  BY <1>1 DEF Fail, Rollback, HolderWrites, ChainTypeOK, chainVars
<1>4. WriterFits(w)'
  BY <1>2, <1>3 DEF WriterFits
<1>5. \A v \in Writers \ {w} : WriterFits(v)'
  <2>1. CASE holder = w
    <3>1. Rollback(w)
      BY <2>1 DEF Fail
    <3>. QED  BY <1>1, <1>2, <3>1, LogFrame, OtherFits DEF PendingFits
  <2>2. CASE holder # w
    <3>1. pending' = pending /\ holder' = holder
      BY <2>2 DEF Fail, chainVars
    <3>. QED  BY <1>1, <1>2, <3>1, OtherFits DEF PendingFits
  <2>. QED  BY <2>1, <2>2
<1>6. AccountsTypeOK'
  BY <1>1, <1>2 DEF AccountsTypeOK
<1>. QED  BY <1>1, <1>2, <1>3, <1>4, <1>5, <1>6, TargetsStay, TellsStay DEF PendingFits

\* Events about other subjects leave the accounts' story as it is.
LEMMA OthersKeep ==
    ASSUME AccountsInv, NEW w \in Writers, OtherRequest(w)
    PROVE  AccountsTypeOK' /\ PendingFits' /\ TargetsFit' /\ LogTellsAccounts'
<1>1. /\ ChainInv /\ ChainTypeOK /\ HolderWrites
      /\ AccountsTypeOK /\ PendingFits /\ TargetsFit /\ LogTellsAccounts
  BY DEF AccountsInv, ChainInv
<1>2. request[w].at = "idle" /\ accounts' = accounts /\ request' = request
  BY DEF OtherRequest, accountVars
<1>3. AccountsTypeOK' /\ TargetsFit'
  BY <1>1, <1>2 DEF AccountsTypeOK, TargetsFit
<1>4. pending[w] \in Seq(Events)
      /\ \A i \in DOMAIN pending[w] : pending[w][i].about \notin AccountActions \X Accounts
  BY <1>1, <1>2 DEF ChainTypeOK, PendingFits, WriterFits
<1>5. \A v \in Writers \ {w} : WriterFits(v)'
  <2>1. \/ LockChain(w) \/ Commit(w) \/ Rollback(w)
        \/ \E about \in Topics : AppendEvent(w, about)
    BY DEF OtherRequest
  <2>. QED  BY <1>1, <1>2, <2>1, LogFrame, OtherFits DEF PendingFits
<1>6. WriterFits(w)'
  <2>1. CASE LockChain(w)
    BY <1>2, <1>4, <2>1 DEF LockChain, WriterFits
  <2>2. CASE Commit(w) \/ Rollback(w)
    <3>1. pending'[w] = << >>
      BY <1>1, <2>2 DEF Commit, Rollback, ChainTypeOK
    <3>. QED  BY <1>2, <3>1 DEF WriterFits
  <2>3. ASSUME NEW about \in Topics \ ({"create", "revoke"} \X Accounts), AppendEvent(w, about)
        PROVE  WriterFits(w)'
    <3>. DEFINE e == Extension(Visible(w), about)
    <3>1. pending'[w] = Append(pending[w], e)
      BY <1>1, <2>3 DEF AppendEvent, ChainTypeOK
    <3>2. e.about = about /\ e.about \notin AccountActions \X Accounts
      BY DEF Extension, AccountActions
    <3>. HIDE DEF e
    <3>3. \A i \in DOMAIN pending'[w] : pending'[w][i] = e \/ \E j \in DOMAIN pending[w] :
                                                              pending'[w][i] = pending[w][j]
      BY <1>4, <3>1
    <3>4. \A i \in DOMAIN pending'[w] : pending'[w][i].about \notin AccountActions \X Accounts
      BY <1>4, <3>2, <3>3
    <3>. QED  BY <1>2, <3>4 DEF WriterFits
  <2>. QED  BY <2>1, <2>2, <2>3 DEF OtherRequest
<1>7. LogTellsAccounts'
  <2>1. \A a \in Accounts : /\ Reported("create", a)' = Reported("create", a)
                            /\ Reported("revoke", a)' = Reported("revoke", a)
    BY OthersCount DEF AccountActions
  <2>. QED  BY <1>1, <1>2, <2>1 DEF LogTellsAccounts
<1>. QED  BY <1>3, <1>5, <1>6, <1>7 DEF PendingFits

\* With no request begun nothing is told.
LEMMA AccountsStart == AccountsInit => AccountsInv
<1>. SUFFICES ASSUME AccountsInit PROVE AccountsInv
  OBVIOUS
<1>1. ChainInv /\ ChainTypeOK
  BY ChainStarts DEF AccountsInit, ChainInv
<1>2. /\ log = << >> /\ holder = Nobody
      /\ \A w \in Writers : pending[w] = << >> /\ request[w].at = "idle"
      /\ \A a \in Accounts : accounts[a] = "absent"
  BY DEF AccountsInit, ChainInit, Idle
<1>3. AccountsTypeOK
  BY <1>2 DEF AccountsInit, AccountsTypeOK, Idle, RequestRow, Places, AccountActions
<1>4. PendingFits /\ TargetsFit
  BY <1>2 DEF PendingFits, WriterFits, TargetsFit
<1>5. LogTellsAccounts
  <2>1. ASSUME NEW x, NEW a PROVE Reported(x, a) = 0
    <3>1. {i \in DOMAIN log : log[i].about = <<x, a>>} = {}
      BY <1>2
    <3>. QED  BY <3>1, FS_EmptySet DEF Reported
  <2>. QED  BY <1>2, <2>1 DEF LogTellsAccounts
<1>. QED  BY <1>1, <1>3, <1>4, <1>5 DEF AccountsInv

\* Every step of every request keeps what the log and the rows say together.
LEMMA AccountsKept ==
    ASSUME AccountsInv, [AccountsNext]_<<chainVars, accountVars>>
    PROVE  AccountsInv'
<1>1. ChainInv'
  BY RequestsAppend, ChainKept DEF AccountsInv
<1>2. CASE UNCHANGED <<chainVars, accountVars>>
  <2>1. /\ log' = log /\ pending' = pending /\ holder' = holder
        /\ accounts' = accounts /\ request' = request
    BY <1>2 DEF chainVars, accountVars
  <2>2. AccountsTypeOK' /\ TargetsFit'
    BY <2>1 DEF AccountsInv, AccountsTypeOK, TargetsFit
  <2>3. PendingFits'
    BY <2>1, OtherFits DEF AccountsInv, PendingFits
  <2>. QED  BY <1>1, <2>1, <2>2, <2>3, TellsStay DEF AccountsInv
<1>3. CASE AccountsNext
  <2>1. AccountsTypeOK' /\ PendingFits' /\ TargetsFit' /\ LogTellsAccounts'
    BY <1>3, AuthenticateKeeps, ProgressKeeps, CloseKeeps, FailKeeps, OthersKeep
       DEF AccountsNext, AccountActions
  <2>. QED  BY <1>1, <2>1 DEF AccountsInv
<1>. QED  BY <1>2, <1>3

\* The audit log of the service accounts is the audit log: what the requests do
\* to it is what transactions of AuditChain do, so its chain is unbroken too.
THEOREM AccountsUseTheLog == AccountsSpec => ChainSpec /\ []ChainUnbroken
<1>1. AccountsInit => ChainInit
  BY DEF AccountsInit
<1>2. AccountsInv /\ [AccountsNext]_<<chainVars, accountVars>> => [ChainNext]_chainVars
  BY RequestsAppend DEF AccountsInv
<1>. QED  BY <1>1, <1>2, AccountsStart, AccountsKept, ChainHolds, PTL
          DEF AccountsSpec, ChainSpec

\* At every commit, after any failures, the log tells of one creation for each
\* account there is and of a revocation for exactly those that are revoked.
THEOREM LogTells == AccountsSpec => []LogTellsAccounts
<1>1. AccountsInv => LogTellsAccounts
  BY DEF AccountsInv
<1>. QED  BY <1>1, AccountsStart, AccountsKept, PTL DEF AccountsSpec
-----------------------------------------------------------------------------
(* Revoking once *)

\* No account is the caller of the request that revokes it.
NobodyRevokesItself ==
    \A w \in Writers :
        request[w].at # "idle" /\ request[w].action = "revoke" =>
            request[w].caller # request[w].target

\* The request has read the account it revokes, and holds its row.
Revoking(w) ==
    request[w].action = "revoke" /\ request[w].at \in {"changed", "logging", "closing"}

\* The rows are held by one request each, and a request that will commit a
\* revocation finds its account not revoked.
RevokesExclude ==
    /\ \A w, v \in Writers :
          Revoking(w) /\ Revoking(v) /\ w # v => request[w].target # request[v].target
    /\ \A w \in Writers :
          Revoking(w) /\ (request[w].at = "closing" => holder = w) =>
              accounts[request[w].target] = "active"

\* The steps that neither read an account nor change one.
LEMMA RevokesStay ==
    ASSUME RevokesExclude, accounts' = accounts, NEW w \in Writers,
           \A v \in Writers \ {w} : request'[v] = request[v],
           \/ ~Revoking(w)'
           \/ /\ Revoking(w) /\ request'[w].target = request[w].target
              /\ request[w].at # "closing",
           \/ holder' = holder
           \/ holder \in {w, Nobody} /\ holder' \in {w, Nobody}
    PROVE  RevokesExclude'
<1>1. \A v \in Writers \ {w} : /\ Revoking(v)' <=> Revoking(v)
                              /\ request'[v].target = request[v].target
                              /\ request'[v].at = request[v].at
                              /\ holder' = v => holder = v
  BY ChainAssumption DEF Revoking
<1>2. Revoking(w)' => /\ Revoking(w) /\ request'[w].target = request[w].target
                      /\ request[w].at # "closing"
  BY DEF Revoking
<1>3. \A u \in Writers : Revoking(u)' => Revoking(u) /\ request'[u].target = request[u].target
  BY <1>1, <1>2 DEF Revoking
<1>4. ASSUME NEW u \in Writers, NEW v \in Writers, Revoking(u)', Revoking(v)', u # v
      PROVE  request'[u].target # request'[v].target
  BY <1>3, <1>4 DEF RevokesExclude, Revoking
<1>5. ASSUME NEW u \in Writers, Revoking(u)', request'[u].at = "closing" => holder' = u
      PROVE  accounts'[request'[u].target] = "active"
  <2>1. request[u].at = "closing" => holder = u
    BY <1>1, <1>2, <1>5 DEF Revoking
  <2>. QED  BY <1>3, <1>5, <2>1 DEF RevokesExclude, Revoking
<1>. QED  BY <1>4, <1>5 DEF RevokesExclude, Revoking

\* The row lock is waited for: nobody else revokes the account that was read.
LEMMA LockExcludes ==
    ASSUME AccountsInv, NobodyRevokesItself, RevokesExclude, NEW w \in Writers, LockAccount(w)
    PROVE  RevokesExclude'
<1>1. AccountsTypeOK /\ PendingFits /\ TargetsFit
  BY DEF AccountsInv
<1>2. /\ request[w].at = "started" /\ request[w].action = "revoke"
      /\ holder' = holder /\ accounts' = accounts
      /\ Goes(w, IF Seen(w) = "revoked" THEN "closing" ELSE "changed")
      /\ \A v \in Writers \ {w} : request[w].target \notin RowsHeld(v)
  BY DEF LockAccount, chainVars, RowFree
<1>3. /\ request'[w].at = (IF Seen(w) = "revoked" THEN "closing" ELSE "changed")
      /\ request'[w].action = request[w].action /\ request'[w].target = request[w].target
      /\ \A v \in Writers \ {w} : request'[v] = request[v]
  BY <1>1, <1>2, GoesMoves DEF Places
<1>4. \A v \in Writers \ {w} : Revoking(v) => request[v].target # request[w].target
  BY <1>2 DEF RowsHeld, Revoking
<1>5. Seen(w) = accounts[request[w].target] /\ holder # w
  BY <1>1, <1>2 DEF NobodyRevokesItself, Seen, PendingFits, WriterFits
<1>6. Seen(w) \in {"active", "revoked"}
  BY <1>1, <1>2, <1>5 DEF TargetsFit, AccountsTypeOK
<1>7. \A v \in Writers \ {w} : Revoking(v)' <=> Revoking(v)
  BY <1>3 DEF Revoking
<1>8. request'[w].at = "changed" => accounts'[request'[w].target] = "active"
  BY <1>2, <1>3, <1>5, <1>6
<1>9. request'[w].at = "closing" \/ request'[w].at = "changed"
  BY <1>3
<1>. QED  BY <1>2, <1>3, <1>4, <1>5, <1>7, <1>8, <1>9 DEF RevokesExclude

\* A commit revokes an account that nobody else is about to revoke.
LEMMA CloseExcludes ==
    ASSUME AccountsInv, RevokesExclude, NEW w \in Writers, Close(w)
    PROVE  RevokesExclude'
<1>1. AccountsTypeOK /\ TargetsFit
  BY DEF AccountsInv
<1>2. /\ request[w].at = "closing" /\ request'[w].at = "idle"
      /\ \A v \in Writers \ {w} : request'[v] = request[v]
  BY <1>1, IdleMoves DEF Close
<1>3. ~Revoking(w)'
  BY <1>2 DEF Revoking
<1>4. CASE holder = w
  <2>1. holder' = Nobody /\ \A a \in Accounts \ {request[w].target} : accounts'[a] = accounts[a]
    BY <1>1, <1>2, <1>4 DEF Close, Commit, AccountsTypeOK
  <2>2. ASSUME NEW v \in Writers \ {w}, Revoking(v)
        PROVE  /\ request[v].target # request[w].target
               /\ request[v].target \in Accounts
    <3>1. request[v].at # "idle" /\ request[v].action = "revoke"
      BY <2>2 DEF Revoking
    <3>2. CASE request[w].action = "create"
      BY <1>1, <1>2, <3>1, <3>2 DEF TargetsFit, AccountsTypeOK
    <3>3. CASE request[w].action = "revoke"
      BY <1>1, <1>2, <2>2, <3>1, <3>3 DEF RevokesExclude, Revoking, AccountsTypeOK
    <3>. QED  BY <1>1, <3>2, <3>3 DEF AccountsTypeOK, RequestRow, AccountActions
  <2>3. \A v \in Writers \ {w} : Revoking(v)' <=> Revoking(v)
    BY <1>2 DEF Revoking
  <2>4. \A v \in Writers \ {w} : Revoking(v)' => accounts'[request'[v].target] = accounts[request[v].target]
    BY <1>2, <2>1, <2>2, <2>3
  <2>5. \A v \in Writers \ {w} : holder # v /\ holder' # v
    BY <1>4, <2>1, ChainAssumption
  <2>. QED  BY <1>2, <1>3, <2>3, <2>4, <2>5 DEF RevokesExclude
<1>5. CASE holder # w
  <2>1. accounts' = accounts /\ holder' = holder
    BY <1>5 DEF Close, chainVars
  <2>. QED  BY <1>2, <1>3, <2>1, RevokesStay
<1>. QED  BY <1>4, <1>5

\* Every step, while no account revokes itself.
LEMMA RevokesKept ==
    ASSUME AccountsInv, NobodyRevokesItself, RevokesExclude,
           [AccountsNext]_<<chainVars, accountVars>>
    PROVE  RevokesExclude'
<1>0. AccountsTypeOK /\ ChainInv
  BY DEF AccountsInv
<1>1. ASSUME NEW w \in Writers, NEW caller \in Accounts \union {Operator},
             NEW action \in AccountActions, NEW target \in Accounts,
             Authenticate(w, caller, action, target)
      PROVE  RevokesExclude'
  <2>. DEFINE row == [at |-> "started", caller |-> caller, action |-> action, target |-> target]
  <2>1. row \in RequestRow /\ request' = [request EXCEPT ![w] = row]
        /\ accounts' = accounts /\ holder' = holder
    BY <1>1 DEF Authenticate, RequestRow, Places, chainVars
  <2>2. request'[w].at = "started" /\ \A v \in Writers \ {w} : request'[v] = request[v]
    BY <1>0, <2>1, RequestMoves
  <2>. QED  BY <2>1, <2>2, RevokesStay DEF Revoking
<1>2. ASSUME NEW w \in Writers, OtherRequest(w) PROVE RevokesExclude'
  <2>1. /\ request[w].at = "idle" /\ accounts' = accounts /\ request' = request
        /\ holder \in {w, Nobody} /\ holder' \in {w, Nobody}
    BY <1>0, <1>2, LogFrame DEF OtherRequest, accountVars
  <2>2. ~Revoking(w)'
    BY <2>1 DEF Revoking
  <2>. QED  BY <2>1, <2>2, RevokesStay
<1>3. ASSUME NEW w \in Writers, FlushAccount(w) PROVE RevokesExclude'
  <2>1. /\ request[w].at = "started" /\ request[w].action = "create"
        /\ Goes(w, "changed") /\ accounts' = accounts /\ holder' = holder
    BY <1>3 DEF FlushAccount, chainVars
  <2>2. /\ request'[w].action = "create" /\ \A v \in Writers \ {w} : request'[v] = request[v]
    BY <1>0, <2>1, GoesMoves DEF Places
  <2>. QED  BY <2>1, <2>2, RevokesStay DEF Revoking
<1>4. ASSUME NEW w \in Writers, LockLog(w) \/ LogEvent(w) PROVE RevokesExclude'
  <2>1. /\ \/ request[w].at = "changed" /\ Goes(w, "logging")
           \/ request[w].at = "logging" /\ Goes(w, "closing")
        /\ accounts' = accounts
    BY <1>4 DEF LockLog, LogEvent
  <2>2. /\ \A v \in Writers \ {w} : request'[v] = request[v]
        /\ request'[w].action = request[w].action /\ request'[w].target = request[w].target
    BY <1>0, <2>1, GoesMoves DEF Places
  <2>3. ~Revoking(w)' \/ Revoking(w)
    BY <2>1, <2>2 DEF Revoking
  <2>4. holder \in {w, Nobody} /\ holder' \in {w, Nobody}
    BY <1>4 DEF LockLog, LogEvent, LockChain, AppendEvent
  <2>. QED  BY <2>1, <2>2, <2>3, <2>4, RevokesStay
<1>5. ASSUME NEW w \in Writers, Fail(w) PROVE RevokesExclude'
  <2>1. /\ request'[w].at = "idle" /\ \A v \in Writers \ {w} : request'[v] = request[v]
        /\ accounts' = accounts
    BY <1>0, <1>5, IdleMoves DEF Fail
  <2>2. \/ holder' = holder
        \/ holder \in {w, Nobody} /\ holder' \in {w, Nobody}
    BY <1>5 DEF Fail, Rollback, chainVars
  <2>3. ~Revoking(w)'
    BY <2>1 DEF Revoking
  <2>. QED  BY <2>1, <2>2, <2>3, RevokesStay
<1>6. CASE UNCHANGED <<chainVars, accountVars>>
  BY <1>6 DEF RevokesExclude, Revoking, chainVars, accountVars
<1>. QED  BY <1>1, <1>2, <1>3, <1>4, <1>5, <1>6, LockExcludes, CloseExcludes
          DEF AccountsNext, AccountActions

\* A step reports a revocation only of an account that is not revoked.
LEMMA OnceKept ==
    ASSUME AccountsInv, RevokesExclude, RevokedOnce,
           [AccountsNext]_<<chainVars, accountVars>>
    PROVE  RevokedOnce'
<1>0. AccountsTypeOK /\ LogTellsAccounts
  BY DEF AccountsInv
<1>1. CASE log' = log
  BY <1>1 DEF RevokedOnce, Reported
<1>2. ASSUME NEW w \in Writers, OtherRequest(w) PROVE RevokedOnce'
  BY <1>2, OthersCount DEF RevokedOnce, AccountActions
<1>3. ASSUME NEW w \in Writers, request[w].at = "closing", Commit(w) PROVE RevokedOnce'
  <2>1. ASSUME NEW a \in Accounts PROVE Reported("revoke", a)' <= 1
    <3>1. /\ Reported("revoke", a) \in Nat
          /\ Reported("revoke", a)' = Reported("revoke", a)
                + (IF request[w].action = "revoke" /\ request[w].target = a THEN 1 ELSE 0)
      BY <1>3, CommitCounts DEF Subject, AccountActions
    <3>2. CASE request[w].action = "revoke" /\ request[w].target = a
      <4>1. accounts[a] = "active"
        BY <1>3, <3>2 DEF RevokesExclude, Revoking, Commit
      <4>2. ~(Reported("revoke", a) > 0)
        BY <1>0, <4>1 DEF LogTellsAccounts
      <4>. QED  BY <3>1, <4>2
    <3>3. CASE ~(request[w].action = "revoke" /\ request[w].target = a)
      BY <3>1, <3>3 DEF RevokedOnce
    <3>. QED  BY <3>2, <3>3
  <2>. QED  BY <2>1 DEF RevokedOnce
<1>. QED  BY <1>1, <1>2, <1>3 DEF AccountsNext, Authenticate, FlushAccount, LockAccount,
             LockLog, LogEvent, Close, Fail, LockChain, AppendEvent, Rollback,
             chainVars, accountVars

\* "Idempotently revoke a service-account credential." (access.py) holds as long
\* as no account revokes itself: the run that finds two reports of one revocation
\* needs a request whose caller is its target, and nothing else brings it about.
THEOREM OthersRevokeOnce ==
    AccountsSpec /\ []NobodyRevokesItself => []RevokedOnce
<1>1. AccountsInit => RevokesExclude /\ RevokedOnce
  <2>. SUFFICES ASSUME AccountsInit PROVE RevokesExclude /\ RevokedOnce
    OBVIOUS
  <2>1. \A w \in Writers : ~Revoking(w)
    BY DEF AccountsInit, Idle, Revoking
  <2>2. ASSUME NEW a PROVE Reported("revoke", a) = 0
    <3>1. {i \in DOMAIN log : log[i].about = <<"revoke", a>>} = {}
      BY DEF AccountsInit, ChainInit
    <3>. QED  BY <3>1, FS_EmptySet DEF Reported
  <2>. QED  BY <2>1, <2>2 DEF RevokesExclude, RevokedOnce
<1>2. AccountsInv /\ NobodyRevokesItself /\ RevokesExclude /\ RevokedOnce
        /\ [AccountsNext]_<<chainVars, accountVars>>
      => RevokesExclude' /\ RevokedOnce'
  BY RevokesKept, OnceKept
<1>. QED  BY <1>1, <1>2, AccountsStart, AccountsKept, PTL DEF AccountsSpec
=============================================================================
