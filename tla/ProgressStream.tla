--------------------------- MODULE ProgressStream ---------------------------
(***************************************************************************)
(* stream_run_progress (api/routes/experiments.py): the server-sent-event  *)
(* loop of one HTTP response, polling the row of a run that moves as       *)
(* RunLifecycle says.  All its SELECTs go through one session, whose       *)
(* identity map keeps an object as long as something refers to it, and a   *)
(* SELECT of a row whose object is there leaves the object as it is.  The  *)
(* loop's variable model refers to the object between two polls.           *)
(***************************************************************************)
EXTENDS Naturals, Sequences

CONSTANTS
    Tasks,
    MaxVersion         \* bound: the stamps a run gets, which may pause for ever

VARIABLES
    state, outcome,    \* of the run, as in RunLifecycle
    version,           \* version_stamp of the row
    model,             \* the loop's object, NoModel before the first poll
    sent,              \* the events of the response, a [version, state] each
    stream             \* "none", "open", "ended" by the server, client "gone"

Run == INSTANCE RunLifecycle

runVars == <<state, outcome, version>>
streamVars == <<runVars, model, sent, stream>>

NoModel == [version |-> 0, state |-> "draft"]

\* A run just created: two transitions were stamped.
StreamInit ==
    /\ Run!Init
    /\ version = 3
    /\ model = NoModel
    /\ sent = << >>
    /\ stream = "none"

\* The run moves: every change of its state advances the stamp.
RunMoves ==
    /\ Run!Next
    /\ state' # state => version < MaxVersion
    /\ version' = IF state' = state THEN version ELSE version + 1
    /\ UNCHANGED <<model, sent, stream>>

\* A client asks for the events; the visibility check keeps no object.
Connect ==
    /\ stream = "none"
    /\ stream' = "open"
    /\ UNCHANGED <<runVars, model, sent>>

\* model.version_stamp != last_version, the version of the last event.
Fresh(m) == sent # << >> => m.version # sent[Len(sent)].version

\* What the SELECT returns: the object the session holds, or one made of the row.
Selected ==
    IF model # NoModel THEN model ELSE [version |-> version, state |-> state]

\* Mutant: the loop ends before the event is sent.
SentUnlessTerminal(m) ==
    IF Fresh(m) /\ m.state \notin Run!TerminalRunStates THEN Append(sent, m) ELSE sent

Sent(m) == IF Fresh(m) THEN Append(sent, m) ELSE sent

\* One turn of the loop, up to its sleep or its return.
Poll ==
    /\ stream = "open"
    /\ model' = Selected
    /\ sent' = Sent(model')
    /\ stream' = IF model'.state \in Run!TerminalRunStates THEN "ended" ELSE "open"
    /\ UNCHANGED runVars

\* The client disconnects; the loop notices before the next poll.
Disconnect ==
    /\ stream = "open"
    /\ stream' = "gone"
    /\ UNCHANGED <<runVars, model, sent>>

StreamNext == RunMoves \/ Connect \/ Poll \/ Disconnect

\* The loop polls once a second while the response is open.
StreamSpec == StreamInit /\ [][StreamNext]_streamVars /\ WF_streamVars(Poll)

-----------------------------------------------------------------------------
(* Properties *)

\* A response the server ends has told the client how the run ended: its last
\* event shows the state and the stamp the run has for good.
EndsWithLastWord ==
    stream = "ended" =>
        /\ sent # << >>
        /\ sent[Len(sent)] = [version |-> version, state |-> state]
        /\ state \in Run!TerminalRunStates

\* "Run progress reaches the browser over Server-Sent Events. The API derives
\* authoritative state from PostgreSQL" (docs/design/phase-1-design.md:233): the
\* response to a client that stays connected ends once the run has.
StreamFollowsRun ==
    (stream = "open" /\ state \in Run!TerminalRunStates) ~> stream # "open"
=============================================================================
