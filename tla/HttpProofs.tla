------------------------------ MODULE HttpProofs ------------------------------
(***************************************************************************)
(* What crosses HTTP: the call of a model provider with its retries, the   *)
(* progress stream of a run, the commands of evalctl, and the API's rate   *)
(* limiter.  Whatever their peers answer, however often and in whatever    *)
(* order, what they do and say next is justified by what they have heard.  *)
(***************************************************************************)
EXTENDS ProviderCalls, ProgressStream, Commands, RateLimiter, FiniteSetTheorems,
        SequenceTheorems, TLAPS

-----------------------------------------------------------------------------
(* Provider calls: every call is justified by its history, for any policy, *)
(* any hints and any sequence of failures.                                 *)

AllReplies ==
    {"url refused", "private address", "unresolved", "slow", "unreachable",
     "broken protocol", "oversize", "not JSON", "not an object", "wrong shape",
     "null usage", "good"} \union ErrorReplies

Exchange == [reply : AllReplies, hint : Hints \union {NoHint}, delay : Nat]

CallTypeOK ==
    /\ call \in CallRequests
    /\ exchanges \in Seq(Exchange)
    /\ ending \in {"unasked", "calling", "answered", "escaped"} \union ProviderErrorKind

\* An exchange after which the call may go on.
WorthRetrying(e) ==
    /\ e.reply \notin Escaping \union {"good"} /\ KindOf(e.reply) \in Retryable
    /\ e.hint # NoHint => e.delay >= Smaller(e.hint, MaxRetryAfter)
    /\ e.delay <= MaxDelay \/ (e.hint # NoHint /\ e.delay <= MaxRetryAfter)

\* While the call goes on this holds of its last exchange too, which no
\* property of the history of a call says.
GoesOn ==
    /\ ending = "unasked" => exchanges = << >>
    /\ ending = "calling" => \A i \in 1..Len(exchanges) : WorthRetrying(exchanges[i])

CallInv == CallTypeOK /\ GoesOn /\ CallsJustified

-----------------------------------------------------------------------------

\* Every reply is one of the list, and one that is no answer and does not
\* escape has a kind.
LEMMA RepliesKnown ==
    ASSUME CallTypeOK
    PROVE  /\ Replies \subseteq AllReplies
           /\ \A reply \in Replies \ (Escaping \union {"good"}) :
                 KindOf(reply) \in ProviderErrorKind
<1>1. ASSUME NEW reply \in Replies PROVE reply \in AllReplies
  <2>1. CASE call.profile = "fake"
    BY <2>1 DEF Replies, FakeReplies, AllReplies
  <2>2. CASE call.profile # "fake"
    BY <2>2 DEF Replies, AllReplies
  <2>. QED  BY <2>1, <2>2
<1>2. BodyError[call.operation] \in ProviderErrorKind
  <2>1. call.operation \in {"generate", "generate_structured", "embed"}
    BY DEF CallTypeOK, CallRequests
  <2>2. /\ BodyError["generate"] = "unknown_provider_failure"
        /\ BodyError["generate_structured"] = "malformed_structured_output"
        /\ BodyError["embed"] = "unknown_provider_failure"
    BY DEF BodyError
  <2>. QED  BY <2>1, <2>2 DEF ProviderErrorKind
<1>3. ASSUME NEW reply \in AllReplies \ (Escaping \union {"good"})
      PROVE  KindOf(reply) \in ProviderErrorKind
  <2>1. \/ reply \in {"url refused", "private address", "oversize", "400"}
        \/ reply \in {"unresolved", "unreachable"}
        \/ reply = "slow" \/ reply = "401" \/ reply = "403" \/ reply = "403 policy"
        \/ reply = "429" \/ reply = "400 context" \/ reply = "5xx"
        \/ reply \in {"other 4xx", "not JSON"} \/ reply = "wrong shape"
    BY DEF AllReplies, ErrorReplies, Escaping
  <2>2. /\ "invalid_request" \in ProviderErrorKind /\ "connection_error" \in ProviderErrorKind
        /\ "timeout" \in ProviderErrorKind /\ "authentication_failure" \in ProviderErrorKind
        /\ "permission_failure" \in ProviderErrorKind
        /\ "content_policy_rejection" \in ProviderErrorKind
        /\ "rate_limit" \in ProviderErrorKind
        /\ "context_length_overflow" \in ProviderErrorKind
        /\ "provider_server_error" \in ProviderErrorKind
        /\ "unknown_provider_failure" \in ProviderErrorKind
    BY DEF ProviderErrorKind
  <2>. QED  BY <2>1, <2>2, <1>2, ZenonT(60) DEF KindOf
<1>. QED  BY <1>1, <1>3

\* A delay honours the hint up to its bound and exceeds no cap.
LEMMA DelayBounds ==
    ASSUME NEW n \in Nat, n > 0, NEW jitter \in 0..JitterCap(n), NEW hint \in Hints \union {NoHint}
    PROVE  /\ Delay(jitter, hint) \in Nat
           /\ hint # NoHint => Delay(jitter, hint) >= Smaller(hint, MaxRetryAfter)
           /\ Delay(jitter, hint) <= MaxDelay
                \/ (hint # NoHint /\ Delay(jitter, hint) <= MaxRetryAfter)
<1>1. 2 ^ (n - 1) \in Int
  BY SMT
<1>2. jitter \in Nat /\ jitter <= MaxDelay
  BY <1>1, CallAssumption DEF JitterCap, Smaller
<1>3. hint # NoHint => hint \in Nat
  BY CallAssumption
<1>. QED  BY <1>2, <1>3, CallAssumption DEF Delay, Smaller

\* What an appended exchange leaves of the history.
LEMMA Appended ==
    ASSUME NEW s \in Seq(Exchange), NEW e \in Exchange
    PROVE  /\ Append(s, e) \in Seq(Exchange)
           /\ Len(s) \in Nat
           /\ Len(Append(s, e)) = Len(s) + 1
           /\ Append(s, e)[Len(s) + 1] = e
           /\ \A i \in 1..Len(s) : Append(s, e)[i] = s[i]
  OBVIOUS

LEMMA InitialCall == CallInit => CallInv
<1>. SUFFICES ASSUME CallInit PROVE CallInv
  OBVIOUS
<1>1. CallTypeOK
  BY DEF CallInit, CallTypeOK, Unasked, CallRequests
<1>2. GoesOn /\ CallsJustified
  BY CallAssumption DEF CallInit, GoesOn, CallsJustified, ProviderErrorKind
<1>. QED  BY <1>1, <1>2 DEF CallInv

\* The end of a call, by an answer, an exception or an error kind.
LEMMA Ends ==
    ASSUME CallInv, NEW reply \in Replies, NEW hint \in Hints \union {NoHint},
           ending = "calling", UNCHANGED call, Exchanged(reply, hint, 0),
           \/ ending' = "answered" /\ reply = "good"
           \/ ending' = "escaped" /\ reply # "good"
           \/ /\ reply \notin Escaping \union {"good"} /\ ending' = KindOf(reply)
              /\ KindOf(reply) \in Retryable => Attempt = CallAttempts
    PROVE  CallInv'
<1>. DEFINE e == [reply |-> reply, hint |-> hint, delay |-> 0]
<1>1. e \in Exchange
  BY RepliesKnown DEF CallInv, Exchange
<1>2. exchanges' = Append(exchanges, e) /\ exchanges \in Seq(Exchange)
  BY DEF Exchanged, CallInv, CallTypeOK
<1>. HIDE DEF e
<1>3. /\ exchanges' \in Seq(Exchange) /\ Len(exchanges) \in Nat
      /\ Len(exchanges') = Len(exchanges) + 1
      /\ exchanges'[Len(exchanges) + 1] = e
      /\ \A i \in 1..Len(exchanges) : exchanges'[i] = exchanges[i]
  BY <1>1, <1>2, Appended
<1>4. \A x : KindOf(x)' = KindOf(x)
  BY DEF KindOf
<1>5. /\ ending' \notin {"unasked", "calling"}
      /\ ending' \in {"answered", "escaped"} \union ProviderErrorKind
      /\ ending' = "answered" <=> reply = "good"
      /\ ending' \in ProviderErrorKind =>
            ending' = KindOf(reply) /\ (KindOf(reply) \in Retryable => Attempt = CallAttempts)
  BY RepliesKnown DEF CallInv, ProviderErrorKind
<1>6. e.reply = reply
  BY DEF e
<1>7. CallTypeOK'
  BY <1>3, <1>5 DEF CallInv, CallTypeOK
<1>8. GoesOn'
  BY <1>5 DEF GoesOn
<1>9. CallsJustified'
  <2>1. Len(exchanges') <= CallAttempts /\ Len(exchanges') > 0
    BY <1>3, CallAssumption DEF CallInv, CallsJustified
  <2>2. ASSUME NEW i \in 1..(Len(exchanges') - 1) PROVE WorthRetrying(exchanges[i])'
    <3>1. i \in 1..Len(exchanges) /\ exchanges'[i] = exchanges[i]
      BY <1>3
    <3>2. WorthRetrying(exchanges[i])
      BY <3>1 DEF CallInv, GoesOn
    <3>. QED  BY <1>4, <3>1, <3>2 DEF WorthRetrying
  <2>3. exchanges'[Len(exchanges')].reply = reply /\ Attempt = Len(exchanges')
    BY <1>3, <1>6 DEF Attempt
  <2>4. /\ (ending' = "answered") <=> (exchanges'[Len(exchanges')].reply = "good")
        /\ (ending \in ProviderErrorKind => ending = KindOf(exchanges[Len(exchanges)].reply))'
    BY <1>4, <1>5, <2>3
  <2>5. ending' \in Retryable => Len(exchanges') = CallAttempts
    BY <1>5, <2>3 DEF Retryable, ProviderErrorKind
  <2>. QED  BY <1>5, <2>1, <2>2, <2>4, <2>5 DEF CallsJustified, WorthRetrying
<1>. QED  BY <1>7, <1>8, <1>9 DEF CallInv

LEMMA Retries ==
    ASSUME CallInv, NEW reply \in Replies, NEW hint \in Hints \union {NoHint},
           NEW jitter \in 0..JitterCap(Attempt), Retry(reply, hint, jitter)
    PROVE  CallInv'
<1>. DEFINE e == [reply |-> reply, hint |-> hint, delay |-> Delay(jitter, hint)]
<1>0. exchanges \in Seq(Exchange) /\ Len(exchanges) \in Nat
  BY DEF CallInv, CallTypeOK
<1>1. /\ Delay(jitter, hint) \in Nat
      /\ hint # NoHint => Delay(jitter, hint) >= Smaller(hint, MaxRetryAfter)
      /\ Delay(jitter, hint) <= MaxDelay
           \/ (hint # NoHint /\ Delay(jitter, hint) <= MaxRetryAfter)
  BY <1>0, DelayBounds DEF Attempt
<1>2. e \in Exchange /\ WorthRetrying(e)
  BY <1>1, RepliesKnown DEF CallInv, Exchange, WorthRetrying, Retry
<1>3. exchanges' = Append(exchanges, e)
  BY DEF Retry, Exchanged
<1>. HIDE DEF e
<1>4. /\ exchanges' \in Seq(Exchange)
      /\ Len(exchanges') = Len(exchanges) + 1
      /\ exchanges'[Len(exchanges) + 1] = e
      /\ \A i \in 1..Len(exchanges) : exchanges'[i] = exchanges[i]
  BY <1>0, <1>2, <1>3, Appended
<1>5. call' = call /\ ending' = "calling" /\ ending = "calling"
  BY DEF Retry
<1>6. \A x : KindOf(x)' = KindOf(x)
  BY <1>5 DEF KindOf
<1>7. Len(exchanges') < CallAttempts
  BY <1>0, <1>4 DEF Retry, Attempt
<1>8. ASSUME NEW i \in 1..Len(exchanges') PROVE WorthRetrying(exchanges[i])'
  <2>1. WorthRetrying(exchanges'[i])
    <3>1. CASE i = Len(exchanges) + 1
      BY <1>2, <1>4, <3>1
    <3>2. CASE i \in 1..Len(exchanges)
      BY <1>4, <1>5, <3>2 DEF CallInv, GoesOn
    <3>. QED  BY <1>0, <1>4, <3>1, <3>2
  <2>. QED  BY <1>6, <2>1 DEF WorthRetrying
<1>9. CallTypeOK' /\ GoesOn'
  BY <1>4, <1>5, <1>8 DEF CallInv, CallTypeOK, GoesOn
<1>10. CallsJustified'
  <2>1. \A i \in 1..(Len(exchanges') - 1) : WorthRetrying(exchanges[i])'
    BY <1>0, <1>4, <1>8
  <2>. QED  BY <1>0, <1>4, <1>5, <1>7, <2>1, CallAssumption DEF CallsJustified, WorthRetrying
<1>. QED  BY <1>9, <1>10 DEF CallInv

LEMMA CallStep == CallInv /\ [CallNext]_callVars => CallInv'
<1>. SUFFICES ASSUME CallInv, [CallNext]_callVars PROVE CallInv'
  OBVIOUS
<1>1. ASSUME NEW r \in CallRequests, Call(r) PROVE CallInv'
  <2>1. exchanges = << >> /\ exchanges' = << >> /\ ending' = "calling" /\ call' = r
    BY <1>1 DEF Call, CallInv, GoesOn
  <2>2. CallTypeOK'
    BY <2>1 DEF CallTypeOK
  <2>3. GoesOn' /\ CallsJustified'
    BY <2>1, CallAssumption DEF GoesOn, CallsJustified, ProviderErrorKind
  <2>. QED  BY <2>2, <2>3 DEF CallInv
<1>2. CASE Answer
  BY <1>2, Ends DEF Answer
<1>3. ASSUME NEW reply \in Replies, Escape(reply) PROVE CallInv'
  <2>1. reply # "good"
    BY <1>3 DEF Escape, Escaping
  <2>. QED  BY <1>3, <2>1, Ends DEF Escape
<1>4. ASSUME NEW reply \in Replies, NEW hint \in Hints \union {NoHint}, Refuse(reply, hint)
      PROVE  CallInv'
  BY <1>4, Ends DEF Refuse
<1>5. ASSUME NEW reply \in Replies, NEW hint \in Hints \union {NoHint},
             NEW jitter \in 0..JitterCap(Attempt), Retry(reply, hint, jitter)
      PROVE  CallInv'
  BY <1>5, Retries
<1>6. CASE UNCHANGED callVars
  <2>1. call' = call /\ exchanges' = exchanges /\ ending' = ending
    BY <1>6 DEF callVars
  <2>2. \A x : KindOf(x)' = KindOf(x)
    BY <2>1 DEF KindOf
  <2>. QED  BY <2>1, <2>2 DEF CallInv, CallTypeOK, GoesOn, WorthRetrying, CallsJustified
<1>. QED  BY <1>1, <1>2, <1>3, <1>4, <1>5, <1>6 DEF CallNext

\* Whatever a provider answers, a call stays within its policy, waits as it was
\* asked to, and ends with the result of its last attempt (retry.py:38-80).
THEOREM CallsAreJustified == CallSpec => []CallsJustified
<1>1. CallInv => CallsJustified
  BY DEF CallInv
<1>. QED  BY <1>1, InitialCall, CallStep, PTL DEF CallSpec

-----------------------------------------------------------------------------
(* The progress stream *)

\* A response has sent nothing until its loop has an object, and from then on the
\* one event of that object; an object of an ended run is the row.
StreamInv ==
    /\ state \in Run!RunStates /\ version \in Nat \ {0}
    /\ model = NoModel => sent = << >> /\ stream # "ended"
    /\ model # NoModel => sent = <<model>>
    /\ model # NoModel /\ model.state \in Run!TerminalRunStates =>
          model = [version |-> version, state |-> state]
    /\ stream = "ended" => model.state \in Run!TerminalRunStates

\* Where a run may go, and that it goes nowhere from an end.
LEMMA RunEdges ==
    /\ \A s \in Run!RunStates : Run!Allowed[s] \subseteq Run!RunStates
    /\ \A s \in Run!TerminalRunStates : s \in Run!RunStates /\ Run!Allowed[s] = {}
<1>1. \A s \in Run!TerminalRunStates : s \in Run!RunStates /\ Run!Allowed[s] = {}
  BY DEF Run!TerminalRunStates, Run!RunStates, Run!Allowed
<1>2. \A s \in Run!RunStates : Run!Allowed[s] \subseteq Run!RunStates
  BY DEF Run!RunStates, Run!Allowed
<1>. QED  BY <1>1, <1>2

\* A step of the run takes an edge or keeps the state.
LEMMA RunStepsOnEdges ==
    ASSUME Run!Next
    PROVE  state' = state \/ state' \in Run!Allowed[state]
BY DEF Run!Next, Run!Move, Run!Cancel, Run!Record, Run!MayMove

\* The invariant holds before the client comes.
LEMMA StreamStarts == StreamInit => StreamInv
BY DEF StreamInit, StreamInv, Run!Init, Run!RunStates

\* Every step keeps it.
LEMMA StreamStep == StreamInv /\ [StreamNext]_streamVars => StreamInv'
<1>. SUFFICES ASSUME StreamInv, [StreamNext]_streamVars PROVE StreamInv'
  OBVIOUS
<1>1. CASE RunMoves
  <2>1. state' = state \/ state' \in Run!Allowed[state]
    BY <1>1, RunStepsOnEdges DEF RunMoves
  <2>2. state' \in Run!RunStates /\ version' \in Nat \ {0}
    BY <1>1, <2>1, RunEdges DEF StreamInv, RunMoves
  <2>3. state \in Run!TerminalRunStates => state' = state /\ version' = version
    BY <1>1, <2>1, RunEdges DEF RunMoves
  <2>4. model' = model /\ sent' = sent /\ stream' = stream
    BY <1>1 DEF RunMoves
  <2>5. model # NoModel /\ model.state \in Run!TerminalRunStates =>
           model = [version |-> version', state |-> state']
    BY <2>3 DEF StreamInv
  <2>. QED  BY <2>2, <2>4, <2>5 DEF StreamInv, NoModel, Run!RunStates, Run!TerminalRunStates
<1>2. CASE Poll
  <2>. DEFINE row == [version |-> version, state |-> state]
  <2>1. stream = "open" /\ model' = Selected /\ sent' = Sent(model')
        /\ stream' = (IF model'.state \in Run!TerminalRunStates THEN "ended" ELSE "open")
        /\ state' = state /\ version' = version
    BY <1>2 DEF Poll, runVars
  <2>2. CASE model = NoModel
    <3>1. model' = row /\ row # NoModel
      BY <2>1, <2>2 DEF Selected, StreamInv, NoModel
    <3>2. sent' = <<row>>
      BY <2>1, <2>2, <3>1 DEF Sent, Fresh, StreamInv
    <3>. HIDE DEF row
    <3>. QED  BY <2>1, <3>1, <3>2 DEF StreamInv, row
  <2>3. CASE model # NoModel
    <3>1. model' = model /\ sent = <<model>>
      BY <2>1, <2>3 DEF Selected, StreamInv
    <3>2. Len(sent) = 1 /\ sent # << >> /\ sent[Len(sent)].version = model.version
      BY <3>1
    <3>3. sent' = sent
      BY <2>1, <3>1, <3>2 DEF Sent, Fresh
    <3>. QED  BY <2>1, <2>3, <3>1, <3>3 DEF StreamInv
  <2>. QED  BY <2>2, <2>3
<1>3. CASE Connect \/ Disconnect
  BY <1>3 DEF Connect, Disconnect, StreamInv, runVars, Run!RunStates, Run!TerminalRunStates
<1>4. CASE UNCHANGED streamVars
  BY <1>4 DEF streamVars, runVars, StreamInv, Run!RunStates, Run!TerminalRunStates
<1>. QED  BY <1>1, <1>2, <1>3, <1>4 DEF StreamNext

\* A response the server ends has told the client how the run ended: the loop of
\* stream_run_progress ends on the object it has just sent, and a run that has
\* ended has no other stamp or state to come.
THEOREM StreamTells == StreamSpec => []EndsWithLastWord
<1>1. StreamInv => EndsWithLastWord
  <2>. SUFFICES ASSUME StreamInv, stream = "ended"
                PROVE  /\ sent # << >>
                       /\ sent[Len(sent)] = [version |-> version, state |-> state]
                       /\ state \in Run!TerminalRunStates
    BY DEF EndsWithLastWord
  <2>1. model # NoModel /\ model.state \in Run!TerminalRunStates /\ sent = <<model>>
    BY DEF StreamInv
  <2>2. model = [version |-> version, state |-> state]
    BY <2>1 DEF StreamInv
  <2>. QED  BY <2>1, <2>2
<1>. QED  BY <1>1, StreamStarts, StreamStep, PTL DEF StreamSpec

-----------------------------------------------------------------------------
(* Commands *)

\* How far a run of a command is.
Stages == {"none", "options", "input", "request", "output", "result", "ended"}

CommandTypeOK ==
    /\ script \in [command : AllCommands \union {"none"}, at : Stages, reruns : Nat]
    /\ screen \in [code : 0..5, shown : BOOLEAN, written : BOOLEAN, passed : BOOLEAN]
    /\ server \in [left : Nat, heard : Answers \union {"none"}, unseen : Nat]

\* What is left at the API without a result that was heard of, was left by answers
\* that were not seen; and only some commands leave anything.
Accounted ==
    /\ server.left <= server.unseen + 1
    /\ script.at = "none" \/ script.command \notin Additive \union Single => server.left = 0
    /\ server.heard # "value" => server.left <= server.unseen

\* Until the answer is a result, there is nothing on the screen.
Asking ==
    /\ script.at # "none" => script.command # "none"
    /\ script.at \in {"none", "options", "input", "request"} =>
          screen = BlankScreen /\ server.heard \in {"none", "page"}
    /\ script.at \in {"none", "options", "input"} => server.heard = "none"
    /\ script.at = "request" => script.command \notin Local

\* With the result, nothing is shown yet; a file comes first.
Answered ==
    script.at \in {"output", "result"} =>
        /\ server.heard = (IF script.command \in Local THEN "none" ELSE "value")
        /\ ~screen.shown /\ screen.code = 0
        /\ ~screen.passed => script.command = "gate_check"
        /\ script.at = "output" => script.command \in WritesFile /\ ~screen.written
        /\ script.at = "result" /\ script.command \in WritesFile => screen.written

CommandInv == CommandTypeOK /\ Accounted /\ Asking /\ Answered /\ CodesTell

\* What the exit codes of one ended run must tell, of its command c, the last answer
\* heard and what the screen shows.
Tells(c, heard, code, shown, written, passed) ==
    /\ code = 0 =>
          /\ shown /\ passed
          /\ c \notin Local => heard = "value"
          /\ c \in WritesFile => written
    /\ code = 5 <=> c = "gate_check" /\ shown /\ ~passed
    /\ code = 5 => heard = "value"
    /\ code = 3 => c \in {"report_export", "dataset_import"} /\ heard \in {"none", "value"} /\ ~shown
    /\ code = 4 => heard \notin {"none", "value", "lost", "misfit"}
    /\ code = 2 => heard \in {"none", "misfit"}

\* So an ended run keeps the invariant if its code tells and the rest is accounted for.
LEMMA EndedTells ==
    ASSUME CommandTypeOK', Accounted', script'.at = "ended", script'.command # "none",
           Tells(script'.command, server'.heard, screen'.code, screen'.shown,
                 screen'.written, screen'.passed),
           screen'.code \notin {0, 5} => server'.left <= server'.unseen
    PROVE  CommandInv'
<1>1. Asking' /\ Answered'
  BY DEF Asking, Answered
<1>2. CodesTell'
  BY DEF CodesTell, Tells, Accounted
<1>. QED  BY <1>1, <1>2 DEF CommandInv

\* Which commands are which.
LEMMA Kinds ==
    /\ Local \subseteq AllCommands /\ WritesFile \subseteq AllCommands
    /\ "none" \notin AllCommands
    /\ "gate_check" \notin Local \union WritesFile \union Additive \union Single
    /\ WritesFile = {"suite_create", "report_export"}
    /\ WritesFile \cap (Additive \union Single) = {}
    /\ "suite_create" \in Local /\ "report_export" \notin Local
BY DEF Local, AllCommands, WritesFile, Additive, Single

\* The fields of a script, a screen and a server that are written one by one.
LEMMA Fields ==
    ASSUME CommandTypeOK
    PROVE  /\ \A at \in Stages :
                 LET s == [script EXCEPT !.at = at]
                 IN  /\ s \in [command : AllCommands \union {"none"}, at : Stages, reruns : Nat]
                     /\ s.at = at /\ s.command = script.command
           /\ \A code \in 0..5 :
                 LET s == [screen EXCEPT !.code = code]
                 IN  /\ s \in [code : 0..5, shown : BOOLEAN, written : BOOLEAN, passed : BOOLEAN]
                     /\ s.code = code /\ s.shown = screen.shown
                     /\ s.written = screen.written /\ s.passed = screen.passed
BY DEF CommandTypeOK

\* A code that ends a run without a result.
LEMMA ExitTells ==
    ASSUME CommandTypeOK, NEW code \in 0..5, Exit(code), script.command # "none",
           server' \in [left : Nat, heard : Answers \union {"none"}, unseen : Nat], Accounted',
           Tells(script.command, server'.heard, code, screen.shown, screen.written, screen.passed),
           server'.left <= server'.unseen
    PROVE  CommandInv'
<1>1. /\ script' \in [command : AllCommands \union {"none"}, at : Stages, reruns : Nat]
      /\ script'.at = "ended" /\ script'.command = script.command
  BY Fields DEF Exit, Stages
<1>2. /\ screen' \in [code : 0..5, shown : BOOLEAN, written : BOOLEAN, passed : BOOLEAN]
      /\ screen'.code = code /\ screen'.shown = screen.shown
      /\ screen'.written = screen.written /\ screen'.passed = screen.passed
  BY Fields DEF Exit
<1>3. CommandTypeOK'
  BY <1>1, <1>2 DEF CommandTypeOK
<1>. QED  BY <1>1, <1>2, <1>3, EndedTells

\* Before the answer, options and input turn a command down with 1, 2 or 3.
LEMMA RejectionsTell ==
    ASSUME CommandInv, RejectOptions \/ RejectInput
    PROVE  CommandInv'
<1>1. /\ server' = server /\ screen = BlankScreen /\ server.heard = "none"
      /\ script.command # "none" /\ CommandTypeOK /\ Accounted
      /\ script.command \in AllCommands
  BY DEF RejectOptions, RejectInput, CommandInv, Asking, CommandTypeOK
<1>2. PICK code \in 1..3 :
         /\ Exit(code)
         /\ code = 3 => script.command \in {"report_export", "dataset_import"}
  <2>1. CASE RejectOptions
    <3>1. Unshown(script.command) \in 1..3
          /\ (Unshown(script.command) = 3 => script.command \in {"report_export", "dataset_import"})
      BY DEF Unshown
    <3>2. Exit(2) \/ Exit(Unshown(script.command)) \/ Exit(1)
      BY <2>1 DEF RejectOptions, Usage, LeaveWith
    <3>. QED  BY <3>1, <3>2
  <2>2. CASE RejectInput
    <3>1. Unreadable(script.command) \in 2..3 /\ Unfit(script.command) \in 1..2
      BY DEF Unreadable, Unfit
    <3>2. Unreadable(script.command) = 3 => script.command = "dataset_import"
      BY DEF Unreadable
    <3>3. Exit(Unreadable(script.command)) \/ Exit(Unfit(script.command)) \/ Exit(1)
      BY <2>2 DEF RejectInput, LeaveWith
    <3>. QED  BY <3>1, <3>2, <3>3
  <2>. QED  BY <2>1, <2>2
<1>3. code \in 0..5 /\ Accounted' /\ server'.left <= server'.unseen
  <2>1. script'.command = script.command /\ script'.at # "none"
    BY <1>1, <1>2, Fields DEF Exit, Stages
  <2>. QED  BY <1>1, <2>1 DEF Accounted
<1>4. Tells(script.command, server'.heard, code, screen.shown, screen.written, screen.passed)
  <2>1. screen.passed /\ ~screen.shown /\ ~screen.written
    BY <1>1 DEF BlankScreen
  <2>. QED  BY <1>1, <1>2, <2>1 DEF Tells
<1>5. server' \in [left : Nat, heard : Answers \union {"none"}, unseen : Nat]
  BY <1>1 DEF CommandTypeOK
<1>. QED  BY <1>1, <1>2, <1>3, <1>4, <1>5, ExitTells

\* Steps that leave a run of a command under way: what is left to show of them.
LEMMA UnderWay ==
    ASSUME CommandTypeOK', Accounted', Asking', Answered', script'.at # "ended"
    PROVE  CommandInv'
BY DEF CommandInv, CodesTell

\* A new run of a command starts from a blank screen and has heard nothing.
LEMMA StartsTell ==
    ASSUME CommandInv, (\E c \in CommandNames : RunCommand(c)) \/ Rerun
    PROVE  CommandInv'
<1>0. CommandTypeOK /\ Accounted /\ Asking /\ CodesTell
  BY DEF CommandInv
<1>1. /\ script' \in [command : AllCommands \union {"none"}, at : Stages, reruns : Nat]
      /\ script'.at = "options" /\ script'.command # "none"
  <2>1. CASE \E c \in CommandNames : RunCommand(c)
    <3>1. PICK c \in CommandNames : RunCommand(c)
      BY <2>1
    <3>2. c \in AllCommands
      BY <3>1, CommandsAssumption
    <3>3. script' = [command |-> c, at |-> "options", reruns |-> 0]
      BY <3>1 DEF RunCommand, NoScript
    <3>. QED  BY <3>2, <3>3, Kinds DEF Stages
  <2>2. CASE Rerun
    <3>1. script' = [script EXCEPT !.at = "options", !.reruns = @ + 1]
      BY <2>2 DEF Rerun
    <3>2. script.command # "none"
      BY <1>0, <2>2 DEF Rerun, Asking
    <3>3. script \in [command : AllCommands \union {"none"}, at : Stages, reruns : Nat]
      BY <1>0 DEF CommandTypeOK
    <3>4. /\ script'.command = script.command /\ script'.at = "options"
          /\ script' \in [command : AllCommands \union {"none"}, at : Stages, reruns : Nat]
      <4>1. script' = [command |-> script.command, at |-> "options",
                       reruns |-> script.reruns + 1]
        BY <3>1, <3>3
      <4>2. script.command \in AllCommands \union {"none"} /\ script.reruns + 1 \in Nat
        BY <3>3
      <4>3. "options" \in Stages
        BY DEF Stages
      <4>. QED  BY <4>1, <4>2, <4>3
    <3>. QED  BY <3>2, <3>4
  <2>. QED  BY <2>1, <2>2
<1>2. screen' = BlankScreen
  BY <1>0 DEF RunCommand, Rerun, Asking
<1>3. /\ server' \in [left : Nat, heard : Answers \union {"none"}, unseen : Nat]
      /\ server'.heard = "none" /\ server'.left = server.left
      /\ server'.unseen = server.unseen
      /\ server.left <= server.unseen
      /\ script'.command \notin Additive \union Single => server.left = 0
  <2>1. server \in [left : Nat, heard : Answers \union {"none"}, unseen : Nat]
    BY <1>0 DEF CommandTypeOK
  <2>2. CASE \E c \in CommandNames : RunCommand(c)
    BY <1>0, <2>1, <2>2 DEF RunCommand, Asking, Accounted
  <2>3. CASE Rerun
    <3>1. server' = [server EXCEPT !.heard = "none"] /\ server.left <= server.unseen
      BY <1>0, <2>3 DEF Rerun, CodesTell
    <3>2. script'.command = script.command
      BY <1>0, <2>3 DEF Rerun, CommandTypeOK
    <3>. QED  BY <1>0, <2>1, <3>1, <3>2 DEF Accounted
  <2>. QED  BY <2>2, <2>3
<1>4. CommandTypeOK'
  <2>1. BlankScreen \in [code : 0..5, shown : BOOLEAN, written : BOOLEAN, passed : BOOLEAN]
    BY DEF BlankScreen
  <2>. QED  BY <1>1, <1>2, <1>3, <2>1 DEF CommandTypeOK
<1>5. Accounted' /\ Asking' /\ Answered'
  BY <1>0, <1>1, <1>2, <1>3 DEF Accounted, Asking, Answered
<1>. QED  BY <1>1, <1>4, <1>5, UnderWay

\* The steps before the request change nothing but how far the run is.
LEMMA InputTells ==
    ASSUME CommandInv, AcceptOptions \/ AcceptInput
    PROVE  CommandInv'
<1>0. CommandTypeOK /\ Accounted /\ Asking /\ Answered
  BY DEF CommandInv
<1>1. PICK at \in {"input", "request", "output", "result"} :
         /\ script' = [script EXCEPT !.at = at]
         /\ at = "request" => script.command \notin Local
         /\ at \in {"output", "result"} =>
               /\ script.command \in Local
               /\ at = "output" <=> script.command \in WritesFile
  <2>1. CASE AcceptOptions
    BY <2>1 DEF AcceptOptions, Go
  <2>2. CASE AcceptInput
    BY <2>2 DEF AcceptInput, Go
  <2>. QED  BY <2>1, <2>2
<1>2. /\ screen' = screen /\ server' = server
      /\ script.at \in {"options", "input"}
  BY DEF AcceptOptions, AcceptInput
<1>3. screen = BlankScreen /\ server.heard = "none" /\ script.command # "none"
  BY <1>0, <1>2 DEF Asking
<1>4. /\ script' \in [command : AllCommands \union {"none"}, at : Stages, reruns : Nat]
      /\ script'.at = at /\ script'.command = script.command
  BY <1>0, <1>1, Fields DEF Stages
<1>5. CommandTypeOK' /\ Accounted'
  BY <1>0, <1>2, <1>4 DEF CommandTypeOK, Accounted
<1>6. Asking'
  BY <1>1, <1>2, <1>3, <1>4 DEF Asking
<1>7. Answered'
  <2>1. ~BlankScreen.shown /\ BlankScreen.code = 0 /\ BlankScreen.passed /\ ~BlankScreen.written
    BY DEF BlankScreen
  <2>. QED  BY <1>1, <1>2, <1>3, <1>4, <2>1 DEF Answered
<1>. QED  BY <1>1, <1>4, <1>5, <1>6, <1>7, UnderWay

\* dataset_validate tells of invalid rows with a 2, without a request.
LEMMA InvalidTells ==
    ASSUME CommandInv, FindInvalid
    PROVE  CommandInv'
<1>0. CommandTypeOK /\ Accounted /\ Asking
  BY DEF CommandInv
<1>1. /\ script.command = "dataset_validate" /\ server' = server /\ CommandTypeOK
      /\ script' = [script EXCEPT !.at = "ended"]
      /\ screen' = [screen EXCEPT !.code = 2, !.shown = TRUE]
      /\ server.heard = "none" /\ screen = BlankScreen
  BY <1>0 DEF FindInvalid, Asking
<1>2. /\ script' \in [command : AllCommands \union {"none"}, at : Stages, reruns : Nat]
      /\ script'.at = "ended" /\ script'.command = "dataset_validate"
  BY <1>0, <1>1, Fields DEF Stages
<1>3. /\ screen' \in [code : 0..5, shown : BOOLEAN, written : BOOLEAN, passed : BOOLEAN]
      /\ screen'.code = 2 /\ screen'.shown /\ ~screen'.written /\ screen'.passed
  <2>1. screen' = [code |-> 2, shown |-> TRUE, written |-> FALSE, passed |-> TRUE]
    BY <1>1 DEF BlankScreen
  <2>. QED  BY <2>1
<1>4. CommandTypeOK' /\ Accounted'
  BY <1>0, <1>1, <1>2, <1>3 DEF CommandTypeOK, Accounted
<1>5. Tells(script'.command, server'.heard, screen'.code, screen'.shown,
            screen'.written, screen'.passed)
  BY <1>1, <1>2, <1>3 DEF Tells
<1>6. server'.left <= server'.unseen
  BY <1>0, <1>1 DEF Accounted
<1>. QED  BY <1>2, <1>4, <1>5, <1>6, Kinds, EndedTells

\* An answer of the API: a page is followed by the next request, a result by the output,
\* and any other answer ends the run.
LEMMA AnswerTells ==
    ASSUME CommandInv, NEW answer \in Answers, NEW applied \in BOOLEAN, NEW passed \in BOOLEAN,
           Receive(answer, applied, passed)
    PROVE  CommandInv'
<1>0. /\ CommandTypeOK /\ Accounted /\ Asking
      /\ script.at = "request" /\ script.command \in AllCommands
      /\ script.command \notin Local /\ screen = BlankScreen
      /\ server.heard \in {"none", "page"}
  BY DEF CommandInv, Asking, Receive, CommandTypeOK
<1>1. /\ server' = [left |-> Left(script.command, applied), heard |-> answer,
                    unseen |-> IF applied /\ answer # "value" THEN server.unseen + 1
                                ELSE server.unseen]
      /\ applied \in Applied(answer)
      /\ passed \/ (script.command = "gate_check" /\ answer = "value")
      /\ script.command = "report_export" => answer \notin {"list", "misfit", "noise"}
  BY DEF Receive
<1>2. /\ server.left \in Nat /\ server.unseen \in Nat /\ server.left =< server.unseen
  BY <1>0 DEF CommandTypeOK, Accounted
<1>3. /\ Left(script.command, applied) \in Nat
      /\ ~applied => Left(script.command, applied) = server.left
      /\ Left(script.command, applied) =< server.unseen + 1
  BY <1>2 DEF Left
<1>4. /\ server' \in [left : Nat, heard : Answers \union {"none"}, unseen : Nat]
      /\ server'.heard = answer
  BY <1>1, <1>2, <1>3
<1>5. Accounted' /\ (answer # "value" => server'.left <= server'.unseen)
  <2>1. script'.command = script.command /\ script'.at # "none"
    <3>1. \/ script' = script
          \/ \E at \in Stages \ {"none"} : script' = [script EXCEPT !.at = at]
      BY DEF Receive, Go, Exit, LeaveWith, Stages
    <3>. QED  BY <1>0, <3>1, Fields
  <2>2. script.command \notin Additive \union Single => Left(script.command, applied) = 0
    BY <1>0 DEF Left, Accounted
  <2>. QED  BY <1>1, <1>2, <1>3, <2>1, <2>2 DEF Accounted
<1>6. CASE answer = "page"
  <2>1. script' = script /\ screen' = screen
    BY <1>6 DEF Receive
  <2>2. CommandTypeOK' /\ Asking' /\ Answered'
    BY <1>0, <1>4, <1>6, <2>1 DEF CommandTypeOK, Asking, Answered
  <2>. QED  BY <1>0, <1>5, <2>1, <2>2, UnderWay
<1>7. CASE answer = "value"
  <2>1. /\ script' = [script EXCEPT !.at = IF script.command \in WritesFile THEN "output"
                                           ELSE "result"]
        /\ screen' = [screen EXCEPT !.passed = passed]
    BY <1>7 DEF Receive, Go
  <2>2. /\ script' \in [command : AllCommands \union {"none"}, at : Stages, reruns : Nat]
        /\ script'.at = (IF script.command \in WritesFile THEN "output" ELSE "result")
        /\ script'.command = script.command
    BY <1>0, <2>1, Fields DEF Stages
  <2>3. screen' = [code |-> 0, shown |-> FALSE, written |-> FALSE, passed |-> passed]
    BY <1>0, <2>1 DEF BlankScreen
  <2>4. CommandTypeOK'
    BY <1>4, <2>2, <2>3 DEF CommandTypeOK
  <2>5. Asking'
    BY <1>0, <2>2, Kinds DEF Asking
  <2>6. Answered'
    BY <1>0, <1>1, <1>4, <1>7, <2>2, <2>3 DEF Answered
  <2>. QED  BY <1>5, <2>2, <2>4, <2>5, <2>6, UnderWay
<1>8. CASE answer \notin {"page", "value"}
  <2>1. PICK code \in {AnswerCode(script.command, answer), 1} : Exit(code)
    BY <1>8 DEF Receive, LeaveWith
  <2>2. /\ AnswerCode(script.command, answer) \in {1, 2, 4}
        /\ AnswerCode(script.command, answer) = 4 => answer \in {"refusal", "list", "crash", "noise"}
        /\ AnswerCode(script.command, answer) = 2 => answer = "misfit"
    BY <1>8 DEF AnswerCode, Answers, Unfit
  <2>3. /\ ~BlankScreen.shown /\ BlankScreen.passed /\ ~BlankScreen.written
    BY DEF BlankScreen
  <2>4. Tells(script.command, server'.heard, code, screen.shown, screen.written, screen.passed)
    BY <1>0, <1>4, <1>8, <2>1, <2>2, <2>3 DEF Tells
  <2>5. code \in 0..5 /\ script.command # "none"
    BY <1>0, <2>1, <2>2, Kinds
  <2>. QED  BY <1>0, <1>4, <1>5, <1>8, <2>1, <2>4, <2>5, ExitTells
<1>. QED  BY <1>6, <1>7, <1>8

\* A command that writes its file has its result; one that cannot, ends with 2 or 3.
LEMMA WrittenTells ==
    ASSUME CommandInv, WriteOutput
    PROVE  CommandInv'
<1>0. /\ CommandTypeOK /\ Accounted /\ Asking /\ Answered /\ script.at = "output"
      /\ server' = server
  BY DEF CommandInv, WriteOutput
<1>1. /\ script.command \in WritesFile /\ ~screen.written /\ ~screen.shown
      /\ screen.code = 0 /\ screen.passed /\ script.command # "none"
      /\ server.heard = (IF script.command \in Local THEN "none" ELSE "value")
  BY <1>0, Kinds DEF Asking, Answered
<1>2. /\ server \in [left : Nat, heard : Answers \union {"none"}, unseen : Nat]
      /\ screen \in [code : 0..5, shown : BOOLEAN, written : BOOLEAN, passed : BOOLEAN]
      /\ Accounted' /\ server'.left <= server'.unseen
  <2>1. script'.command = script.command /\ script'.at # "none"
    <3>1. \E at \in Stages \ {"none"} : script' = [script EXCEPT !.at = at]
      BY DEF WriteOutput, Go, Exit, LeaveWith, Stages
    <3>. QED  BY <1>0, <3>1, Fields
  <2>2. server.left = 0
    BY <1>0, <1>1, Kinds DEF Accounted
  <2>. QED  BY <1>0, <2>1, <2>2 DEF CommandTypeOK, Accounted
<1>3. CASE Go("result") /\ screen' = [screen EXCEPT !.written = TRUE]
  <2>1. /\ script' \in [command : AllCommands \union {"none"}, at : Stages, reruns : Nat]
        /\ script'.at = "result" /\ script'.command = script.command
    BY <1>0, <1>3, Fields DEF Stages, Go
  <2>2. /\ screen' \in [code : 0..5, shown : BOOLEAN, written : BOOLEAN, passed : BOOLEAN]
        /\ screen'.code = 0 /\ screen'.shown = screen.shown
        /\ screen'.written /\ screen'.passed = screen.passed
    BY <1>1, <1>2, <1>3
  <2>3. CommandTypeOK'
    BY <1>0, <1>2, <2>1, <2>2 DEF CommandTypeOK
  <2>4. Asking' /\ Answered'
    BY <1>0, <1>1, <2>1, <2>2 DEF Asking, Answered
  <2>. QED  BY <1>2, <2>1, <2>3, <2>4, UnderWay
<1>4. CASE LeaveWith(Unwritable(script.command))
  <2>1. Unwritable(script.command) \in {2, 3}
    BY DEF Unwritable
  <2>2. /\ Unwritable(script.command) = 3 => script.command = "report_export"
        /\ Unwritable(script.command) = 2 => script.command \in Local
    BY <1>1, Kinds DEF Unwritable
  <2>. PICK code \in {Unwritable(script.command), 1} : Exit(code)
    BY <1>4 DEF LeaveWith
  <2>3. Tells(script.command, server'.heard, code, screen.shown, screen.written, screen.passed)
    BY <1>0, <1>1, <2>1, <2>2, Kinds DEF Tells
  <2>4. code \in 0..5
    BY <2>1
  <2>. QED  BY <1>0, <1>1, <1>2, <2>3, <2>4, ExitTells
<1>. QED  BY <1>3, <1>4 DEF WriteOutput

\* A command that shows its result ends with 0, or with 5 when its gate did not pass.
LEMMA ShownTells ==
    ASSUME CommandInv, ShowResult
    PROVE  CommandInv'
<1>0. /\ CommandTypeOK /\ Accounted /\ Asking /\ Answered /\ script.at = "result"
      /\ server' = server
  BY DEF CommandInv, ShowResult
<1>1. /\ script' = [script EXCEPT !.at = "ended"]
      /\ screen' = [screen EXCEPT !.shown = TRUE,
                                  !.code = GateCode(script.command, screen.passed)]
  BY DEF ShowResult
<1>2. /\ server.heard = (IF script.command \in Local THEN "none" ELSE "value")
      /\ ~screen.passed => script.command = "gate_check"
      /\ script.command \in WritesFile => screen.written
      /\ script.command # "none"
  BY <1>0 DEF Asking, Answered
<1>3. GateCode(script.command, screen.passed) = (IF screen.passed THEN 0 ELSE 5)
  BY <1>2 DEF GateCode
<1>4. /\ script' \in [command : AllCommands \union {"none"}, at : Stages, reruns : Nat]
      /\ script'.at = "ended" /\ script'.command = script.command
  BY <1>0, <1>1, Fields DEF Stages
<1>5. screen \in [code : 0..5, shown : BOOLEAN, written : BOOLEAN, passed : BOOLEAN]
  BY <1>0 DEF CommandTypeOK
<1>6. screen' = [code |-> IF screen.passed THEN 0 ELSE 5, shown |-> TRUE,
                 written |-> screen.written, passed |-> screen.passed]
  BY <1>1, <1>3, <1>5
<1>7. /\ screen' \in [code : 0..5, shown : BOOLEAN, written : BOOLEAN, passed : BOOLEAN]
      /\ screen'.code = (IF screen.passed THEN 0 ELSE 5) /\ screen'.shown
      /\ screen'.written = screen.written /\ screen'.passed = screen.passed
  BY <1>5, <1>6
<1>8. CommandTypeOK' /\ Accounted'
  BY <1>0, <1>4, <1>7 DEF CommandTypeOK, Accounted
<1>9. Tells(script'.command, server'.heard, screen'.code, screen'.shown,
            screen'.written, screen'.passed)
  <2>1. "gate_check" \notin Local
    BY Kinds
  <2>. QED  BY <1>0, <1>2, <1>4, <1>5, <1>7, <2>1 DEF Tells
<1>. QED  BY <1>2, <1>4, <1>7, <1>8, <1>9, EndedTells

\* One whose result cannot be shown has not shown it, and counts as not seen.
LEMMA LostTells ==
    ASSUME CommandInv, LoseResult
    PROVE  CommandInv'
<1>0. /\ CommandTypeOK /\ Accounted /\ Asking /\ Answered /\ script.at = "result"
      /\ server' = [server EXCEPT !.unseen = @ + 1]
  BY DEF CommandInv, LoseResult
<1>1. /\ server.heard = (IF script.command \in Local THEN "none" ELSE "value")
      /\ ~screen.shown /\ script.command # "none"
  BY <1>0 DEF Asking, Answered
<1>2. /\ server \in [left : Nat, heard : Answers \union {"none"}, unseen : Nat]
      /\ server' = [left |-> server.left, heard |-> server.heard, unseen |-> server.unseen + 1]
      /\ server.left <= server.unseen + 1 /\ server.left \in Nat /\ server.unseen \in Nat
  BY <1>0 DEF CommandTypeOK, Accounted
<1>3. PICK code \in {Unshown(script.command), 1} : Exit(code)
  BY DEF LoseResult, LeaveWith
<1>4. script'.command = script.command /\ script'.at = "ended"
  BY <1>0, <1>3, Fields DEF Exit, Stages
<1>5. server' \in [left : Nat, heard : Answers \union {"none"}, unseen : Nat]
  BY <1>2
<1>6. Accounted' /\ server'.left <= server'.unseen
  BY <1>0, <1>2, <1>4 DEF Accounted
<1>7. /\ code \in 1..3
      /\ code = 3 => script.command \in {"report_export", "dataset_import"}
      /\ code = 2 => script.command \in {"suite_create", "dataset_validate"}
  BY <1>3 DEF Unshown
<1>8. Tells(script.command, server'.heard, code, screen.shown, screen.written, screen.passed)
  <2>1. server'.heard = server.heard /\ ~screen.shown
    BY <1>1, <1>2
  <2>2. server.heard \in {"none", "value"} /\ (code = 2 => server.heard = "none")
    BY <1>1, <1>7 DEF Local
  <2>3. code # 0 /\ code # 4 /\ code # 5
    BY <1>7
  <2>4. (code = 5 <=> script.command = "gate_check" /\ screen.shown /\ ~screen.passed)
    BY <2>1, <2>3
  <2>5. code = 3 => /\ script.command \in {"report_export", "dataset_import"}
                    /\ server'.heard \in {"none", "value"} /\ ~screen.shown
    BY <1>7, <2>1, <2>2
  <2>6. code = 2 => server'.heard \in {"none", "misfit"}
    BY <2>1, <2>2
  <2>. QED  BY <2>3, <2>4, <2>5, <2>6 DEF Tells
<1>9. code \in 0..5 /\ CommandTypeOK
  BY <1>0, <1>7
<1>. QED  BY <1>1, <1>3, <1>5, <1>6, <1>8, <1>9, ExitTells

\* The invariant holds at first and every step keeps it.
LEMMA CommandsStart == CommandsInit => CommandInv
<1>. SUFFICES ASSUME CommandsInit PROVE CommandInv
  OBVIOUS
<1>1. /\ script = [command |-> "none", at |-> "none", reruns |-> 0]
      /\ screen = [code |-> 0, shown |-> FALSE, written |-> FALSE, passed |-> TRUE]
      /\ server = [left |-> 0, heard |-> "none", unseen |-> 0]
  BY DEF CommandsInit, NoScript, BlankScreen
<1>2. CommandTypeOK
  BY <1>1 DEF CommandTypeOK, Stages
<1>3. Accounted /\ Asking /\ Answered /\ CodesTell
  <2>1. /\ script.at = "none" /\ script.command = "none" /\ screen = BlankScreen
        /\ server.heard = "none" /\ server.left = 0 /\ server.unseen = 0
    BY <1>1 DEF BlankScreen
  <2>. QED  BY <2>1 DEF Accounted, Asking, Answered, CodesTell
<1>. QED  BY <1>2, <1>3 DEF CommandInv

\* One step of the script.
LEMMA CommandsStep == CommandInv /\ [CommandsNext]_commandVars => CommandInv'
<1>. SUFFICES ASSUME CommandInv, [CommandsNext]_commandVars PROVE CommandInv'
  OBVIOUS
<1>1. CASE \E c \in CommandNames : RunCommand(c)
  BY <1>1, StartsTell
<1>2. CASE RejectOptions \/ RejectInput
  BY <1>2, RejectionsTell
<1>3. CASE AcceptOptions \/ AcceptInput
  BY <1>3, InputTells
<1>4. CASE FindInvalid
  BY <1>4, InvalidTells
<1>5. CASE \E answer \in Answers, applied, passed \in BOOLEAN : Receive(answer, applied, passed)
  BY <1>5, AnswerTells
<1>6. CASE WriteOutput
  BY <1>6, WrittenTells
<1>7. CASE ShowResult \/ LoseResult
  BY <1>7, ShownTells, LostTells
<1>8. CASE Rerun
  BY <1>8, StartsTell
<1>9. CASE UNCHANGED commandVars
  BY <1>9 DEF commandVars, CommandInv, CommandTypeOK, Accounted, Asking, Answered, CodesTell
<1>. QED
  BY <1>1, <1>2, <1>3, <1>4, <1>5, <1>6, <1>7, <1>8, <1>9 DEF CommandsNext

\* What a script concludes from an exit code is true, whatever command it ran, however
\* often it ran it again, and whatever the API answered or lost on the way.
THEOREM CodesAreTold == CommandsSpec => []CodesTell
<1>1. CommandsInit => CommandInv
  BY CommandsStart
<1>2. CommandInv /\ [CommandsNext]_commandVars => CommandInv'
  BY CommandsStep
<1>3. CommandInv => CodesTell
  BY DEF CommandInv
<1>. QED  BY <1>1, <1>2, <1>3, PTL DEF CommandsSpec

-----------------------------------------------------------------------------
(* The rate limiter keeps its window, for any requests, clocks, losses and *)
(* repetitions under LimiterAssumption.  A key outlives every request that *)
(* may still count on it, so its counter is at least the number of requests *)
(* let through; and it is at most the INCRs sent.                          *)

Keys == Identities \X Nat

KeyRow == [count : Nat \ {0}, expires : Nat \union {NoExpiry}]

Gone == {"counted", "passed", "limited", "unavailable"}

Arrival == [at : {"keyed"} \union Gone, key : Keys, since : Nat, sends : 1..MaxSends]

LimiterTypeOK ==
    /\ tick \in Nat
    /\ DOMAIN counters \subseteq Keys
    /\ counters \in [DOMAIN counters -> KeyRow]
    /\ arrivals \in [Arrivals -> Arrival \union {Unsent}]

\* The start of a window, on the clocks of the replicas.
Begins(key) == key[2] * Minute

\* A request that waits read its key from a clock within the window, not long ago;
\* no key is of a window that has yet to begin on every clock; and an expiry leaves a
\* key its lifetime from the start of its window.
ClocksKept ==
    /\ \A q \in Arrivals : arrivals[q].at = "keyed" =>
          /\ arrivals[q].since <= tick /\ tick <= arrivals[q].since + Patience
          /\ \E r \in Replicas :
                arrivals[q].since + Ahead[r] < Begins(arrivals[q].key) + Minute
    /\ \A q \in Arrivals : arrivals[q].at # "unsent" =>
          \E r \in Replicas : Begins(arrivals[q].key) <= tick + Ahead[r]
    /\ \A key \in DOMAIN counters : counters[key].expires # NoExpiry =>
          \E r \in Replicas : Begins(key) + KeyLifetime <= counters[key].expires + Ahead[r]

\* No request with the key waits, or can still come.
Over(key) == \A r \in Replicas : Begins(key) + Minute + Patience <= tick + Ahead[r]

\* The one request that is to EXPIRE a key finds it there, without an expiry.
FirstsAlone ==
    \A q \in Arrivals : arrivals[q].at = "counted" =>
        /\ arrivals[q].key \in DOMAIN counters
        /\ counters[arrivals[q].key].expires = NoExpiry
        /\ \A p \in Arrivals :
              arrivals[p].at = "counted" /\ arrivals[p].key = arrivals[q].key => p = q

\* The requests with a key that are let through, or will be unless they give up.
Through(key) == {q \in Arrivals : arrivals[q].key = key /\ arrivals[q].at \in {"counted", "passed"}}

\* A counter is never less than those, while anything can still count on it.
PassesCounted ==
    \A key \in Keys :
        /\ Cardinality(Through(key)) <= RateLimit
        /\ key \in DOMAIN counters => Cardinality(Through(key)) <= counters[key].count
        /\ key \notin DOMAIN counters => Through(key) = {} \/ Over(key)

Waiting(key) == {q \in Arrivals : arrivals[q].key = key /\ arrivals[q].at = "keyed"}

\* The INCRs sent for a key.
Increments(key) ==
    {s \in Arrivals \X (1..MaxSends) : arrivals[s[1]].key = key /\ s[2] <= arrivals[s[1]].sends}

\* A counter is never more than the INCRs sent, less those that are waited for.
SendsCounted ==
    \A key \in Keys :
        /\ Counter(key).count + Cardinality(Waiting(key)) <= Cardinality(Increments(key))
        /\ (\E q \in Arrivals : arrivals[q].key = key /\ arrivals[q].at = "limited")
               => Cardinality(Increments(key)) > RateLimit

LimiterInv == LimiterTypeOK /\ ClocksKept /\ FirstsAlone /\ PassesCounted /\ SendsCounted

-----------------------------------------------------------------------------
(* Clocks and windows *)

\* The key of a clock is the window the clock is in.
LEMMA WindowOfClock ==
    ASSUME NEW a \in Nat
    PROVE  /\ a \div Minute \in Nat
           /\ (a \div Minute) * Minute <= a
           /\ a < (a \div Minute) * Minute + Minute
  <1>1. Minute \in Nat \ {0}
    BY LimiterAssumption
  <1> QED
    BY <1>1

\* A window begins at a time.
LEMMA BeginsType == \A key \in Keys : Begins(key) \in Nat
  <1>1. \A n \in Nat : n * Minute \in Nat
    BY LimiterAssumption
  <1>2. \A key \in Keys : key[2] \in Nat
    BY DEF Keys
  <1> QED
    BY <1>1, <1>2 DEF Begins

\* A replica's clock is within the window of the key it gives.
LEMMA KeyOfClock ==
    ASSUME LimiterTypeOK, NEW i \in Identities, NEW r \in Replicas
    PROVE  /\ KeyAt(i, r) \in Keys
           /\ Begins(KeyAt(i, r)) <= tick + Ahead[r]
           /\ tick + Ahead[r] < Begins(KeyAt(i, r)) + Minute
  <1>1. tick + Ahead[r] \in Nat
    BY LimiterAssumption DEF LimiterTypeOK
  <1> DEFINE n == (tick + Ahead[r]) \div Minute
  <1>2. /\ n \in Nat /\ n * Minute <= tick + Ahead[r]
        /\ tick + Ahead[r] < n * Minute + Minute
    BY <1>1, WindowOfClock
  <1>3. KeyAt(i, r) = <<i, n>>
    BY DEF KeyAt
  <1> HIDE DEF n
  <1>4. KeyAt(i, r) \in Keys /\ Begins(KeyAt(i, r)) = n * Minute
    BY <1>2, <1>3 DEF Keys, Begins
  <1> QED
    BY <1>2, <1>4

\* A window that is over has no request left.
LEMMA OverHasNone ==
    ASSUME LimiterTypeOK, ClocksKept, NEW q \in Arrivals, arrivals[q].at = "keyed"
    PROVE  arrivals[q].key \in Keys /\ ~Over(arrivals[q].key)
  <1>1. arrivals[q].key \in Keys /\ arrivals[q].since \in Nat /\ tick \in Nat
    BY DEF LimiterTypeOK, Arrival, Unsent
  <1>2. Begins(arrivals[q].key) \in Nat
    BY <1>1, BeginsType
  <1>3. PICK r \in Replicas :
            arrivals[q].since + Ahead[r] < Begins(arrivals[q].key) + Minute
    BY DEF ClocksKept
  <1>4. tick <= arrivals[q].since + Patience
    BY DEF ClocksKept
  <1>5. Ahead[r] \in Nat /\ Minute \in Nat /\ Patience \in Nat
    BY LimiterAssumption
  <1>6. ~(Begins(arrivals[q].key) + Minute + Patience <= tick + Ahead[r])
    BY <1>1, <1>2, <1>3, <1>4, <1>5
  <1> QED
    BY <1>1, <1>6 DEF Over

\* A key that Redis drops is of a window that is over.
LEMMA DroppedIsOver ==
    ASSUME LimiterTypeOK, ClocksKept, NEW key \in DOMAIN counters,
           counters[key].expires # NoExpiry, counters[key].expires <= tick + 1,
           NEW r \in Replicas
    PROVE  Begins(key) + Minute + Patience <= tick + 1 + Ahead[r]
  <1>1. counters[key].expires \in Nat /\ tick \in Nat /\ key \in Keys
    BY DEF LimiterTypeOK, KeyRow
  <1>2. Begins(key) \in Nat
    BY <1>1, BeginsType
  <1>3. PICK s \in Replicas : Begins(key) + KeyLifetime <= counters[key].expires + Ahead[s]
    BY DEF ClocksKept
  <1>4. /\ Minute \in Nat /\ Patience \in Nat /\ KeyLifetime \in Nat
        /\ Ahead[r] \in Nat /\ Ahead[s] \in Nat
        /\ Minute + Ahead[s] + Patience < KeyLifetime + Ahead[r] + 1
    BY LimiterAssumption
  <1> QED
    BY <1>1, <1>2, <1>3, <1>4

-----------------------------------------------------------------------------
(* What the commands do to the counters *)

\* A key that Redis does not hold counts as nothing.
LEMMA CounterType ==
    ASSUME LimiterTypeOK, NEW key \in Keys
    PROVE  /\ Counter(key).count \in Nat
           /\ key \in DOMAIN counters => /\ Counter(key) = counters[key]
                                         /\ counters[key].count \in Nat \ {0}
                                         /\ counters[key].expires \in Nat \union {NoExpiry}
           /\ key \notin DOMAIN counters => Counter(key).count = 0 /\ Counter(key).expires = NoExpiry
  BY DEF LimiterTypeOK, KeyRow, Counter

\* INCR makes the key if need be and keeps its expiry.
LEMMA IncrEffect ==
    ASSUME LimiterTypeOK, NEW key \in Keys, Incr(key)
    PROVE  /\ DOMAIN counters' = DOMAIN counters \union {key}
           /\ counters' \in [DOMAIN counters' -> KeyRow]
           /\ counters'[key].count = Counter(key).count + 1
           /\ counters'[key].expires = Counter(key).expires
           /\ \A k \in DOMAIN counters \ {key} : counters'[k] = counters[k]
  <1> DEFINE new == [Counter(key) EXCEPT !.count = @ + 1]
  <1>1. /\ new.count = Counter(key).count + 1 /\ new.expires = Counter(key).expires
        /\ new \in KeyRow
    BY DEF Counter, LimiterTypeOK, KeyRow
  <1>2. counters' = [k \in DOMAIN counters \union {key} |-> IF k = key THEN new ELSE counters[k]]
    BY DEF Incr, SetCounter
  <1> HIDE DEF new
  <1> QED
    BY <1>1, <1>2 DEF LimiterTypeOK

\* INCR gives no key an expiry and takes none away.
LEMMA IncrExpiries ==
    ASSUME LimiterTypeOK, NEW key \in Keys, Incr(key)
    PROVE  /\ key \in DOMAIN counters'
           /\ key \notin DOMAIN counters => counters'[key].expires = NoExpiry
           /\ \A k \in DOMAIN counters :
                 k \in DOMAIN counters' /\ counters'[k].expires = counters[k].expires
           /\ \A k \in DOMAIN counters' : counters'[k].expires # NoExpiry =>
                 k \in DOMAIN counters /\ counters'[k].expires = counters[k].expires
  <1>1. /\ DOMAIN counters' = DOMAIN counters \union {key}
        /\ counters'[key].expires = Counter(key).expires
        /\ \A k \in DOMAIN counters \ {key} : counters'[k] = counters[k]
    BY IncrEffect
  <1>2. CASE key \in DOMAIN counters
    <2>1. counters'[key].expires = counters[key].expires
      BY <1>1, <1>2 DEF Counter
    <2> QED
      BY <1>1, <1>2, <2>1
  <1>3. CASE key \notin DOMAIN counters
    <2>1. counters'[key].expires = NoExpiry
      BY <1>1, <1>3 DEF Counter
    <2> QED
      BY <1>1, <1>3, <2>1
  <1> QED
    BY <1>2, <1>3

\* EXPIRE gives the key an expiry, from now.
LEMMA ExpiryEffect ==
    ASSUME LimiterTypeOK, NEW key \in DOMAIN counters, SetExpiry(key)
    PROVE  /\ DOMAIN counters' = DOMAIN counters
           /\ counters' \in [DOMAIN counters' -> KeyRow]
           /\ counters'[key].count = counters[key].count
           /\ counters'[key].expires = tick + KeyLifetime
           /\ \A k \in DOMAIN counters \ {key} : counters'[k] = counters[k]
  <1> DEFINE new == [counters[key] EXCEPT !.expires = tick + Lifetime]
  <1>1. counters[key] \in KeyRow /\ tick + KeyLifetime \in Nat
    BY LimiterAssumption DEF LimiterTypeOK
  <1>2. /\ new.count = counters[key].count /\ new.expires = tick + KeyLifetime
        /\ new \in KeyRow
    BY <1>1 DEF Lifetime, KeyRow
  <1>3. counters' = [k \in DOMAIN counters \union {key} |-> IF k = key THEN new ELSE counters[k]]
    BY DEF SetExpiry, SetCounter
  <1> HIDE DEF new
  <1> QED
    BY <1>2, <1>3 DEF LimiterTypeOK

-----------------------------------------------------------------------------
(* What the steps do to the requests *)

\* A request that was sent is a request.
LEMMA RequestType ==
    ASSUME LimiterTypeOK, NEW q \in Arrivals, arrivals[q].at # "unsent"
    PROVE  arrivals[q] \in Arrival
  BY DEF LimiterTypeOK, Unsent

\* Nothing was sent for a request that has not come.
LEMMA UnsentType ==
    ASSUME LimiterTypeOK, NEW q \in Arrivals, arrivals[q].at = "unsent"
    PROVE  arrivals[q].sends = 0 /\ arrivals[q].since = 0
  BY DEF LimiterTypeOK, Arrival, Gone, Unsent

\* A request leaves the limiter.
LEMMA LeaveEffect ==
    ASSUME LimiterTypeOK, NEW q \in Arrivals, arrivals[q].at # "unsent",
           NEW place \in Gone, Leave(q, place)
    PROVE  /\ arrivals' \in [Arrivals -> Arrival \union {Unsent}]
           /\ arrivals'[q] \in Arrival
           /\ arrivals'[q].at = place /\ arrivals'[q].key = arrivals[q].key
           /\ arrivals'[q].sends = arrivals[q].sends
           /\ \A p \in Arrivals \ {q} : arrivals'[p] = arrivals[p]
  <1> DEFINE new == [arrivals[q] EXCEPT !.at = place, !.since = 0]
  <1>1. arrivals[q] \in Arrival
    BY RequestType
  <1>2. /\ new \in Arrival /\ new.at = place /\ new.key = arrivals[q].key
        /\ new.sends = arrivals[q].sends
    BY <1>1 DEF Arrival, Gone
  <1>3. arrivals' = [arrivals EXCEPT ![q] = new]
    BY DEF Leave
  <1> HIDE DEF new
  <1> QED
    BY <1>2, <1>3 DEF LimiterTypeOK

\* The sets that are counted are finite.
LEMMA CountedSets ==
    ASSUME NEW key
    PROVE  /\ IsFiniteSet(Through(key)) /\ Cardinality(Through(key)) \in Nat
           /\ IsFiniteSet(Waiting(key)) /\ Cardinality(Waiting(key)) \in Nat
           /\ IsFiniteSet(Increments(key)) /\ Cardinality(Increments(key)) \in Nat
  <1>1. IsFiniteSet(Arrivals) /\ MaxSends \in Nat
    BY LimiterAssumption
  <1>2. IsFiniteSet(1..MaxSends)
    BY <1>1, FS_Interval
  <1>3. IsFiniteSet(Arrivals \X (1..MaxSends))
    BY <1>1, <1>2, FS_Product
  <1>4. /\ Through(key) \subseteq Arrivals /\ Waiting(key) \subseteq Arrivals
        /\ Increments(key) \subseteq Arrivals \X (1..MaxSends)
    BY DEF Through, Waiting, Increments
  <1> QED
    BY <1>1, <1>3, <1>4, FS_Subset, FS_CardinalityType

-----------------------------------------------------------------------------
(* Types, clocks and firsts are kept *)

\* Every step keeps the types.
LEMMA LimiterTypeStep == LimiterInv /\ [LimiterNext]_limiterVars => LimiterTypeOK'
  <1> SUFFICES ASSUME LimiterInv, [LimiterNext]_limiterVars PROVE LimiterTypeOK'
    OBVIOUS
  <1>0. LimiterTypeOK /\ FirstsAlone
    BY DEF LimiterInv
  <1>1. CASE Tick
    <2>1. tick' \in Nat
      BY <1>0, <1>1 DEF Tick, LimiterTypeOK
    <2>2. DOMAIN counters' \subseteq DOMAIN counters
          /\ \A key \in DOMAIN counters' : counters'[key] = counters[key]
      BY <1>1 DEF Tick
    <2>3. counters' = [key \in DOMAIN counters' |-> counters'[key]]
      BY <1>1 DEF Tick
    <2>4. counters' \in [DOMAIN counters' -> KeyRow]
      BY <1>0, <2>2, <2>3 DEF LimiterTypeOK
    <2> QED
      BY <1>0, <1>1, <2>1, <2>2, <2>4 DEF Tick, LimiterTypeOK
  <1>2. ASSUME NEW q \in Arrivals, NEW i \in Identities, NEW r \in Replicas, Arrive(q, i, r)
        PROVE  LimiterTypeOK'
    <2>1. KeyAt(i, r) \in Keys
      BY <1>0, KeyOfClock
    <2>2. [at |-> "keyed", key |-> KeyAt(i, r), since |-> tick, sends |-> 1] \in Arrival
      BY <1>0, <2>1, LimiterAssumption DEF LimiterTypeOK, Arrival
    <2> QED
      BY <1>0, <1>2, <2>2 DEF Arrive, LimiterTypeOK
  <1>3. ASSUME NEW q \in Arrivals, arrivals[q].at # "unsent", NEW place \in Gone,
               Leave(q, place), UNCHANGED tick,
               \/ UNCHANGED counters
               \/ Incr(arrivals[q].key)
               \/ arrivals[q].key \in DOMAIN counters /\ SetExpiry(arrivals[q].key)
        PROVE  LimiterTypeOK'
    <2>1. arrivals[q].key \in Keys
      BY <1>0, <1>3, RequestType DEF Arrival
    <2>2. DOMAIN counters' \subseteq Keys /\ counters' \in [DOMAIN counters' -> KeyRow]
      <3>1. CASE UNCHANGED counters
        BY <1>0, <3>1 DEF LimiterTypeOK
      <3>2. CASE Incr(arrivals[q].key)
        BY <1>0, <2>1, <3>2, IncrEffect DEF LimiterTypeOK
      <3>3. CASE arrivals[q].key \in DOMAIN counters /\ SetExpiry(arrivals[q].key)
        BY <1>0, <3>3, ExpiryEffect DEF LimiterTypeOK
      <3> QED
        BY <1>3, <3>1, <3>2, <3>3
    <2>3. arrivals' \in [Arrivals -> Arrival \union {Unsent}]
      BY <1>0, <1>3, LeaveEffect
    <2> QED
      BY <1>0, <1>3, <2>2, <2>3 DEF LimiterTypeOK
  <1>4. ASSUME NEW q \in Arrivals, SendAgain(q)
        PROVE  LimiterTypeOK'
    <2>1. arrivals[q] \in Arrival /\ arrivals[q].sends < MaxSends
      BY <1>0, <1>4, RequestType DEF SendAgain
    <2>2. DOMAIN counters' \subseteq Keys /\ counters' \in [DOMAIN counters' -> KeyRow]
      BY <1>0, <1>4, <2>1, IncrEffect DEF SendAgain, LimiterTypeOK, Arrival
    <2>3. [arrivals[q] EXCEPT !.sends = @ + 1] \in Arrival
      BY <2>1, LimiterAssumption DEF Arrival
    <2> QED
      BY <1>0, <1>4, <2>2, <2>3 DEF SendAgain, LimiterTypeOK
  <1>5. ASSUME NEW q \in Arrivals, Count(q) \/ Expire(q) \/ GiveUp(q)
        PROVE  LimiterTypeOK'
    <2>1. arrivals[q].at \in {"keyed", "counted"}
      BY <1>5 DEF Count, Expire, GiveUp
    <2>2. arrivals[q].at = "counted" => arrivals[q].key \in DOMAIN counters
      BY <1>0 DEF FirstsAlone
    <2>3. \E place \in Gone : Leave(q, place)
      BY <1>5 DEF Count, Expire, GiveUp, Response, Gone
    <2> QED
      BY <1>3, <1>5, <2>1, <2>2, <2>3 DEF Count, Expire, GiveUp
  <1>6. CASE UNCHANGED limiterVars
    BY <1>0, <1>6 DEF limiterVars, LimiterTypeOK
  <1> QED
    BY <1>1, <1>2, <1>4, <1>5, <1>6 DEF LimiterNext

\* The steps, by what they do to the requests and the counters.
Arrived(q, key) ==
    /\ arrivals[q].at = "unsent" /\ key \in Keys
    /\ \E r \in Replicas : /\ Begins(key) <= tick + Ahead[r]
                           /\ tick + Ahead[r] < Begins(key) + Minute
    /\ arrivals'[q].at = "keyed" /\ arrivals'[q].key = key
    /\ arrivals'[q].since = tick /\ arrivals'[q].sends = 1
    /\ counters' = counters

Resent(q) ==
    /\ arrivals[q].at = "keyed" /\ Incr(arrivals[q].key)
    /\ arrivals'[q].at = "keyed" /\ arrivals'[q].key = arrivals[q].key
    /\ arrivals'[q].since = arrivals[q].since
    /\ arrivals'[q].sends = arrivals[q].sends + 1

\* A request leaves: its INCR answered, its EXPIRE answered, or it gives up.
Departed(q) ==
    /\ arrivals'[q].key = arrivals[q].key /\ arrivals'[q].sends = arrivals[q].sends
    /\ \/ /\ arrivals[q].at = "keyed" /\ Incr(arrivals[q].key)
          /\ LET n == Counter(arrivals[q].key).count + 1
             IN  arrivals'[q].at = IF n = 1 THEN "counted" ELSE Response(n)
       \/ /\ arrivals[q].at = "keyed" /\ (counters' = counters \/ Incr(arrivals[q].key))
          /\ arrivals'[q].at = "unavailable"
       \/ /\ arrivals[q].at = "counted" /\ (counters' = counters \/ SetExpiry(arrivals[q].key))
          /\ arrivals'[q].at \in {"passed", "unavailable"}

OthersStay(q) == tick' = tick /\ \A p \in Arrivals \ {q} : arrivals'[p] = arrivals[p]

\* Every step is one of these, of one request, or time passes.
LEMMA LimiterSteps ==
    ASSUME LimiterTypeOK, [LimiterNext]_limiterVars
    PROVE  \/ Tick
           \/ UNCHANGED limiterVars
           \/ \E q \in Arrivals :
                 /\ OthersStay(q)
                 /\ (\E key \in Keys : Arrived(q, key)) \/ Resent(q) \/ Departed(q)
  <1>1. ASSUME NEW q \in Arrivals, NEW i \in Identities, NEW r \in Replicas, Arrive(q, i, r)
        PROVE  OthersStay(q) /\ \E key \in Keys : Arrived(q, key)
    <2> DEFINE key == KeyAt(i, r)
    <2>1. /\ key \in Keys /\ Begins(key) <= tick + Ahead[r]
          /\ tick + Ahead[r] < Begins(key) + Minute
      BY KeyOfClock
    <2>2. arrivals'[q] = [at |-> "keyed", key |-> key, since |-> tick, sends |-> 1]
          /\ \A p \in Arrivals \ {q} : arrivals'[p] = arrivals[p]
      BY <1>1 DEF Arrive, LimiterTypeOK
    <2>3. arrivals[q].at = "unsent" /\ tick' = tick /\ counters' = counters
      BY <1>1 DEF Arrive
    <2> HIDE DEF key
    <2> QED
      BY <2>1, <2>2, <2>3 DEF Arrived, OthersStay
  <1>2. ASSUME NEW q \in Arrivals, SendAgain(q)
        PROVE  OthersStay(q) /\ Resent(q)
    <2> DEFINE new == [arrivals[q] EXCEPT !.sends = @ + 1]
    <2>1. arrivals[q] \in Arrival
      BY <1>2, RequestType DEF SendAgain
    <2>2. /\ new.at = arrivals[q].at /\ new.key = arrivals[q].key
          /\ new.since = arrivals[q].since /\ new.sends = arrivals[q].sends + 1
      BY <2>1 DEF Arrival
    <2>3. arrivals'[q] = new /\ \A p \in Arrivals \ {q} : arrivals'[p] = arrivals[p]
      BY <1>2 DEF SendAgain, LimiterTypeOK
    <2>4. arrivals[q].at = "keyed" /\ tick' = tick /\ Incr(arrivals[q].key)
      BY <1>2 DEF SendAgain
    <2> HIDE DEF new
    <2> QED
      BY <2>2, <2>3, <2>4 DEF Resent, OthersStay
  <1>3. ASSUME NEW q \in Arrivals, Count(q) \/ Expire(q) \/ GiveUp(q)
        PROVE  OthersStay(q) /\ Departed(q)
    <2>1. arrivals[q].at \in {"keyed", "counted"} /\ tick' = tick
      BY <1>3 DEF Count, Expire, GiveUp
    <2>2. ASSUME NEW place \in Gone, Leave(q, place)
          PROVE  /\ OthersStay(q)
                 /\ arrivals'[q].at = place /\ arrivals'[q].key = arrivals[q].key
                 /\ arrivals'[q].sends = arrivals[q].sends
      BY <2>1, <2>2, LeaveEffect DEF OthersStay
    <2>3. CASE Count(q)
      <3> DEFINE n == Counter(arrivals[q].key).count + 1
                 place == IF n = 1 THEN "counted" ELSE Response(n)
      <3>1. place \in Gone
        BY DEF Response, Gone
      <3>2. Leave(q, place) /\ arrivals[q].at = "keyed" /\ Incr(arrivals[q].key)
        BY <2>3 DEF Count
      <3> QED
        BY <2>2, <3>1, <3>2 DEF Departed
    <2>4. CASE Expire(q)
      <3>1. Leave(q, "passed")
        BY <2>4, LimiterAssumption DEF Expire, Response, Within
      <3> QED
        BY <2>2, <2>4, <3>1 DEF Departed, Expire, Gone
    <2>5. CASE GiveUp(q)
      BY <2>2, <2>5 DEF Departed, GiveUp, Gone
    <2> QED
      BY <1>3, <2>3, <2>4, <2>5
  <1> QED
    BY <1>1, <1>2, <1>3 DEF LimiterNext

\* Time goes on within the clocks.
LEMMA ClocksStep ==
    ASSUME LimiterInv, LimiterTypeOK', [LimiterNext]_limiterVars
    PROVE  ClocksKept'
  <1>0. LimiterTypeOK /\ ClocksKept /\ FirstsAlone
    BY DEF LimiterInv
  <1>1. CASE Tick
    <2>1. tick' = tick + 1 /\ arrivals' = arrivals
      BY <1>1 DEF Tick
    <2>2. \A q \in Arrivals : arrivals[q].at = "keyed" => tick < arrivals[q].since + Patience
      BY <1>1 DEF Tick
    <2>3. \A key \in DOMAIN counters' : key \in DOMAIN counters /\ counters'[key] = counters[key]
      BY <1>1 DEF Tick
    <2>4. \A q \in Arrivals : arrivals'[q].at = "keyed" =>
             /\ arrivals'[q].since <= tick' /\ tick' <= arrivals'[q].since + Patience
             /\ \E r \in Replicas :
                   arrivals'[q].since + Ahead[r] < Begins(arrivals'[q].key) + Minute
      <3> SUFFICES ASSUME NEW q \in Arrivals, arrivals[q].at = "keyed"
                   PROVE  /\ arrivals[q].since <= tick + 1
                          /\ tick + 1 <= arrivals[q].since + Patience
        BY <1>0, <2>1 DEF ClocksKept
      <3>1. arrivals[q].since \in Nat /\ tick \in Nat /\ Patience \in Nat
        BY <1>0, RequestType, LimiterAssumption DEF Arrival, LimiterTypeOK
      <3>2. arrivals[q].since <= tick
        BY <1>0 DEF ClocksKept
      <3> QED
        BY <2>2, <3>1, <3>2
    <2>5. \A q \in Arrivals : arrivals'[q].at # "unsent" =>
             \E r \in Replicas : Begins(arrivals'[q].key) <= tick' + Ahead[r]
      <3> SUFFICES ASSUME NEW q \in Arrivals, arrivals[q].at # "unsent"
                   PROVE  \E r \in Replicas : Begins(arrivals[q].key) <= tick + 1 + Ahead[r]
        BY <2>1
      <3>1. PICK r \in Replicas : Begins(arrivals[q].key) <= tick + Ahead[r]
        BY <1>0 DEF ClocksKept
      <3>2. Begins(arrivals[q].key) \in Nat /\ tick \in Nat /\ Ahead[r] \in Nat
        BY <1>0, RequestType, BeginsType, LimiterAssumption DEF Arrival, LimiterTypeOK
      <3> QED
        BY <3>1, <3>2
    <2> QED
      BY <1>0, <2>3, <2>4, <2>5 DEF ClocksKept, Begins
  <1>2. CASE UNCHANGED limiterVars
    BY <1>0, <1>2 DEF ClocksKept, limiterVars, Begins
  <1>3. ASSUME NEW q \in Arrivals, OthersStay(q), NEW key \in Keys, Arrived(q, key)
        PROVE  ClocksKept'
    <2>1. tick \in Nat /\ tick + Patience \in Nat /\ tick <= tick /\ tick <= tick + Patience
      BY <1>0, LimiterAssumption DEF LimiterTypeOK
    <2> QED
      BY <1>0, <1>3, <2>1 DEF Arrived, OthersStay, ClocksKept, Begins
  <1>4. ASSUME NEW q \in Arrivals, OthersStay(q), Resent(q)
        PROVE  ClocksKept'
    <2>1. arrivals[q].key \in Keys
      BY <1>0, <1>4, RequestType DEF Resent, Arrival
    <2>2. \A key \in DOMAIN counters' : counters'[key].expires # NoExpiry =>
             key \in DOMAIN counters /\ counters'[key].expires = counters[key].expires
      BY <1>0, <1>4, <2>1, IncrExpiries DEF Resent
    <2> QED
      BY <1>0, <1>4, <2>2 DEF Resent, OthersStay, ClocksKept, Begins
  <1>5. ASSUME NEW q \in Arrivals, OthersStay(q), Departed(q)
        PROVE  ClocksKept'
    <2>1. /\ arrivals[q].at \in {"keyed", "counted"} /\ arrivals[q].key \in Keys
          /\ arrivals'[q].at \in Gone /\ arrivals'[q].key = arrivals[q].key
      BY <1>0, <1>5, RequestType DEF Departed, Arrival, Response, Gone
    <2>2. \A key \in DOMAIN counters' : counters'[key].expires # NoExpiry =>
             \E r \in Replicas : Begins(key) + KeyLifetime <= counters'[key].expires + Ahead[r]
      <3>1. CASE counters' = counters
        BY <1>0, <3>1 DEF ClocksKept
      <3>2. CASE Incr(arrivals[q].key)
        <4>1. \A key \in DOMAIN counters' : counters'[key].expires # NoExpiry =>
                 key \in DOMAIN counters /\ counters'[key].expires = counters[key].expires
          BY <1>0, <2>1, <3>2, IncrExpiries
        <4> QED
          BY <1>0, <4>1 DEF ClocksKept
      <3>3. CASE arrivals[q].at = "counted" /\ SetExpiry(arrivals[q].key)
        <4>1. arrivals[q].key \in DOMAIN counters
          BY <1>0, <3>3 DEF FirstsAlone
        <4>2. PICK r \in Replicas : Begins(arrivals[q].key) <= tick + Ahead[r]
          BY <1>0, <2>1 DEF ClocksKept
        <4>3. /\ Begins(arrivals[q].key) \in Nat /\ tick \in Nat
              /\ Ahead[r] \in Nat /\ KeyLifetime \in Nat
          BY <1>0, <2>1, BeginsType, LimiterAssumption DEF LimiterTypeOK
        <4>4. Begins(arrivals[q].key) + KeyLifetime <= tick + KeyLifetime + Ahead[r]
          BY <4>2, <4>3
        <4> QED
          BY <1>0, <3>3, <4>1, <4>4, ExpiryEffect DEF ClocksKept
      <3> QED
        BY <1>5, <3>1, <3>2, <3>3 DEF Departed
    <2>3. \A p \in Arrivals : arrivals'[p].at = "keyed" => p # q
      BY <2>1 DEF Gone
    <2> QED
      BY <1>0, <1>5, <2>1, <2>2, <2>3 DEF OthersStay, ClocksKept, Begins
  <1> QED
    BY <1>0, <1>1, <1>2, <1>3, <1>4, <1>5, LimiterSteps

\* The request that makes a key stays the only one to EXPIRE it.
LEMMA FirstsStep ==
    ASSUME LimiterInv, [LimiterNext]_limiterVars
    PROVE  FirstsAlone'
  <1>0. LimiterTypeOK /\ FirstsAlone
    BY DEF LimiterInv
  <1>1. CASE Tick
    <2>1. arrivals' = arrivals
      BY <1>1 DEF Tick
    <2>2. \A key \in DOMAIN counters : counters[key].expires = NoExpiry =>
             key \in DOMAIN counters' /\ counters'[key] = counters[key]
      BY <1>1 DEF Tick
    <2> QED
      BY <1>0, <2>1, <2>2 DEF FirstsAlone
  <1>2. CASE UNCHANGED limiterVars
    BY <1>0, <1>2 DEF FirstsAlone, limiterVars
  <1>3. ASSUME NEW q \in Arrivals, OthersStay(q), NEW key \in Keys, Arrived(q, key)
        PROVE  FirstsAlone'
    BY <1>0, <1>3 DEF Arrived, OthersStay, FirstsAlone
  <1>4. ASSUME NEW q \in Arrivals, OthersStay(q), Resent(q)
        PROVE  FirstsAlone'
    <2>1. arrivals[q].key \in Keys
      BY <1>0, <1>4, RequestType DEF Resent, Arrival
    <2>2. \A key \in DOMAIN counters :
             key \in DOMAIN counters' /\ counters'[key].expires = counters[key].expires
      BY <1>0, <1>4, <2>1, IncrExpiries DEF Resent
    <2> QED
      BY <1>0, <1>4, <2>2 DEF Resent, OthersStay, FirstsAlone
  <1>5. ASSUME NEW q \in Arrivals, OthersStay(q), Departed(q)
        PROVE  FirstsAlone'
    <2> DEFINE own == arrivals[q].key
    <2>1. arrivals[q].at \in {"keyed", "counted"} /\ own \in Keys
      BY <1>0, <1>5, RequestType DEF Departed, Arrival
    <2>2. CASE counters' = counters \/ Incr(own)
      <3>1. \A key \in DOMAIN counters :
               key \in DOMAIN counters' /\ counters'[key].expires = counters[key].expires
        BY <1>0, <2>1, <2>2, IncrExpiries
      <3>2. CASE arrivals'[q].at # "counted"
        BY <1>0, <1>5, <3>1, <3>2 DEF Departed, OthersStay, FirstsAlone
      <3>3. CASE arrivals'[q].at = "counted"
        <4>1. Incr(own) /\ Counter(own).count + 1 = 1
          BY <1>5, <3>3 DEF Departed, Response
        <4>2. own \notin DOMAIN counters
          BY <1>0, <2>1, <4>1, CounterType
        <4>3. own \in DOMAIN counters' /\ counters'[own].expires = NoExpiry
          BY <1>0, <2>1, <4>1, <4>2, IncrExpiries
        <4>4. \A p \in Arrivals : arrivals[p].at = "counted" => arrivals[p].key # own
          BY <1>0, <4>2 DEF FirstsAlone
        <4>5. arrivals'[q].key = own
          BY <1>5 DEF Departed
        <4> HIDE DEF own
        <4> QED
          BY <1>0, <1>5, <3>1, <4>3, <4>4, <4>5 DEF OthersStay, FirstsAlone
      <3> QED
        BY <3>2, <3>3
    <2>3. CASE arrivals[q].at = "counted" /\ SetExpiry(own)
      <3>1. /\ own \in DOMAIN counters
            /\ \A p \in Arrivals \ {q} : arrivals[p].at = "counted" => arrivals[p].key # own
        BY <1>0, <2>3 DEF FirstsAlone
      <3>2. \A key \in DOMAIN counters \ {own} :
               key \in DOMAIN counters' /\ counters'[key] = counters[key]
        BY <1>0, <2>3, <3>1, ExpiryEffect
      <3>3. arrivals'[q].at # "counted"
        BY <1>5, <2>3 DEF Departed
      <3> HIDE DEF own
      <3> QED
        BY <1>0, <1>5, <3>1, <3>2, <3>3 DEF OthersStay, FirstsAlone
    <2> QED
      BY <1>5, <2>2, <2>3 DEF Departed
  <1> QED
    BY <1>0, <1>1, <1>2, <1>3, <1>4, <1>5, LimiterSteps

-----------------------------------------------------------------------------
(* The requests let through are counted *)

\* A step that lets nobody else through, and lowers no counter.
LEMMA PassesFewer ==
    ASSUME LimiterTypeOK, LimiterTypeOK', PassesCounted, tick' = tick,
           \A key \in Keys : Through(key)' \subseteq Through(key),
           \A key \in DOMAIN counters :
              key \in DOMAIN counters' /\ counters[key].count <= counters'[key].count,
           \A key \in DOMAIN counters' \ DOMAIN counters : Through(key) = {}
    PROVE  PassesCounted'
  <1> SUFFICES ASSUME NEW key \in Keys
               PROVE  /\ Cardinality(Through(key)') <= RateLimit
                      /\ key \in DOMAIN counters' =>
                            Cardinality(Through(key)') <= counters'[key].count
                      /\ key \notin DOMAIN counters' =>
                            Through(key)' = {} \/ Over(key)'
    BY DEF PassesCounted
  <1> DEFINE before == Cardinality(Through(key))
             after == Cardinality(Through(key)')
  <1>1. /\ after <= before /\ after \in Nat /\ before \in Nat
    <2>1. IsFiniteSet(Through(key)) /\ Through(key)' \in SUBSET Through(key)
      BY CountedSets
    <2> QED
      BY <2>1, FS_Subset, FS_CardinalityType
  <1>2. RateLimit \in Nat /\ before <= RateLimit
    BY LimiterAssumption DEF PassesCounted
  <1>3. key \in DOMAIN counters' => after <= counters'[key].count
    <2>1. CASE key \in DOMAIN counters
      <3>1. before <= counters[key].count
        BY <2>1 DEF PassesCounted
      <3>2. counters[key].count \in Nat /\ counters'[key].count \in Nat
            /\ counters[key].count <= counters'[key].count
        BY <2>1 DEF LimiterTypeOK, KeyRow
      <3> HIDE DEF before, after
      <3> QED
        BY <1>1, <3>1, <3>2
    <2>2. CASE key \in DOMAIN counters' \ DOMAIN counters
      <3>1. Through(key)' = {}
        BY <2>2
      <3>2. after = 0
        BY <3>1, FS_EmptySet
      <3>3. counters'[key].count \in Nat
        BY <2>2 DEF LimiterTypeOK, KeyRow
      <3> QED
        BY <3>2, <3>3
    <2> QED
      BY <2>1, <2>2
  <1>4. key \notin DOMAIN counters' => Through(key)' = {} \/ Over(key)'
    <2> SUFFICES ASSUME key \notin DOMAIN counters' PROVE Through(key)' = {} \/ Over(key)'
      OBVIOUS
    <2>1. Through(key) = {} \/ Over(key)
      BY DEF PassesCounted
    <2>2. Over(key) => Over(key)'
      BY DEF Over, Begins
    <2> QED
      BY <2>1, <2>2
  <1> HIDE DEF before, after
  <1>5. after <= RateLimit
    BY <1>1, <1>2
  <1> QED
    BY <1>3, <1>4, <1>5 DEF after

\* A key that is not there, but may still be counted on, has let nobody through.
LEMMA NoneThrough ==
    ASSUME LimiterTypeOK, ClocksKept, PassesCounted,
           NEW q \in Arrivals, arrivals[q].at = "keyed",
           arrivals[q].key \notin DOMAIN counters
    PROVE  Through(arrivals[q].key) = {}
  BY OverHasNone DEF PassesCounted

\* INCR lowers no counter.
LEMMA IncrRaises ==
    ASSUME LimiterTypeOK, NEW key \in Keys, Incr(key)
    PROVE  /\ DOMAIN counters' = DOMAIN counters \union {key}
           /\ counters'[key].count = Counter(key).count + 1
           /\ \A k \in DOMAIN counters :
                 k \in DOMAIN counters' /\ counters[k].count <= counters'[k].count
  <1>1. /\ DOMAIN counters' = DOMAIN counters \union {key}
        /\ counters'[key].count = Counter(key).count + 1
        /\ \A k \in DOMAIN counters \ {key} : counters'[k] = counters[k]
    BY IncrEffect
  <1>2. \A k \in DOMAIN counters : counters[k].count \in Nat
    BY DEF LimiterTypeOK, KeyRow
  <1>3. key \in DOMAIN counters => counters'[key].count = counters[key].count + 1
    BY <1>1 DEF Counter
  <1> QED
    BY <1>1, <1>2, <1>3

\* No more than the limit pass, and a counter tells of all that did.
LEMMA PassesStep ==
    ASSUME LimiterInv, LimiterTypeOK', [LimiterNext]_limiterVars
    PROVE  PassesCounted'
  <1>0. LimiterTypeOK /\ ClocksKept /\ FirstsAlone /\ PassesCounted
    BY DEF LimiterInv
  <1>1. CASE Tick
    <2>1. tick' = tick + 1 /\ arrivals' = arrivals
      BY <1>1 DEF Tick
    <2>2. \A key : Through(key)' = Through(key)
      BY <2>1 DEF Through
    <2>3. \A key \in DOMAIN counters' : key \in DOMAIN counters /\ counters'[key] = counters[key]
      BY <1>1 DEF Tick
    <2>4. ASSUME NEW key \in DOMAIN counters, key \notin DOMAIN counters'
          PROVE  Over(key)'
      <3>1. counters[key].expires \in Nat \union {NoExpiry} /\ tick \in Nat
        BY <1>0 DEF LimiterTypeOK, KeyRow
      <3>2. counters[key].expires # NoExpiry /\ ~(counters[key].expires > tick + 1)
        BY <1>1, <2>1, <2>4 DEF Tick
      <3>3. counters[key].expires <= tick + 1
        BY <3>1, <3>2
      <3>4. \A r \in Replicas : Begins(key) + Minute + Patience <= tick + 1 + Ahead[r]
        BY <1>0, <3>2, <3>3, DroppedIsOver
      <3> QED
        BY <2>1, <3>4 DEF Over, Begins
    <2>5. ASSUME NEW key \in Keys, Over(key)
          PROVE  Over(key)'
      <3> SUFFICES ASSUME NEW r \in Replicas
                   PROVE  Begins(key) + Minute + Patience <= tick + 1 + Ahead[r]
        BY <2>1 DEF Over, Begins
      <3>1. Begins(key) + Minute + Patience <= tick + Ahead[r]
        BY <2>5 DEF Over
      <3>2. /\ Begins(key) \in Nat /\ Minute \in Nat /\ Patience \in Nat
            /\ tick \in Nat /\ Ahead[r] \in Nat
        BY <1>0, BeginsType, LimiterAssumption DEF LimiterTypeOK
      <3> QED
        BY <3>1, <3>2
    <2> QED
      BY <1>0, <2>2, <2>3, <2>4, <2>5 DEF PassesCounted
  <1>2. CASE UNCHANGED limiterVars
    BY <1>0, <1>2 DEF PassesCounted, Through, Over, Begins, limiterVars
  <1>3. ASSUME NEW q \in Arrivals, OthersStay(q), NEW key \in Keys, Arrived(q, key)
        PROVE  PassesCounted'
    <2>1. \A k : Through(k)' = Through(k)
      BY <1>3 DEF Arrived, OthersStay, Through
    <2>2. counters' = counters /\ tick' = tick
      BY <1>3 DEF Arrived, OthersStay
    <2> QED
      BY <1>0, <2>1, <2>2 DEF PassesCounted, Over, Begins
  <1>4. ASSUME NEW q \in Arrivals, OthersStay(q), arrivals[q].at = "keyed",
               arrivals'[q].at \in {"keyed", "unavailable"},
               counters' = counters \/ Incr(arrivals[q].key)
        PROVE  PassesCounted'
    <2>1. \A k : Through(k)' = Through(k)
      BY <1>4 DEF OthersStay, Through
    <2>2. tick' = tick
      BY <1>4 DEF OthersStay
    <2>3. CASE counters' = counters
      BY <1>0, <2>1, <2>2, <2>3 DEF PassesCounted, Over, Begins
    <2>4. CASE Incr(arrivals[q].key)
      <3>1. arrivals[q].key \in Keys
        BY <1>0, <1>4, OverHasNone
      <3>2. /\ DOMAIN counters' = DOMAIN counters \union {arrivals[q].key}
            /\ \A k \in DOMAIN counters :
                  k \in DOMAIN counters' /\ counters[k].count <= counters'[k].count
        BY <1>0, <2>4, <3>1, IncrRaises
      <3>3. \A k \in DOMAIN counters' \ DOMAIN counters : Through(k) = {}
        BY <1>0, <1>4, <3>2, NoneThrough
      <3> QED
        BY <1>0, <2>1, <2>2, <3>2, <3>3, PassesFewer
    <2> QED
      BY <1>4, <2>3, <2>4
  <1>5. ASSUME NEW q \in Arrivals, OthersStay(q), arrivals[q].at = "counted",
               arrivals'[q].key = arrivals[q].key,
               counters' = counters \/ SetExpiry(arrivals[q].key)
        PROVE  PassesCounted'
    <2>1. \A k : Through(k)' \subseteq Through(k)
      BY <1>5 DEF OthersStay, Through
    <2>2. tick' = tick
      BY <1>5 DEF OthersStay
    <2>3. arrivals[q].key \in DOMAIN counters
      BY <1>0, <1>5 DEF FirstsAlone
    <2>4. DOMAIN counters' = DOMAIN counters
          /\ \A k \in DOMAIN counters : counters'[k].count = counters[k].count
      BY <1>0, <1>5, <2>3, ExpiryEffect
    <2>5. \A k \in DOMAIN counters : counters[k].count <= counters'[k].count
      BY <1>0, <2>4 DEF LimiterTypeOK, KeyRow
    <2> QED
      BY <1>0, <2>1, <2>2, <2>4, <2>5, PassesFewer
  <1>6. ASSUME NEW q \in Arrivals, OthersStay(q), arrivals[q].at = "keyed",
               Incr(arrivals[q].key), arrivals'[q].key = arrivals[q].key,
               LET n == Counter(arrivals[q].key).count + 1
               IN  arrivals'[q].at = IF n = 1 THEN "counted" ELSE Response(n)
        PROVE  PassesCounted'
    <2>1. PICK own \in Keys : own = arrivals[q].key
      BY <1>0, <1>6, OverHasNone
    <2> DEFINE n == Counter(own).count + 1
               was == Cardinality(Through(own))
               is == Cardinality(Through(own)')
    <2>2. /\ DOMAIN counters' = DOMAIN counters \union {own}
          /\ counters'[own].count = n /\ Counter(own).count \in Nat
          /\ \A k \in DOMAIN counters \ {own} : counters'[k] = counters[k]
      BY <1>0, <1>6, <2>1, IncrEffect, CounterType
    <2>3. \A k : k # own => Through(k)' = Through(k)
      BY <1>6, <2>1 DEF OthersStay, Through
    <2>4. q \notin Through(own)
      BY <1>6 DEF Through
    <2>5. Through(own)' = IF arrivals'[q].at \in {"counted", "passed"}
                          THEN Through(own) \union {q} ELSE Through(own)
      BY <1>6, <2>1, <2>4 DEF OthersStay, Through
    <2>6. /\ was \in Nat
          /\ is = IF arrivals'[q].at \in {"counted", "passed"} THEN was + 1 ELSE was
      <3>1. IsFiniteSet(Through(own)) /\ was \in Nat
        BY CountedSets
      <3>2. Cardinality(Through(own) \union {q}) = was + 1
        BY <2>4, <3>1, FS_AddElement
      <3> QED
        BY <2>5, <3>1, <3>2
    <2>7. RateLimit \in Nat \ {0} /\ was <= RateLimit
      BY <1>0, <2>1, LimiterAssumption DEF PassesCounted
    <2>8. was <= Counter(own).count
      <3>1. CASE own \in DOMAIN counters
        BY <1>0, <2>1, <3>1 DEF PassesCounted, Counter
      <3>2. CASE own \notin DOMAIN counters
        <4>1. Through(own) = {} /\ Counter(own).count = 0
          BY <1>0, <1>6, <2>1, <3>2, NoneThrough, CounterType
        <4> QED
          BY <4>1, FS_EmptySet
      <3> QED
        BY <3>1, <3>2
    <2>9. arrivals'[q].at = IF n = 1 THEN "counted" ELSE IF n <= RateLimit THEN "passed" ELSE "limited"
      BY <1>6, <2>1 DEF Response, Within
    <2> HIDE DEF was, is
    <2>10. is <= RateLimit /\ is <= n
      BY <2>2, <2>6, <2>7, <2>8, <2>9
    <2>11. \A k : k # own => Over(k)' = Over(k)
      BY <1>6 DEF OthersStay, Over, Begins
    <2> SUFFICES ASSUME NEW k \in Keys
                 PROVE  /\ Cardinality(Through(k)') <= RateLimit
                        /\ k \in DOMAIN counters' =>
                              Cardinality(Through(k)') <= counters'[k].count
                        /\ k \notin DOMAIN counters' => Through(k)' = {} \/ Over(k)'
      BY DEF PassesCounted
    <2>12. CASE k = own
      BY <2>2, <2>10, <2>12 DEF is
    <2>13. CASE k # own
      <3>1. Through(k)' = Through(k) /\ Over(k)' = Over(k)
        BY <2>3, <2>11, <2>13
      <3>2. k \in DOMAIN counters' <=> k \in DOMAIN counters
        BY <2>2, <2>13
      <3>3. k \in DOMAIN counters => counters'[k] = counters[k]
        BY <2>2, <2>13
      <3> QED
        BY <1>0, <3>1, <3>2, <3>3 DEF PassesCounted
    <2> QED
      BY <2>12, <2>13
  <1> QED
    BY <1>0, <1>1, <1>2, <1>3, <1>4, <1>5, <1>6, LimiterSteps DEF Resent, Departed
-----------------------------------------------------------------------------
(* The INCRs sent are enough for the counter *)

\* A step of one request leaves what is waited for and sent for other keys.
LEMMA OtherKeysStay ==
    ASSUME LimiterTypeOK, NEW q \in Arrivals, OthersStay(q), NEW own \in Keys,
           arrivals'[q].key = own, arrivals[q].key = own \/ arrivals[q].at = "unsent",
           NEW key \in Keys, key # own
    PROVE  /\ Waiting(key)' = Waiting(key)
           /\ Increments(key)' = Increments(key)
           /\ \A p \in Arrivals : arrivals'[p].key = key /\ arrivals'[p].at = "limited" =>
                 arrivals[p].key = key /\ arrivals[p].at = "limited"
  <1>1. arrivals[q].at = "unsent" => arrivals[q].sends = 0
    BY UnsentType
  <1>2. Waiting(key)' = Waiting(key)
    BY DEF OthersStay, Waiting
  <1>3. \A s \in Arrivals \X (1..MaxSends) : s \in Increments(key)' <=> s \in Increments(key)
    <2> SUFFICES ASSUME NEW p \in Arrivals, NEW n \in 1..MaxSends
                 PROVE  (arrivals'[p].key = key /\ n <= arrivals'[p].sends)
                           <=> (arrivals[p].key = key /\ n <= arrivals[p].sends)
      BY DEF Increments
    <2>1. CASE p # q
      BY <2>1 DEF OthersStay
    <2>2. CASE p = q
      <3>1. n >= 1 /\ n \in Int
        BY LimiterAssumption
      <3>2. arrivals[q].at = "unsent" => ~(n <= arrivals[q].sends)
        BY <1>1, <3>1
      <3> QED
        BY <2>2, <3>2
    <2> QED
      BY <2>1, <2>2
  <1>4. Increments(key)' = Increments(key)
    BY <1>3 DEF Increments
  <1> QED
    BY <1>2, <1>4 DEF OthersStay

\* A step leaves the counter of another key.
LEMMA OtherCountersStay ==
    ASSUME LimiterTypeOK, NEW own \in Keys, NEW key \in Keys, key # own,
           \/ counters' = counters
           \/ Incr(own)
           \/ own \in DOMAIN counters /\ SetExpiry(own)
    PROVE  Counter(key)' = Counter(key)
  <1>1. CASE counters' = counters
    BY <1>1 DEF Counter
  <1>2. CASE Incr(own)
    BY <1>2, IncrEffect DEF Counter
  <1>3. CASE own \in DOMAIN counters /\ SetExpiry(own)
    BY <1>3, ExpiryEffect DEF Counter
  <1> QED
    BY <1>1, <1>2, <1>3

\* SendsCounted is kept when it is for the one key a step is about.
LEMMA SendsOfOneKey ==
    ASSUME LimiterTypeOK, SendsCounted, NEW q \in Arrivals, OthersStay(q), NEW own \in Keys,
           arrivals'[q].key = own, arrivals[q].key = own \/ arrivals[q].at = "unsent",
           \/ counters' = counters
           \/ Incr(own)
           \/ own \in DOMAIN counters /\ SetExpiry(own),
           Counter(own)'.count + Cardinality(Waiting(own)') <= Cardinality(Increments(own)'),
           (\E p \in Arrivals : arrivals'[p].key = own /\ arrivals'[p].at = "limited")
               => Cardinality(Increments(own)') > RateLimit
    PROVE  SendsCounted'
  <1> SUFFICES ASSUME NEW key \in Keys
               PROVE  /\ Counter(key)'.count + Cardinality(Waiting(key)') <= Cardinality(Increments(key)')
                      /\ (\E p \in Arrivals : arrivals'[p].key = key /\ arrivals'[p].at = "limited")
                            => Cardinality(Increments(key)') > RateLimit
    BY DEF SendsCounted
  <1>1. CASE key = own
    BY <1>1
  <1>2. CASE key # own
    <2>1. Counter(key)' = Counter(key)
      BY <1>2, OtherCountersStay
    <2>2. /\ Waiting(key)' = Waiting(key) /\ Increments(key)' = Increments(key)
          /\ \A p \in Arrivals : arrivals'[p].key = key /\ arrivals'[p].at = "limited" =>
                arrivals[p].key = key /\ arrivals[p].at = "limited"
      BY <1>2, OtherKeysStay
    <2> QED
      BY <2>1, <2>2 DEF SendsCounted
  <1> QED
    BY <1>1, <1>2

\* A request that sends once more adds one to the INCRs sent.
LEMMA OneMoreSent ==
    ASSUME LimiterTypeOK, LimiterTypeOK', NEW q \in Arrivals, OthersStay(q), NEW own \in Keys,
           arrivals'[q].key = own, arrivals'[q].at # "unsent",
           arrivals[q].key = own \/ arrivals[q].at = "unsent",
           arrivals'[q].sends = arrivals[q].sends + 1
    PROVE  Cardinality(Increments(own)') = Cardinality(Increments(own)) + 1
  <1> DEFINE n == arrivals[q].sends + 1
  <1>1. arrivals'[q].sends \in 1..MaxSends
    BY DEF LimiterTypeOK, Arrival, Unsent
  <1>2. arrivals[q].sends \in 0..MaxSends /\ MaxSends \in Nat
    BY LimiterAssumption DEF LimiterTypeOK, Arrival, Unsent
  <1>3. n \in 1..MaxSends /\ n \in Nat
    BY <1>1, <1>2
  <1>4. <<q, n>> \notin Increments(own)
    BY <1>2 DEF Increments
  <1>5. arrivals[q].at = "unsent" => arrivals[q].sends = 0
    BY UnsentType
  <1>6. ASSUME NEW p \in Arrivals, NEW m \in 1..MaxSends
        PROVE  <<p, m>> \in Increments(own)' <=> (<<p, m>> \in Increments(own) \/ <<p, m>> = <<q, n>>)
    <2>1. CASE p # q
      BY <2>1 DEF OthersStay, Increments
    <2>2. CASE p = q
      <3>1. <<p, m>> \in Increments(own)' <=> m <= n
        BY <2>2 DEF Increments
      <3>2. <<p, m>> \in Increments(own) <=> m <= arrivals[q].sends
        <4>1. m \in Nat /\ m >= 1
          BY LimiterAssumption
        <4> QED
          BY <2>2, <1>2, <1>5, <4>1 DEF Increments
      <3>3. m <= n <=> m <= arrivals[q].sends \/ m = n
        BY <1>2
      <3> QED
        BY <2>2, <3>1, <3>2, <3>3
    <2> QED
      BY <2>1, <2>2
  <1> HIDE DEF n
  <1>7. Increments(own)' = Increments(own) \union {<<q, n>>}
    <2>1. Increments(own)' \subseteq Arrivals \X (1..MaxSends)
      BY DEF Increments
    <2>2. Increments(own) \subseteq Arrivals \X (1..MaxSends)
      BY DEF Increments
    <2>3. \A s \in Arrivals \X (1..MaxSends) :
             s \in Increments(own)' <=> (s \in Increments(own) \/ s = <<q, n>>)
      BY <1>6
    <2>4. <<q, n>> \in Arrivals \X (1..MaxSends)
      BY <1>3
    <2> QED
      BY <2>1, <2>2, <2>3, <2>4
  <1>8. IsFiniteSet(Increments(own))
    BY CountedSets
  <1> QED
    BY <1>4, <1>7, <1>8, FS_AddElement
\* A request is refused only after more than the limit of INCRs for its key, and a
\* counter never runs ahead of them.
LEMMA SendsStep ==
    ASSUME LimiterInv, LimiterTypeOK', [LimiterNext]_limiterVars
    PROVE  SendsCounted'
  <1>0. LimiterTypeOK /\ FirstsAlone /\ SendsCounted
    BY DEF LimiterInv
  <1>1. CASE Tick
    <2>1. arrivals' = arrivals
      BY <1>1 DEF Tick
    <2>2. \A key : Waiting(key)' = Waiting(key) /\ Increments(key)' = Increments(key)
      BY <2>1 DEF Waiting, Increments
    <2>3. DOMAIN counters' \subseteq DOMAIN counters
          /\ \A key \in DOMAIN counters' : counters'[key] = counters[key]
      BY <1>1 DEF Tick
    <2> SUFFICES ASSUME NEW key \in Keys
                 PROVE  /\ Counter(key)'.count + Cardinality(Waiting(key)')
                              <= Cardinality(Increments(key)')
                        /\ (\E p \in Arrivals : arrivals'[p].key = key /\ arrivals'[p].at = "limited")
                              => Cardinality(Increments(key)') > RateLimit
      BY DEF SendsCounted
    <2>4. Counter(key)' = Counter(key) \/ Counter(key)'.count = 0
      BY <2>3 DEF Counter
    <2>5. Counter(key).count \in Nat /\ Cardinality(Waiting(key)) \in Nat
          /\ Cardinality(Increments(key)) \in Nat
      BY <1>0, CounterType, CountedSets
    <2>6. Counter(key).count + Cardinality(Waiting(key)) <= Cardinality(Increments(key))
      BY <1>0 DEF SendsCounted
    <2>7. Counter(key)'.count + Cardinality(Waiting(key)) <= Cardinality(Increments(key))
      BY <2>4, <2>5, <2>6
    <2> QED
      BY <1>0, <2>1, <2>2, <2>7 DEF SendsCounted
  <1>2. CASE UNCHANGED limiterVars
    BY <1>0, <1>2 DEF SendsCounted, Counter, Waiting, Increments, limiterVars
  <1>3. ASSUME NEW q \in Arrivals, OthersStay(q), NEW own \in Keys, Arrived(q, own)
        PROVE  SendsCounted'
    <2>1. Cardinality(Increments(own)') = Cardinality(Increments(own)) + 1
      BY <1>0, <1>3, UnsentType, OneMoreSent DEF Arrived
    <2>2. Cardinality(Waiting(own)') = Cardinality(Waiting(own)) + 1
      <3>1. q \notin Waiting(own) /\ Waiting(own)' = Waiting(own) \union {q}
        BY <1>3 DEF Arrived, OthersStay, Waiting
      <3> QED
        BY <3>1, CountedSets, FS_AddElement
    <2>3. Counter(own)' = Counter(own)
      BY <1>3 DEF Arrived, Counter
    <2>4. Counter(own).count \in Nat /\ Cardinality(Waiting(own)) \in Nat
          /\ Cardinality(Increments(own)) \in Nat /\ RateLimit \in Nat
      BY <1>0, CounterType, CountedSets, LimiterAssumption
    <2>5. Counter(own).count + Cardinality(Waiting(own)) <= Cardinality(Increments(own))
      BY <1>0 DEF SendsCounted
    <2>6. Counter(own)'.count + Cardinality(Waiting(own)') <= Cardinality(Increments(own)')
      BY <2>1, <2>2, <2>3, <2>4, <2>5
    <2>7. (\E p \in Arrivals : arrivals'[p].key = own /\ arrivals'[p].at = "limited")
             => Cardinality(Increments(own)) > RateLimit
      BY <1>0, <1>3 DEF Arrived, OthersStay, SendsCounted
    <2>8. (\E p \in Arrivals : arrivals'[p].key = own /\ arrivals'[p].at = "limited")
             => Cardinality(Increments(own)') > RateLimit
      BY <2>1, <2>4, <2>7
    <2>9. /\ arrivals'[q].key = own /\ arrivals[q].at = "unsent"
          /\ counters' = counters
      BY <1>3 DEF Arrived
    <2> QED
      BY <1>0, <1>3, <2>6, <2>8, <2>9, SendsOfOneKey
  <1>4. ASSUME NEW q \in Arrivals, OthersStay(q), Resent(q)
        PROVE  SendsCounted'
    <2>1. PICK own \in Keys : own = arrivals[q].key
      BY <1>0, <1>4, RequestType DEF Resent, Arrival
    <2>2. Cardinality(Increments(own)') = Cardinality(Increments(own)) + 1
      BY <1>0, <1>4, <2>1, OneMoreSent DEF Resent
    <2>3. Waiting(own)' = Waiting(own)
      BY <1>4, <2>1 DEF Resent, OthersStay, Waiting
    <2>4. Counter(own)'.count = Counter(own).count + 1
      <3>1. Incr(own)
        BY <1>4, <2>1 DEF Resent
      <3> QED
        BY <1>0, <3>1, IncrEffect DEF Counter
    <2>5. Counter(own).count \in Nat /\ Cardinality(Waiting(own)) \in Nat
          /\ Cardinality(Increments(own)) \in Nat /\ RateLimit \in Nat
      BY <1>0, CounterType, CountedSets, LimiterAssumption
    <2>6. Counter(own).count + Cardinality(Waiting(own)) <= Cardinality(Increments(own))
      BY <1>0 DEF SendsCounted
    <2>7. Counter(own)'.count + Cardinality(Waiting(own)') <= Cardinality(Increments(own)')
      BY <2>2, <2>3, <2>4, <2>5, <2>6
    <2>8. (\E p \in Arrivals : arrivals'[p].key = own /\ arrivals'[p].at = "limited")
             => Cardinality(Increments(own)) > RateLimit
      BY <1>0, <1>4 DEF Resent, OthersStay, SendsCounted
    <2>9. (\E p \in Arrivals : arrivals'[p].key = own /\ arrivals'[p].at = "limited")
             => Cardinality(Increments(own)') > RateLimit
      BY <2>2, <2>5, <2>8
    <2>10. arrivals'[q].key = own /\ Incr(own)
      BY <1>4, <2>1 DEF Resent
    <2> QED
      BY <1>0, <1>4, <2>1, <2>7, <2>9, <2>10, SendsOfOneKey
  <1>5. ASSUME NEW q \in Arrivals, OthersStay(q), Departed(q)
        PROVE  SendsCounted'
    <2>1. PICK own \in Keys : own = arrivals[q].key
      BY <1>0, <1>5, RequestType DEF Departed, Arrival
    <2> DEFINE n == Counter(own).count + 1
    <2>2. Increments(own)' = Increments(own)
      BY <1>5, <2>1 DEF Departed, OthersStay, Increments
    <2>3. Counter(own).count \in Nat /\ Cardinality(Waiting(own)) \in Nat
          /\ Cardinality(Increments(own)) \in Nat /\ RateLimit \in Nat
      BY <1>0, CounterType, CountedSets, LimiterAssumption
    <2>4. Counter(own).count + Cardinality(Waiting(own)) <= Cardinality(Increments(own))
      BY <1>0 DEF SendsCounted
    <2>5. arrivals[q].at = "counted" => own \in DOMAIN counters
      BY <1>0, <2>1 DEF FirstsAlone
    <2>6. counters' = counters => Counter(own)' = Counter(own)
      BY DEF Counter
    <2>7. Incr(own) => Counter(own)'.count = Counter(own).count + 1
      BY <1>0, IncrEffect DEF Counter
    <2>8. own \in DOMAIN counters /\ SetExpiry(own) => Counter(own)'.count = Counter(own).count
      BY <1>0, ExpiryEffect DEF Counter
    <2>9. arrivals[q].at = "keyed" =>
             /\ Cardinality(Waiting(own)') = Cardinality(Waiting(own)) - 1
             /\ Cardinality(Waiting(own)) >= 1
      <3> SUFFICES ASSUME arrivals[q].at = "keyed"
                   PROVE  /\ Cardinality(Waiting(own)') = Cardinality(Waiting(own)) - 1
                          /\ Cardinality(Waiting(own)) >= 1
        OBVIOUS
      <3>1. arrivals'[q].at # "keyed"
        BY <1>5 DEF Departed, Response
      <3>2. Waiting(own)' = Waiting(own) \ {q} /\ q \in Waiting(own)
        BY <1>5, <2>1, <3>1 DEF OthersStay, Waiting
      <3>3. Cardinality(Waiting(own)') = Cardinality(Waiting(own)) - 1
        BY <3>2, CountedSets, FS_RemoveElement
      <3>4. IsFiniteSet(Waiting(own) \ {q})
        BY CountedSets, FS_RemoveElement
      <3>5. Cardinality(Waiting(own)') \in Nat
        BY <3>2, <3>4, FS_CardinalityType
      <3> QED
        BY <2>3, <3>3, <3>5
    <2>10. arrivals[q].at = "counted" => Waiting(own)' = Waiting(own)
      BY <1>5, <2>1 DEF Departed, OthersStay, Waiting
    <2>11. Counter(own)'.count + Cardinality(Waiting(own)') <= Cardinality(Increments(own)')
      <3>1. CASE arrivals[q].at = "keyed"
        <4>1. Counter(own)'.count = Counter(own).count \/ Counter(own)'.count = Counter(own).count + 1
          BY <1>5, <2>1, <2>6, <2>7, <3>1 DEF Departed
        <4> QED
          BY <2>2, <2>3, <2>4, <2>9, <3>1, <4>1
      <3>2. CASE arrivals[q].at = "counted"
        <4>1. Counter(own)'.count = Counter(own).count
          BY <1>5, <2>1, <2>5, <2>6, <2>8, <3>2 DEF Departed
        <4> QED
          BY <2>2, <2>3, <2>4, <2>10, <3>2, <4>1
      <3> QED
        BY <1>5, <3>1, <3>2 DEF Departed
    <2>12. arrivals'[q].at = "limited" => arrivals[q].at = "keyed" /\ n > RateLimit
      BY <1>5, <2>1, <2>3 DEF Departed, Response, Within
    <2>13. (\E p \in Arrivals : arrivals'[p].key = own /\ arrivals'[p].at = "limited")
              => Cardinality(Increments(own)') > RateLimit
      <3>1. CASE arrivals'[q].at = "limited"
        BY <2>2, <2>3, <2>4, <2>9, <2>12, <3>1
      <3>2. CASE arrivals'[q].at # "limited"
        BY <1>0, <1>5, <2>2, <3>2 DEF OthersStay, SendsCounted
      <3> QED
        BY <3>1, <3>2
    <2>14. /\ arrivals'[q].key = own
           /\ \/ counters' = counters
              \/ Incr(own)
              \/ own \in DOMAIN counters /\ SetExpiry(own)
      BY <1>5, <2>1, <2>5 DEF Departed
    <2> QED
      BY <1>0, <1>5, <2>1, <2>11, <2>13, <2>14, SendsOfOneKey
  <1> QED
    BY <1>0, <1>1, <1>2, <1>3, <1>4, <1>5, LimiterSteps

-----------------------------------------------------------------------------
(* The window is kept *)

\* No request has come and Redis holds no key.
LEMMA LimiterStarts == LimiterInit => LimiterInv
  <1> SUFFICES ASSUME LimiterInit PROVE LimiterInv
    OBVIOUS
  <1>1. tick = 0 /\ counters = <<>> /\ DOMAIN counters = {}
    BY DEF LimiterInit
  <1>2. arrivals = [q \in Arrivals |-> Unsent]
    BY DEF LimiterInit
  <1>3. \A q \in Arrivals : arrivals[q].at = "unsent" /\ arrivals[q].sends = 0
    BY <1>2 DEF Unsent
  <1>4. \A key : Through(key) = {} /\ Waiting(key) = {}
    BY <1>3 DEF Through, Waiting
  <1>5. \A key : Increments(key) = {}
    <2>1. \A n \in 1..MaxSends : ~(n <= 0)
      BY LimiterAssumption
    <2> QED
      BY <1>3, <2>1 DEF Increments
  <1>6. Cardinality({}) = 0 /\ RateLimit \in Nat
    BY FS_EmptySet, LimiterAssumption
  <1>7. LimiterTypeOK
    BY <1>1, <1>2 DEF LimiterTypeOK
  <1>8. ClocksKept /\ FirstsAlone
    BY <1>1, <1>3 DEF ClocksKept, FirstsAlone
  <1>9. PassesCounted
    <2>1. \A key : Cardinality(Through(key)) <= RateLimit
      BY <1>4, <1>6
    <2> QED
      BY <1>1, <1>4, <2>1 DEF PassesCounted
  <1>10. \A key : Counter(key).count = 0
    BY <1>1 DEF Counter
  <1>11. SendsCounted
    BY <1>3, <1>4, <1>5, <1>6, <1>10 DEF SendsCounted
  <1> QED
    BY <1>7, <1>8, <1>9, <1>11 DEF LimiterInv

\* The window is kept wherever the invariant holds.
LEMMA InvariantKeepsWindow == LimiterInv => WindowKept
  <1> SUFFICES ASSUME LimiterInv, NEW key \in {arrivals[q].key : q \in Arrivals} \ {<<>>}
               PROVE  /\ Cardinality({q \in OfKey(key) : arrivals[q].at = "passed"}) <= RateLimit
                      /\ (\E q \in OfKey(key) : arrivals[q].at = "limited") =>
                            Cardinality({s \in OfKey(key) \X (1..MaxSends) :
                                            s[2] <= arrivals[s[1]].sends}) > RateLimit
    BY DEF WindowKept
  <1>0. LimiterTypeOK /\ PassesCounted /\ SendsCounted
    BY DEF LimiterInv
  <1>1. key \in Keys
    BY <1>0 DEF LimiterTypeOK, Arrival, Unsent
  <1>2. Cardinality({q \in OfKey(key) : arrivals[q].at = "passed"}) <= RateLimit
    <2> DEFINE passed == {q \in OfKey(key) : arrivals[q].at = "passed"}
    <2>1. passed \in SUBSET Through(key)
      BY DEF OfKey, Through
    <2>2. Cardinality(passed) <= Cardinality(Through(key)) /\ IsFiniteSet(passed)
      BY <2>1, CountedSets, FS_Subset
    <2>3. Cardinality(Through(key)) <= RateLimit
      BY <1>0, <1>1 DEF PassesCounted
    <2>4. Cardinality(passed) \in Nat /\ Cardinality(Through(key)) \in Nat /\ RateLimit \in Nat
      BY <2>2, CountedSets, FS_CardinalityType, LimiterAssumption
    <2> QED
      BY <2>2, <2>3, <2>4
  <1>3. {s \in OfKey(key) \X (1..MaxSends) : s[2] <= arrivals[s[1]].sends} = Increments(key)
    BY DEF OfKey, Increments
  <1> QED
    BY <1>0, <1>1, <1>2, <1>3 DEF SendsCounted, OfKey

\* api/middleware.py keeps its promise for any number of replicas, identities and
\* requests, whatever their clocks and whichever commands are lost or sent again: a
\* window lets no more than the limit of one identity's requests pass, and refuses one
\* only when more than the limit of INCRs were sent for its key.
THEOREM WindowIsKept == LimiterSpec => []WindowKept
  <1>1. LimiterInit => LimiterInv
    BY LimiterStarts
  <1>2. LimiterInv /\ [LimiterNext]_limiterVars => LimiterInv'
    <2> SUFFICES ASSUME LimiterInv, [LimiterNext]_limiterVars PROVE LimiterInv'
      OBVIOUS
    <2>1. LimiterTypeOK'
      BY LimiterTypeStep
    <2> QED
      BY <2>1, ClocksStep, FirstsStep, PassesStep, SendsStep DEF LimiterInv
  <1>3. LimiterInv => WindowKept
    BY InvariantKeepsWindow
  <1> QED
    BY <1>1, <1>2, <1>3, PTL DEF LimiterSpec
=============================================================================
