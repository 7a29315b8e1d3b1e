---------------------------- MODULE ProviderCalls ----------------------------
(***************************************************************************)
(* One provider call of the worker: call_with_retry (application/retry.py) *)
(* around an HTTP adapter (providers/http.py).  An attempt is one exchange *)
(* with the provider: what the address check, the transport, the status or *)
(* the body gave, with the Retry-After hint of an error status.  Durations *)
(* are units of base_delay_seconds; the jitter is any whole number of them.*)
(* An exception that is no ProviderError leaves the loop: the call has     *)
(* escaped, and so does the delivery that made it.                         *)
(***************************************************************************)
EXTENDS Naturals, Sequences

CONSTANTS
    CallAttempts,              \* max_attempts of the policy
    MaxDelay, MaxRetryAfter,   \* its caps
    Hints,                     \* the Retry-After values a provider may send
    NoHint                     \* a header that is absent or cannot be parsed

ASSUME CallAssumption ==
    /\ CallAttempts \in 1..10
    /\ MaxDelay \in Nat \ {0} /\ MaxRetryAfter \in Nat \ {0}
    /\ Hints \subseteq Nat /\ NoHint \notin Nat

VARIABLES
    call,     \* the operation, the adapter's profile and its base URL
    exchanges,   \* the attempts: reply, hint, and the delay slept after it
    ending       \* "unasked", "calling", "answered", "escaped" or an error kind

callVars == <<call, exchanges, ending>>

ProviderErrorKind ==
    {"authentication_failure", "permission_failure", "rate_limit",
     "context_length_overflow", "invalid_request", "timeout", "connection_error",
     "provider_server_error", "content_policy_rejection",
     "malformed_structured_output", "unknown_provider_failure"}

Retryable == {"rate_limit", "timeout", "connection_error", "provider_server_error"}

CallRequests ==
    [operation : {"generate", "generate_structured", "embed"},
     profile : {"compatible", "local", "fake"},
     url : {"credentials", "no host", "http", "https", "other scheme"}]

Unasked == [operation |-> "generate", profile |-> "compatible", url |-> "https"]

CallInit ==
    /\ call = Unasked
    /\ exchanges = << >>
    /\ ending = "unasked"

\* Only the explicit local profile talks plain HTTP or to private addresses.
UrlAccepted == call.url = "https" \/ (call.url = "http" /\ call.profile = "local")

\* Error statuses, the ones whose meaning the body decides taken apart.
ErrorReplies == {"401", "403", "403 policy", "429", "400", "400 context", "5xx", "other 4xx"}

\* The deterministic provider of demonstrations calls nobody; the text it was
\* given may not be what a schema asks for.
FakeReplies ==
    {"good"} \union (IF call.operation = "generate_structured" THEN {"wrong shape"} ELSE {})

\* Everything an attempt can meet, in the order the adapter tests for it.
Replies ==
    IF call.profile = "fake" THEN FakeReplies
    ELSE IF ~UrlAccepted THEN {"url refused"}
    ELSE {"unresolved", "slow", "unreachable", "broken protocol", "oversize"}
         \union (IF call.profile = "local" THEN {} ELSE {"private address"})
         \union ErrorReplies
         \union {"not JSON", "not an object", "wrong shape", "null usage", "good"}

\* What a body that lacks a field, or breaks the schema asked for, is called.
BodyError ==
    [generate |-> "unknown_provider_failure",
     generate_structured |-> "malformed_structured_output",
     embed |-> "unknown_provider_failure"]

\* _error_kind and the except clauses of _post and of the operation.
KindOf(reply) ==
    CASE reply \in {"url refused", "private address", "oversize", "400"} -> "invalid_request"
      [] reply \in {"unresolved", "unreachable"} -> "connection_error"
      [] reply = "slow" -> "timeout"
      [] reply = "401" -> "authentication_failure"
      [] reply = "403" -> "permission_failure"
      [] reply = "403 policy" -> "content_policy_rejection"
      [] reply = "429" -> "rate_limit"
      [] reply = "400 context" -> "context_length_overflow"
      [] reply = "5xx" -> "provider_server_error"
      [] reply \in {"other 4xx", "not JSON"} -> "unknown_provider_failure"
      [] reply = "wrong shape" -> BodyError[call.operation]

\* No except clause covers a root that is no object, a "usage": null, or a
\* transport error that is neither a timeout nor a network error.
Escaping == {"broken protocol", "not an object", "null usage"}

Smaller(a, b) == IF a < b THEN a ELSE b

\* The exponential cap of the jitter after the given attempt.
JitterCap(attempt) == Smaller(MaxDelay, 2 ^ (attempt - 1))

\* Mutant: the hint is capped like the jitter.
DelayCapped(jitter, hint) ==
    IF hint = NoHint \/ jitter >= Smaller(hint, MaxDelay) THEN jitter ELSE Smaller(hint, MaxDelay)

\* The jitter, or the bounded hint where that is longer.
Delay(jitter, hint) ==
    IF hint = NoHint \/ jitter >= Smaller(hint, MaxRetryAfter)
    THEN jitter ELSE Smaller(hint, MaxRetryAfter)

Exchanged(reply, hint, delay) ==
    exchanges' = Append(exchanges, [reply |-> reply, hint |-> hint, delay |-> delay])

Attempt == Len(exchanges) + 1

\* The worker makes the call.
Call(r) ==
    /\ ending = "unasked"
    /\ call' = r
    /\ ending' = "calling"
    /\ UNCHANGED exchanges

Answer ==
    /\ ending = "calling" /\ "good" \in Replies
    /\ Exchanged("good", NoHint, 0)
    /\ ending' = "answered"
    /\ UNCHANGED call

Escape(reply) ==
    /\ ending = "calling" /\ reply \in Replies \cap Escaping
    /\ Exchanged(reply, NoHint, 0)
    /\ ending' = "escaped"
    /\ UNCHANGED call

\* A ProviderError: raised at the last attempt or if its kind is not retried.
Refuse(reply, hint) ==
    /\ ending = "calling" /\ reply \in Replies \ (Escaping \union {"good"})
    /\ hint # NoHint => reply \in ErrorReplies
    /\ KindOf(reply) \in Retryable => Attempt = CallAttempts
    /\ Exchanged(reply, hint, 0)
    /\ ending' = KindOf(reply)
    /\ UNCHANGED call

\* One that is retried, after its delay.
Retry(reply, hint, jitter) ==
    /\ ending = "calling" /\ reply \in Replies \ (Escaping \union {"good"})
    /\ hint # NoHint => reply \in ErrorReplies
    /\ KindOf(reply) \in Retryable /\ Attempt < CallAttempts
    /\ Exchanged(reply, hint, Delay(jitter, hint))
    /\ UNCHANGED <<call, ending>>

CallNext ==
    \/ \E r \in CallRequests : Call(r)
    \/ Answer
    \/ \E reply \in Replies :
          \/ Escape(reply)
          \/ \E hint \in Hints \union {NoHint} :
                \/ Refuse(reply, hint)
                \/ \E jitter \in 0..JitterCap(Attempt) : Retry(reply, hint, jitter)

CallSpec == CallInit /\ [][CallNext]_callVars

-----------------------------------------------------------------------------
(* Properties *)

\* Whatever sequence of failures a provider gives: the attempts stay within the
\* policy; each but the last met a failure that may pass, and waited at least as
\* long as the provider asked for, up to the bound on that, and no longer than
\* the larger cap; the call ends with the result of its last attempt; and a
\* failure that may pass ends it only when no attempt was left.
CallsJustified ==
    LET n == Len(exchanges) IN
    /\ n <= CallAttempts
    /\ \A i \in 1..(n - 1) :
          LET e == exchanges[i] IN
          /\ e.reply \notin Escaping \union {"good"} /\ KindOf(e.reply) \in Retryable
          /\ e.hint # NoHint => e.delay >= Smaller(e.hint, MaxRetryAfter)
          /\ e.delay <= MaxDelay \/ (e.hint # NoHint /\ e.delay <= MaxRetryAfter)
    /\ ending \notin {"unasked", "calling"} =>
          /\ n > 0
          /\ (ending = "answered") <=> (exchanges[n].reply = "good")
          /\ ending \in ProviderErrorKind => ending = KindOf(exchanges[n].reply)
          /\ ending \in Retryable => n = CallAttempts
    /\ ending = "calling" => n < CallAttempts
=============================================================================
