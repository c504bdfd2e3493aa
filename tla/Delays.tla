------------------------------- MODULE Delays -------------------------------
(***************************************************************************)
(* How long the libraries wait before they try again: between the retries  *)
(* of an HTTP request (backend-http-client's retry.ts and delayBuilders),  *)
(* between polls (ExponentialBackoffStrategy), between the tries of a      *)
(* transaction (prismaTransaction), and universal-ts-utils' waitAndRetry,  *)
(* whose predicate is the caller's.  Math.random() is random / Steps.      *)
(***************************************************************************)
EXTENDS Integers, Sequences

CONSTANT Steps   \* how many values Math.random() has

Smaller(a, b) == IF a < b THEN a ELSE b
Larger(a, b) == IF a > b THEN a ELSE b
Null == -1

\* base ^ n
Power(base, n) ==
    LET upTo[i \in 0..n] == IF i = 0 THEN 1 ELSE base * upTo[i - 1]
    IN  upTo[n]

\* an option is a sequence of its value, or empty when undefined
Option(T) == {o \in Seq(T) : Len(o) <= 1}
Random == 0..(Steps - 1)

-----------------------------------------------------------------------------
(* Retries of a request *)

\* the builders of RetryDelay
ConstantDelay(base, n) == base
LinearDelay(base, n) == n * base
ExponentialDelay(base, multiplier, n) == base * Power(multiplier, n - 1)

Delay(builder, n) ==
    CASE builder.kind = "constant"    -> ConstantDelay(builder.base, n)
      [] builder.kind = "linear"      -> LinearDelay(builder.base, n)
      [] builder.kind = "exponential" -> ExponentialDelay(builder.base, builder.multiplier, n)

Builder ==
    [kind : {"constant", "linear"}, base : Nat] \cup [kind : {"exponential"}, base : Nat, multiplier : Nat]
RetryOptions ==
    [delay : Option(Builder), maxDelay : Option(Nat), maxJitter : Option(Nat),
     respectRetryAfter : Option(BOOLEAN)]
Headers == Seq([form : STRING, value : Int])

DefaultRetryConfig ==
    [delay |-> <<[kind |-> "exponential", base |-> 100, multiplier |-> 2]>>,
     maxDelay |-> <<30000>>, maxJitter |-> <<100>>, respectRetryAfter |-> <<TRUE>>]

\* an option that is undefined does not shadow its default
ResolveRetryConfig(config) ==
    [option \in DOMAIN DefaultRetryConfig |->
        IF option \in DOMAIN config /\ config[option] # <<>>
        THEN config[option][1] ELSE DefaultRetryConfig[option][1]]

\* Retry-After has seconds, whole or not, a date, which is so many ms from now, or is
\* neither; of several headers the first counts
ParseRetryAfterHeader(headers) ==
    LET h == headers[1] IN
    IF headers = <<>> THEN Null
    ELSE CASE h.form = "seconds" /\ h.value >= 0 -> h.value * 1000
           [] h.form = "date" /\ h.value >= 0 -> h.value
           [] OTHER -> Null

\* in units of 1/Steps ms
ApplyJitterAndCap(delay, config, random) ==
    Smaller(delay * Steps + random * config.maxJitter, config.maxDelay * Steps)

ComputeRetryDelay(headers, n, config, random) ==
    LET retryAfter == ParseRetryAfterHeader(headers)
    IN  IF config.respectRetryAfter /\ retryAfter # Null
        THEN ApplyJitterAndCap(retryAfter, config, random)
        ELSE ApplyJitterAndCap(Delay(config.delay, n), config, random)

-----------------------------------------------------------------------------
(* Polling: multiplier[1] / multiplier[2] is the growth, jitter / 10 the factor *)

PollConfig ==
    [initial : Int, max : Int, multiplier : Nat \X (Nat \ {0}), attempts : Int, jitter : Option(Int)]

ValidateConfig(config) ==
    /\ config.initial >= 0 /\ config.max >= 0
    /\ config.initial <= config.max
    /\ config.multiplier[1] > 0
    /\ config.attempts >= 1
    /\ config.jitter # <<>> => config.jitter[1] \in 0..10

JitterFactor(config) == IF config.jitter = <<>> THEN 2 ELSE config.jitter[1]

\* Math.round of a fraction
Round(n, d) == (2 * n + d) \div (2 * d)

\* the base is base / denominator before the jitter
CalculateDelay(config, index, random) ==
    LET denominator == Power(config.multiplier[2], index)
        base == Smaller(config.initial * Power(config.multiplier[1], index), config.max * denominator)
        jitter == base * JitterFactor(config) * (2 * random - Steps)
        rounded == Round(base * 20 * Steps + jitter, denominator * 20 * Steps)
    IN  Smaller(config.max, Larger(0, rounded))

\* the waits of a poll that never completes: none after the last attempt
Waits(config, randoms) ==
    [i \in 1..(config.attempts - 1) |-> CalculateDelay(config, i - 1, randoms[i])]

-----------------------------------------------------------------------------
(* Tries of a transaction, and of a predicate *)

CalculateRetryDelay(retries, base, max) == Smaller(Power(2, retries - 1) * base, max)

Answers == {"truthy", "falsy", "throws", "rejects"}

\* What the promise comes to when the calls of predicateFn answer so.  max + 1 calls are
\* awaited in a chain that rejects when they throw; one more is made in the timer's own
\* callback, whose exception nobody catches.  A max of 0 goes on for ever.
WaitAndRetry(answers, max) ==
    LET Chained == {i \in DOMAIN answers : (max = 0 \/ i <= max + 1) /\ answers[i] # "falsy"}
        first == CHOOSE i \in Chained : \A j \in Chained : i <= j
        last == answers[max + 2]
    IN  CASE Chained # {} -> [calls |-> first, result |-> IF answers[first] = "truthy" THEN "resolved" ELSE "rejected"]
          [] Chained = {} /\ max = 0 -> [calls |-> Len(answers), result |-> "pending"]
          [] OTHER -> [calls |-> max + 2,
                       result |-> CASE last = "throws" -> "pending" [] last = "rejects" -> "rejected"
                                    [] OTHER -> "resolved"]

-----------------------------------------------------------------------------
(* Properties *)

\* A retry waits for what the server asked, or else for its own delay, and up to
\* maxJitter longer, but never longer than maxDelay; a header that cannot be honoured
\* is as if absent.
RetriesWait(headers, n, options, random) ==
    LET config == ResolveRetryConfig(options)
        wait == ComputeRetryDelay(headers, n, config, random)
        asked == IF /\ config.respectRetryAfter
                    /\ headers # <<>> /\ headers[1].form \in {"seconds", "date"} /\ headers[1].value >= 0
                 THEN headers[1].value * (IF headers[1].form = "date" THEN 1 ELSE 1000)
                 ELSE Delay(config.delay, n)
    IN  /\ wait <= config.maxDelay * Steps
        /\ wait >= Smaller(asked, config.maxDelay) * Steps
        /\ wait <= (asked + config.maxJitter) * Steps
        /\ \A option \in DOMAIN options : options[option] # <<>> => config[option] = options[option][1]

\* The polls of a valid configuration are no further apart than maxDelayMs, off the
\* exponential delay by half the jitter factor at most, and from one to the next the
\* delays shrink by the jitter only when the multiplier is not below 1.
PollsWait(config, random, other) ==
    LET Band(index) ==
            LET d == Power(config.multiplier[2], index)
                base == Smaller(config.initial * Power(config.multiplier[1], index), config.max * d)
            IN  [low |-> (base * (20 - JitterFactor(config))) \div (20 * d),
                 high |-> (base * (20 + JitterFactor(config))) \div (20 * d) + 1]
    IN  ValidateConfig(config) =>
            /\ \A i \in 0..(config.attempts - 1) :
                  LET wait == CalculateDelay(config, i, random)
                  IN  /\ wait \in 0..config.max
                      /\ Band(i).low <= wait /\ wait <= Band(i).high
                      /\ config.multiplier[1] >= config.multiplier[2] /\ JitterFactor(config) = 0
                            => wait <= CalculateDelay(config, i + 1, other)
            /\ Len(Waits(config, [i \in 1..config.attempts |-> random])) = config.attempts - 1

\* A transaction's tries are further and further apart, up to maxRetryDelayMs.
TriesWait(retries, base, max) ==
    LET Wait(n) == CalculateRetryDelay(n, base, max)
    IN  Wait(retries) <= Wait(retries + 1) /\ Wait(retries + 1) <= Larger(2 * Wait(retries), max)
           /\ Wait(retries) <= max

\* A wait ends with the first answer that is not falsy, or falsy when max retries have
\* answered so, and never without an answer unless retries are unlimited.  Nothing is
\* claimed of a call after these max + 1, which the code makes, but that there is one at
\* most: when it throws, nobody catches it and the wait does not end.
WaitEnds(answers, max) ==
    LET wait == WaitAndRetry(answers, max)
        Extra == max # 0 /\ wait.calls = max + 2
    IN  /\ \A i \in 1..(wait.calls - 1) : answers[i] = "falsy"
        /\ max # 0 => wait.calls <= max + 2
        /\ wait.result = "resolved" /\ answers[wait.calls] = "falsy" => max # 0 /\ wait.calls > max
        /\ wait.result = "rejected" => answers[wait.calls] \in {"throws", "rejects"}
        /\ ~Extra =>
              (wait.result = "pending" <=> max = 0 /\ \A i \in DOMAIN answers : answers[i] = "falsy")
=============================================================================
