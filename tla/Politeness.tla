----------------------------- MODULE Politeness -----------------------------
(***************************************************************************)
(* The transport through which an adapter asks the site of a government    *)
(* for a page (backend/src/services/ingestion/adapters/http.ts:            *)
(* createPoliteTransport): requests form a chain, one is under way at a    *)
(* time, each leaves a while after the one before, and an answer that says *)
(* "not now", or none at all, is retried a few times.                      *)
(*                                                                         *)
(* Times are counted down; a timer may fire late.  The clock is not set    *)
(* back or forward.                                                        *)
(***************************************************************************)
EXTENDS Naturals, Sequences

CONSTANTS
  Callers,        \* handlers that share the transport
  MinDelay,       \* minDelayMs
  MaxRetries,     \* maxRetries
  MaxRetryAfter,  \* MAX_RETRY_AFTER_MS
  RetryAfters,    \* what a site may ask for
  NoHeader        \* an absent or unreadable Retry-After

ASSUME PolitenessConstants ==
  /\ MinDelay \in Nat \ {0} /\ MaxRetries \in Nat /\ MaxRetryAfter \in Nat
  /\ RetryAfters \subseteq Nat /\ NoHeader \notin Nat

VARIABLES
  chain,   \* callers with a request, in the order they asked; the first performs it
  request, \* where it is: pc and attempt; asked: the longest Retry-After it was answered
  nap,     \* what is left of the sleep it is in
  gap      \* time since a request left, as far as it matters

politeVars == <<chain, request, nap, gap>>

NoRequest == [pc |-> "none", attempt |-> 0, asked |-> 0]
FreshRequest == [NoRequest EXCEPT !.pc = "called"]

Least(x, y) == IF x <= y THEN x ELSE y
Greatest(x, y) == IF x >= y THEN x ELSE y
Queued(c) == \E i \in DOMAIN chain : chain[i] = c
Asking(pc) == request.pc = pc
InFlight(c) == Asking("flight") /\ Head(chain) = c

PolitenessInit == chain = <<>> /\ request = NoRequest /\ nap = 0 /\ gap = MinDelay

-----------------------------------------------------------------------------
\* The caller's request is put behind those that were asked for before.
Ask(c) ==
  /\ ~Queued(c)
  /\ chain' = Append(chain, c)
  /\ request' = IF chain = <<>> THEN FreshRequest ELSE request
  /\ UNCHANGED <<nap, gap>>

\* Mutant: only a first attempt waits.
ShortfallOfTheFirst == IF request.attempt = 0 THEN MinDelay - gap ELSE 0

\* How long a request still has to wait for the one before it.
Shortfall == MinDelay - gap

\* An attempt sleeps for that time.
Pace ==
  /\ Asking("called")
  /\ nap' = Shortfall
  /\ request' = [request EXCEPT !.pc = "paced"]
  /\ UNCHANGED <<chain, gap>>

\* It leaves, and the time is noted.
Send ==
  /\ Asking("paced") /\ nap = 0
  /\ gap' = 0
  /\ request' = [request EXCEPT !.pc = "flight"]
  /\ UNCHANGED <<chain, nap>>

IsLast == request.attempt >= MaxRetries

\* Mutant: a failure fails all that are chained behind it.
RestPoisoned(failed) == IF failed THEN <<>> ELSE Tail(chain)

\* Who is still to be served when the first is: a failure is the first's alone.
Rest(failed) == Tail(chain)

\* The caller has its response or error, and the next request begins.
Settle(failed) ==
  /\ chain' = Rest(failed)
  /\ request' = IF chain' = <<>> THEN NoRequest ELSE FreshRequest
  /\ UNCHANGED <<nap, gap>>

Backoff == Greatest(MinDelay, MinDelay * 2 ^ request.attempt)

\* waitMs of an answer that asks for time.
RetryWait(after) == IF after = NoHeader THEN Backoff ELSE Least(after, MaxRetryAfter)

BackOff(wait, asked) ==
  /\ nap' = wait
  /\ request' = [pc |-> "backoff", attempt |-> request.attempt + 1,
                 asked |-> Greatest(request.asked, asked)]
  /\ UNCHANGED <<chain, gap>>

\* Any status but 429 and 503 is the adapter's to judge.
Respond == Asking("flight") /\ Settle(FALSE)

\* A 429 or 503: after the last attempt it is a response like another.
NotNow(after) ==
  /\ Asking("flight")
  /\ \/ IsLast /\ Settle(FALSE)
     \/ ~IsLast /\ BackOff(RetryWait(after), IF after = NoHeader THEN 0 ELSE after)

\* No response: a reset, an unknown host, or the timer of timeoutMs.
NoResponse ==
  /\ Asking("flight")
  /\ \/ IsLast /\ Settle(TRUE)
     \/ ~IsLast /\ BackOff(Backoff, 0)

Resume ==
  /\ Asking("backoff") /\ nap = 0
  /\ request' = [request EXCEPT !.pc = "called"]
  /\ UNCHANGED <<chain, nap, gap>>

Pass ==
  /\ nap' = IF nap = 0 THEN 0 ELSE nap - 1
  /\ gap' = Least(gap + 1, MinDelay)
  /\ UNCHANGED <<chain, request>>

Proceed == Pace \/ Send \/ Resume
Reply == Respond \/ NoResponse \/ \E after \in RetryAfters \cup {NoHeader} : NotNow(after)

PolitenessNext == (\E c \in Callers : Ask(c)) \/ Proceed \/ Reply \/ Pass

PolitenessSpec == PolitenessInit /\ [][PolitenessNext]_politeVars

\* The process goes on, time passes, and every attempt ends by its timeout.
PolitenessFairness ==
  WF_politeVars(Proceed) /\ WF_politeVars(Reply) /\ WF_politeVars(Pass)

-----------------------------------------------------------------------------
(* Properties.                                                             *)

Leaves == ~Asking("flight") /\ request'.pc = "flight"

\* No request leaves sooner than MinDelay after the one before, whoever asks
\* and whatever the site answered: a retry after "Retry-After: 0" waits too
\* (http.ts: "a retry is still a request to the same host").
HostIsSpared == [][Leaves => gap >= MinDelay]_politeVars

\* Every request that is asked for is made: one that is retried, or fails,
\* neither holds up nor fails those behind it (http.ts: "The chain itself
\* must never reject, or one failed request poisons every later one").
EveryRequestIsMade == \A c \in Callers : Queued(c) ~> InFlight(c)

\* A request that was told to wait for longer than MaxRetryAfter is not made
\* again (http.ts: "A server asking for an hour gets the request abandoned").
\* It does not hold: the transport waits for MaxRetryAfter and asks again.
LongWaitsAreAbandoned == Asking("flight") => request.asked <= MaxRetryAfter
=============================================================================
