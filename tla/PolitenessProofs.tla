-------------------------- MODULE PolitenessProofs --------------------------
(***************************************************************************)
(* Politeness: the transport keeps its shape, no request is tried more     *)
(* often than MaxRetries allows, and the host is spared.                   *)
(***************************************************************************)
EXTENDS Politeness, TLAPS

USE PolitenessConstants

Request == [pc : {"none", "called", "paced", "flight", "backoff"}, attempt : 0..MaxRetries, asked : Nat]

\* Nobody but callers is in the chain; no attempt is one too many; a request is
\* performed exactly while somebody is in the chain.
PoliteTypeOK ==
  /\ chain \in Seq(Callers)
  /\ request \in Request
  /\ gap \in 0..MinDelay
  /\ chain = <<>> <=> Asking("none")

\* A request that has paced itself sleeps at least for what the gap is short
\* of MinDelay.
PaceHeld == Asking("paced") => nap \in Nat /\ nap + gap >= MinDelay

\* The one who is first leaves the chain, and the next request starts anew.
LEMMA SettleKeepsShape ==
  ASSUME PoliteTypeOK, Asking("flight"), NEW failed, Settle(failed)
  PROVE  PoliteTypeOK' /\ ~Asking("paced")' /\ ~Asking("flight")'
<1>1. chain # <<>> /\ Tail(chain) \in Seq(Callers)
  BY DEF PoliteTypeOK, Asking
<1>2. /\ NoRequest \in Request /\ NoRequest.pc = "none"
      /\ FreshRequest \in Request /\ FreshRequest.pc = "called"
  BY DEF NoRequest, FreshRequest, Request
<1> QED BY <1>1, <1>2 DEF Settle, Rest, PoliteTypeOK, Asking

\* A retry is one attempt further.
LEMMA BackOffKeepsShape ==
  ASSUME PoliteTypeOK, Asking("flight"), ~IsLast, NEW wait, NEW asked \in Nat, BackOff(wait, asked)
  PROVE  PoliteTypeOK' /\ ~Asking("paced")' /\ ~Asking("flight")'
<1>1. request.attempt + 1 \in 0..MaxRetries /\ Greatest(request.asked, asked) \in Nat
  BY DEF PoliteTypeOK, Request, IsLast, Greatest
<1> QED BY <1>1 DEF BackOff, PoliteTypeOK, Asking, Request

\* The two ways in which an attempt ends.
LEMMA ReplyKeepsShape ==
  ASSUME PoliteTypeOK, Reply
  PROVE  PoliteTypeOK' /\ ~Asking("paced")' /\ ~Asking("flight")'
<1>1. CASE Respond
  BY <1>1, SettleKeepsShape DEF Respond
<1>2. CASE NoResponse
  BY <1>2, SettleKeepsShape, BackOffKeepsShape DEF NoResponse
<1>3. ASSUME NEW after \in RetryAfters \cup {NoHeader}, NotNow(after)
      PROVE  PoliteTypeOK' /\ ~Asking("paced")' /\ ~Asking("flight")'
  <2>1. (IF after = NoHeader THEN 0 ELSE after) \in Nat
    OBVIOUS
  <2> QED BY <1>3, <2>1, SettleKeepsShape, BackOffKeepsShape DEF NotNow
<1> QED BY <1>1, <1>2, <1>3 DEF Reply

\* The transport keeps its shape: no attempt is one too many (http.ts: the
\* loop runs while attempt <= maxRetries), and a request is under way exactly
\* while somebody waits for one.
THEOREM PolitenessTypeCorrect == PolitenessSpec => []PoliteTypeOK
<1>1. PolitenessInit => PoliteTypeOK
  BY DEF PolitenessInit, PoliteTypeOK, NoRequest, Request, Asking
<1>2. PoliteTypeOK /\ [PolitenessNext]_politeVars => PoliteTypeOK'
  <2> SUFFICES ASSUME PoliteTypeOK, [PolitenessNext]_politeVars PROVE PoliteTypeOK'
    OBVIOUS
  <2>1. ASSUME NEW c \in Callers, Ask(c) PROVE PoliteTypeOK'
    <3>1. Append(chain, c) \in Seq(Callers) /\ Append(chain, c) # <<>>
      BY DEF PoliteTypeOK
    <3>2. FreshRequest \in Request /\ FreshRequest.pc = "called"
      BY DEF NoRequest, FreshRequest, Request
    <3> QED BY <2>1, <3>1, <3>2 DEF Ask, PoliteTypeOK, Asking
  <2>2. CASE Pace
    BY <2>2 DEF Pace, PoliteTypeOK, Asking, Request
  <2>3. CASE Send
    BY <2>3 DEF Send, PoliteTypeOK, Asking, Request
  <2>4. CASE Resume
    BY <2>4 DEF Resume, PoliteTypeOK, Asking, Request
  <2>5. CASE Reply
    BY <2>5, ReplyKeepsShape
  <2>6. CASE Pass
    BY <2>6 DEF Pass, Least, PoliteTypeOK, Asking
  <2>7. CASE UNCHANGED politeVars
    BY <2>7 DEF politeVars, PoliteTypeOK, Asking
  <2> QED BY <2>1, <2>2, <2>3, <2>4, <2>5, <2>6, <2>7 DEF PolitenessNext, Proceed
<1> QED BY <1>1, <1>2, PTL DEF PolitenessSpec

\* HostIsSpared: no request leaves sooner than MinDelay after the one before,
\* whoever asks and whatever the site answered.  The sleep is computed when
\* the request is paced and the gap grows while it sleeps, at least as fast:
\* PaceHeld says that what is left of the one covers what is missing of the
\* other, so that nothing is missing when the sleep is over.
THEOREM TheHostIsSpared == PolitenessSpec => HostIsSpared
<1>1. PolitenessInit => PaceHeld
  BY DEF PolitenessInit, PaceHeld, NoRequest, Asking
<1>2. PoliteTypeOK /\ PaceHeld /\ [PolitenessNext]_politeVars => PaceHeld'
  <2> SUFFICES ASSUME PoliteTypeOK, PaceHeld, [PolitenessNext]_politeVars PROVE PaceHeld'
    OBVIOUS
  <2>1. ASSUME NEW c \in Callers, Ask(c) PROVE PaceHeld'
    <3>1. request' = request \/ request' = FreshRequest
      BY <2>1 DEF Ask
    <3>2. FreshRequest.pc = "called"
      BY DEF FreshRequest, NoRequest
    <3> QED BY <2>1, <3>1, <3>2 DEF Ask, PaceHeld, Asking
  <2>2. CASE Pace
    BY <2>2 DEF Pace, Shortfall, PaceHeld, PoliteTypeOK
  <2>3. CASE Send \/ Resume
    BY <2>3 DEF Send, Resume, PaceHeld, PoliteTypeOK, Asking, Request
  <2>4. CASE Reply
    BY <2>4, ReplyKeepsShape DEF PaceHeld
  <2>5. CASE Pass
    BY <2>5 DEF Pass, Least, PaceHeld, PoliteTypeOK, Asking
  <2>6. CASE UNCHANGED politeVars
    BY <2>6 DEF politeVars, PaceHeld, Asking
  <2> QED BY <2>1, <2>2, <2>3, <2>4, <2>5, <2>6 DEF PolitenessNext, Proceed
<1>3. PoliteTypeOK /\ PaceHeld /\ [PolitenessNext]_politeVars => [Leaves => gap >= MinDelay]_politeVars
  <2> SUFFICES ASSUME PoliteTypeOK, PaceHeld, PolitenessNext, Leaves PROVE gap >= MinDelay
    BY DEF Leaves, Asking
  <2>1. ~Reply
    BY ReplyKeepsShape DEF Leaves, Asking
  <2>2. ASSUME NEW c \in Callers, Ask(c) PROVE FALSE
    <3>1. FreshRequest.pc = "called"
      BY DEF FreshRequest, NoRequest
    <3> QED BY <2>2, <3>1 DEF Ask, Leaves, Asking
  <2>3. CASE Send
    BY <2>3 DEF Send, PaceHeld, PoliteTypeOK
  <2>4. CASE Pace \/ Resume \/ Pass
    BY <2>4 DEF Pace, Resume, Pass, Leaves, Asking, PoliteTypeOK, Request
  <2> QED BY <2>1, <2>2, <2>3, <2>4 DEF PolitenessNext, Proceed
<1> QED BY <1>1, <1>2, <1>3, PolitenessTypeCorrect, PTL DEF PolitenessSpec, HostIsSpared
=============================================================================
