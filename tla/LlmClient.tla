----------------------------- MODULE LlmClient -----------------------------
(***************************************************************************)
(* UnifiedLLMClient and its CircuitBreaker (pwnproxy/ai/llm/client.py),     *)
(* with the ledger of its attempts (pwnproxy/ai/llm/usage.py).  The judge   *)
(* and the report analyzers call it concurrently; a call suspends in every  *)
(* request, in every back-off and in every write to the ledger.             *)
(***************************************************************************)
EXTENDS Naturals, Sequences, FiniteSets

CONSTANTS
  LlmCallers,       \* tasks that call generate_structured()
  Chain,            \* sequence of the providers configured, without repetition
  CircuitThreshold, \* 3
  RateLimitRetries, \* 2
  MaxCalls          \* bound: calls made

ASSUME LlmAssumption ==
  /\ Chain \in Seq(STRING) /\ CircuitThreshold \in Nat \ {0}
  /\ RateLimitRetries \in Nat /\ MaxCalls \in Nat /\ IsFiniteSet(LlmCallers)

Providers == {Chain[i] : i \in DOMAIN Chain}

VARIABLES
  failures,  \* [Providers -> Nat]: _failures
  opened,    \* [Providers -> "no", "open", or "expired": the cooldown is over]
  llm,       \* [LlmCallers -> where its call is]
  calls,     \* how many calls were made
  requests,  \* history: requests that were answered, or raised
  ledger     \* history: rows in ai_usage; rows that could not be written; and
             \* requests that ended without an attempt to write one

llmVars == <<failures, opened, llm, calls, requests, ledger>>

(* at: the provider by its place in the chain; attempt: of _try_provider(); *)
(* retry: schema_retry.                                                    *)
Idle == [pc |-> "idle", at |-> 0, attempt |-> 0, retry |-> 0]

LlmInit ==
  /\ failures = [p \in Providers |-> 0] /\ opened = [p \in Providers |-> "no"]
  /\ llm = [c \in LlmCallers |-> Idle]
  /\ calls = 0 /\ requests = 0 /\ ledger = [rows |-> 0, lost |-> 0, unrecorded |-> 0]

-----------------------------------------------------------------------------
(* generate(): the next provider, from the i-th on, whose circuit is not    *)
(* open; without one the call has failed.                                  *)
Closed(i) == opened[Chain[i]] # "open"

EntersChain(b, i) ==
  LET candidates == {k \in i .. Len(Chain) : Closed(k)}
  IN IF candidates = {}
       THEN [b EXCEPT !.pc = "idle", !.at = 0, !.attempt = 0, !.retry = 0]
       ELSE [b EXCEPT !.pc = "asking", !.attempt = 0,
                      !.at = CHOOSE k \in candidates : \A j \in candidates : k <= j]

Call(c) ==
  /\ llm[c].pc = "idle" /\ calls < MaxCalls /\ calls' = calls + 1
  /\ llm' = [llm EXCEPT ![c] = EntersChain(Idle, 1)]
  /\ UNCHANGED <<failures, opened, requests, ledger>>

(* record_success(), record_failure() *)
Answered(c) ==
  LET p == Chain[llm[c].at]
  IN /\ llm[c].pc = "asking"
     /\ requests' = requests + 1
     /\ failures' = [failures EXCEPT ![p] = 0] /\ opened' = [opened EXCEPT ![p] = "no"]
     /\ llm' = [llm EXCEPT ![c].pc = "recording answer"]
     /\ UNCHANGED <<calls, ledger>>

RecordFailure(p) ==
  /\ failures' = [failures EXCEPT ![p] = @ + 1]
  /\ opened' = [opened EXCEPT ![p] = IF failures'[p] >= CircuitThreshold THEN "open" ELSE @]

(* Mutant: the failures of a provider count from its last time out. *)
FailedUncounted(c) ==
  LET p == Chain[llm[c].at]
  IN /\ llm[c].pc = "asking"
     /\ requests' = requests + 1
     /\ failures' = [failures EXCEPT ![p] = IF opened[p] = "expired" THEN 0 ELSE @ + 1]
     /\ opened' = [opened EXCEPT ![p] = IF failures'[p] >= CircuitThreshold THEN "open" ELSE @]
     /\ llm' = [llm EXCEPT ![c].pc = "recording failure"]
     /\ UNCHANGED <<calls, ledger>>

(* LLMTimeout or LLMUnavailable, which one rate limit more than             *)
(* RateLimitRetries becomes.                                               *)
Failed(c) ==
  /\ llm[c].pc = "asking"
  /\ requests' = requests + 1
  /\ RecordFailure(Chain[llm[c].at])
  /\ llm' = [llm EXCEPT ![c].pc = "recording failure"]
  /\ UNCHANGED <<calls, ledger>>

(* Any other exception of the provider (an answer of an unexpected shape, a *)
(* URL that is none), or the cancellation of the caller: generate() catches *)
(* neither, and the call is over.                                          *)
AskRaises(c) ==
  /\ llm[c].pc = "asking"
  /\ requests' = requests + 1
  /\ ledger' = [ledger EXCEPT !.unrecorded = @ + 1]
  /\ llm' = [llm EXCEPT ![c] = Idle]
  /\ UNCHANGED <<failures, opened, calls>>

(* _try_provider(): recorded, slept over, and asked again. *)
RateLimited(c) ==
  /\ llm[c].pc = "asking" /\ llm[c].attempt < RateLimitRetries
  /\ requests' = requests + 1
  /\ llm' = [llm EXCEPT ![c].pc = "recording limit", ![c].attempt = @ + 1]
  /\ UNCHANGED <<failures, opened, calls, ledger>>

(* What follows a row of the ledger.  An answer that is no instance of the  *)
(* schema is asked for once more, from the head of the chain.              *)
AfterRecord(b, valid) ==
  CASE b.pc = "recording limit"   -> [b EXCEPT !.pc = "backing off"]
    [] b.pc = "recording failure" -> EntersChain(b, b.at + 1)
    [] b.pc = "recording answer" /\ ~valid /\ b.retry = 0
                                  -> EntersChain([Idle EXCEPT !.retry = 1], 1)
    [] OTHER                      -> Idle

Recording(c) == llm[c].pc \in {"recording answer", "recording failure", "recording limit"}

Recorded(c, valid) ==
  /\ Recording(c)
  /\ ledger' = [ledger EXCEPT !.rows = @ + 1]
  /\ llm' = [llm EXCEPT ![c] = AfterRecord(@, valid)]
  /\ UNCHANGED <<failures, opened, calls, requests>>

(* The ledger raises, or the caller is cancelled there, its row written or  *)
(* not: the call ends with it, an answer in hand or not.                   *)
RecordRaises(c, written) ==
  /\ Recording(c)
  /\ ledger' = IF written THEN [ledger EXCEPT !.rows = @ + 1] ELSE [ledger EXCEPT !.lost = @ + 1]
  /\ llm' = [llm EXCEPT ![c] = Idle]
  /\ UNCHANGED <<failures, opened, calls, requests>>

(* The sleep between two attempts is over, or cancelled with the caller. *)
BackOffEnds(c) ==
  /\ llm[c].pc = "backing off"
  /\ \/ llm' = [llm EXCEPT ![c].pc = "asking"]
     \/ llm' = [llm EXCEPT ![c] = Idle]
  /\ UNCHANGED <<failures, opened, calls, requests, ledger>>

(* cooldown_s is over: the circuit is half-open for everybody. *)
CooldownEnds(p) ==
  /\ opened[p] = "open"
  /\ opened' = [opened EXCEPT ![p] = "expired"]
  /\ UNCHANGED <<failures, llm, calls, requests, ledger>>

LlmNext ==
  \/ \E c \in LlmCallers :
       \/ Call(c) \/ Answered(c) \/ Failed(c) \/ AskRaises(c) \/ RateLimited(c)
       \/ BackOffEnds(c)
       \/ \E valid \in BOOLEAN : Recorded(c, valid)
       \/ \E written \in BOOLEAN : RecordRaises(c, written)
  \/ \E p \in Providers : CooldownEnds(p)

LlmSpec == LlmInit /\ [][LlmNext]_llmVars

-----------------------------------------------------------------------------
CallType == [pc      : {"idle", "asking", "recording answer", "recording failure",
                        "recording limit", "backing off"},
             at      : Nat,
             attempt : 0 .. RateLimitRetries,
             retry   : {0, 1}]

LlmTypeOK ==
  /\ failures \in [Providers -> Nat] /\ opened \in [Providers -> {"no", "open", "expired"}]
  /\ llm \in [LlmCallers -> CallType]
  /\ \A c \in LlmCallers : llm[c].pc # "idle" => llm[c].at \in DOMAIN Chain
  /\ calls \in Nat /\ requests \in Nat /\ ledger \in [rows : Nat, lost : Nat, unrecorded : Nat]

(* Whatever calls overlap on a provider, its circuit is out of the closed   *)
(* state exactly when CircuitThreshold failures have followed its last      *)
(* success, so that of the calls a half-open circuit lets through the first *)
(* that fails opens it again ("record_failure() above threshold re-opens",  *)
(* client.py:191); a failure is one generate() catches.  And the ledger has *)
(* one row per request that has ended, but for what it could not write and  *)
(* for the requests whose end generate() does not catch, of which neither   *)
(* the breaker nor the ledger hears.                                       *)
BreakerAndLedgerAgree ==
  /\ \A p \in Providers : opened[p] # "no" <=> failures[p] >= CircuitThreshold
  /\ requests = ledger.rows + ledger.lost + ledger.unrecorded
                + Cardinality({c \in LlmCallers : Recording(c)})
=============================================================================
