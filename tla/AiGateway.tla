------------------------------ MODULE AiGateway -----------------------------
(***************************************************************************)
(* The gateway in front of the AI client (netsentinel-core/ai_gateway.rs   *)
(* and ai.rs): each request passes four checks, waits for one of a fixed   *)
(* number of slots, calls the client and leaves an entry in the audit      *)
(* ledger.  Requests run on tokio's threads; counters are atomics, the     *)
(* rate and token windows have a mutex each, and nothing is held from one  *)
(* check to the next.                                                      *)
(*                                                                         *)
(* A task makes its requests one after the other, and the text of one is   *)
(* reduced to what the checks see of it.  The ledger is LedgerAbs, which   *)
(* Ledger.tla implements.                                                  *)
(***************************************************************************)
EXTENDS Integers, Sequences, FiniteSets

CONSTANTS Tasks,          \* concurrent callers
          MaxCalls,       \* max_calls_per_session
          MaxTokens,      \* max_tokens_per_period
          PeriodSecs,     \* period_secs
          MaxConcurrent,  \* permits of the semaphore
          RateMax,        \* requests a rate window takes (5)
          RateWindow,     \* its length in seconds (10)
          Tokens,         \* what estimate_tokens gives for one request
          MaxClock,       \* bound on the clock
          MaxRequests,    \* bound on the requests of all tasks
          NULL

ASSUME GatewayAssumption ==
  /\ MaxCalls \in Nat /\ MaxTokens \in Nat /\ PeriodSecs \in Nat
  /\ MaxConcurrent \in Nat \ {0} /\ RateMax \in Nat \ {0} /\ RateWindow \in Nat
  /\ Tokens \in Nat /\ MaxClock \in Nat /\ MaxRequests \in Nat
  /\ IsFiniteSet(Tasks)
  /\ NULL \notin Nat \X Nat /\ NULL \notin {"HIGH", "LOW", "BLOCKED", "ERROR"}

(* What the checks see in a text: detect_prompt_injection finds one of its *)
(* phrases, or estimate_tokens comes to more than a call may have.         *)
Texts == {"plain", "injection", "too_long"}
AIConfidence == {"HIGH", "LOW", "BLOCKED"}

VARIABLES pc,                 \* where each task's request stands
          text,               \* what it says
          answer,             \* the last answer: a confidence, "ERROR" or NULL
          calls_made, blocked_budget, blocked_rate, blocked_injection,
          total_responses,
          rate_limit_state,   \* <<start of the window, requests in it>> or NULL
          window_start, window_tokens,
          permits,            \* free slots of the semaphore
          entries, durable, receipt,   \* the ledger
          clock,
          requests,           \* history: requests made
          admitted,           \* history: when the rate limit let a request in
          let_in              \* history: tokens the window budget let in, this period
counters == <<calls_made, blocked_budget, blocked_rate, blocked_injection,
              total_responses>>
windows  == <<rate_limit_state, window_start, window_tokens>>
ledger   == <<entries, durable, receipt>>
history  == <<requests, admitted, let_in>>
vars     == <<pc, text, answer, counters, windows, permits, ledger, clock, history>>

Ledger == INSTANCE LedgerAbs WITH Content <- AIConfidence, Threads <- Tasks

PC == {"idle", "input", "rate", "window", "load", "slot", "count", "client"}

TypeOK ==
  /\ pc \in [Tasks -> PC]
  /\ text \in [Tasks -> Texts]
  /\ answer \in [Tasks -> AIConfidence \cup {"ERROR", NULL}]
  /\ calls_made \in Nat /\ blocked_budget \in Nat /\ blocked_rate \in Nat
  /\ blocked_injection \in Nat /\ total_responses \in Nat
  /\ rate_limit_state \in {NULL} \cup (0..MaxClock) \X (1..RateMax)
  /\ window_start \in 0..MaxClock /\ window_tokens \in Nat
  /\ permits \in 0..MaxConcurrent
  /\ entries \in Seq(AIConfidence) /\ durable \in 0..Len(entries)
  /\ receipt \in [Tasks -> Seq(AIConfidence)]
  /\ clock \in 0..MaxClock
  /\ requests \in 0..MaxRequests /\ admitted \in Seq(0..MaxClock)
  /\ let_in \in Nat

Init ==
  /\ pc = [t \in Tasks |-> "idle"]
  /\ text = [t \in Tasks |-> "plain"]
  /\ answer = [t \in Tasks |-> NULL]
  /\ calls_made = 0 /\ blocked_budget = 0 /\ blocked_rate = 0
  /\ blocked_injection = 0 /\ total_responses = 0
  /\ rate_limit_state = NULL
  /\ window_start = 0 /\ window_tokens = 0
  /\ permits = MaxConcurrent
  /\ Ledger!Init
  /\ clock = 0 /\ requests = 0
  /\ admitted = <<>>
  /\ let_in = 0

-----------------------------------------------------------------------------
Goto(t, from, to) == pc[t] = from /\ pc' = [pc EXCEPT ![t] = to]

(* A check that says no: the caller gets a BLOCKED answer, without a hash. *)
Blocked(t, from) == /\ Goto(t, from, "idle")
                    /\ answer' = [answer EXCEPT ![t] = "BLOCKED"]
                    /\ Ledger!Decline(t)

Passed(t, from, to) == Goto(t, from, to) /\ UNCHANGED <<answer, ledger>>

(* Mutant: one call too many passes.                                       *)
OverBudget_OffByOne(said) == calls_made > MaxCalls \/ said = "too_long"

OverBudget(said) == calls_made >= MaxCalls \/ said = "too_long"

check_budget(t, said) ==
  /\ requests < MaxRequests
  /\ requests' = requests + 1
  /\ text' = [text EXCEPT ![t] = said]
  /\ \/ /\ OverBudget(said)
        /\ Blocked(t, "idle")
        /\ blocked_budget' = blocked_budget + 1
     \/ /\ ~OverBudget(said)
        /\ Passed(t, "idle", "input")
        /\ UNCHANGED blocked_budget
  /\ UNCHANGED <<calls_made, blocked_rate, blocked_injection, total_responses,
                 windows, permits, clock, admitted, let_in>>

check_input(t) ==
  /\ \/ /\ text[t] = "injection"
        /\ Blocked(t, "input")
        /\ blocked_injection' = blocked_injection + 1
     \/ /\ text[t] # "injection"
        /\ Passed(t, "input", "rate")
        /\ UNCHANGED blocked_injection
  /\ UNCHANGED <<text, calls_made, blocked_budget, blocked_rate,
                 total_responses, windows, permits, clock, history>>

(* Mutant: a window is over in the second its length is reached.           *)
RateWindowOver_Early ==
  rate_limit_state = NULL \/ clock - rate_limit_state[1] >= RateWindow

(* A window opens with the first request after the last one has run out.   *)
RateWindowOver ==
  rate_limit_state = NULL \/ clock - rate_limit_state[1] > RateWindow

RateWindowFull == ~RateWindowOver /\ rate_limit_state[2] >= RateMax

check_rate_limit(t) ==
  /\ \/ /\ RateWindowFull
        /\ Blocked(t, "rate")
        /\ blocked_rate' = blocked_rate + 1
        /\ UNCHANGED <<rate_limit_state, admitted>>
     \/ /\ ~RateWindowFull
        /\ Passed(t, "rate", "window")
        /\ rate_limit_state' = IF RateWindowOver THEN <<clock, 1>>
                               ELSE <<rate_limit_state[1], rate_limit_state[2] + 1>>
        /\ admitted' = Append(admitted, clock)
        /\ UNCHANGED blocked_rate
  /\ UNCHANGED <<text, calls_made, blocked_budget, blocked_injection, total_responses,
                 window_start, window_tokens, permits, clock, requests, let_in>>

PeriodOver == clock - window_start > PeriodSecs

(* window_start's guard is held to the end of the check.                   *)
WindowLocked == \E t \in Tasks : pc[t] = "load"

(* check_window_budget, in two steps: tokens are added outside its mutex,  *)
(* so they may land between the reset and the reading.                     *)
ResetWindow(t) ==
  /\ PeriodOver /\ ~WindowLocked
  /\ Goto(t, "window", "load")
  /\ window_start' = clock
  /\ window_tokens' = 0
  /\ let_in' = 0
  /\ UNCHANGED <<text, answer, counters, rate_limit_state, permits, ledger, clock,
                 requests, admitted>>

(* Mutant: a request over the token budget is refused and not counted.     *)
check_window_budget_Uncounted(t) ==
  /\ pc[t] = "window" => ~PeriodOver /\ ~WindowLocked
  /\ \E at \in {"window", "load"} :
       \/ window_tokens >= MaxTokens /\ Blocked(t, at) /\ UNCHANGED let_in
       \/ /\ window_tokens < MaxTokens /\ Passed(t, at, "slot")
          /\ let_in' = let_in + Tokens
  /\ UNCHANGED <<text, counters, windows, permits, clock, requests, admitted>>

check_window_budget(t) ==
  /\ pc[t] = "window" => ~PeriodOver /\ ~WindowLocked
  /\ \E at \in {"window", "load"} :
       \/ /\ window_tokens >= MaxTokens
          /\ Blocked(t, at)
          /\ blocked_budget' = blocked_budget + 1
          /\ UNCHANGED let_in
       \/ /\ window_tokens < MaxTokens
          /\ Passed(t, at, "slot")
          /\ let_in' = let_in + Tokens
          /\ UNCHANGED blocked_budget
  /\ UNCHANGED <<text, calls_made, blocked_rate, blocked_injection,
                 total_responses, windows, permits, clock, requests, admitted>>

-----------------------------------------------------------------------------
(* A slot, then the tokens and the call are counted, then the client.      *)
(* Mutant: the tokens are never charged.                                   *)
AcquireSlot_Free(t) ==
  /\ Goto(t, "slot", "count")
  /\ permits > 0
  /\ permits' = permits - 1
  /\ UNCHANGED <<text, answer, counters, windows, ledger, clock, history>>

AcquireSlot(t) ==
  /\ Goto(t, "slot", "count")
  /\ permits > 0
  /\ permits' = permits - 1
  /\ window_tokens' = window_tokens + Tokens
  /\ UNCHANGED <<text, answer, counters, rate_limit_state, window_start, ledger,
                 clock, history>>

CountCall(t) ==
  /\ Goto(t, "count", "client")
  /\ calls_made' = calls_made + 1
  /\ UNCHANGED <<text, answer, blocked_budget, blocked_rate, blocked_injection,
                 total_responses, windows, permits, ledger, clock, history>>

(* Mutant: an error leaves the slot taken.                                 *)
Respond_KeepsSlot(t, what) ==
  /\ Goto(t, "client", "idle")
  /\ answer' = [answer EXCEPT ![t] = what]
  /\ total_responses' = total_responses + 1
  /\ permits' = IF what = "ERROR" THEN permits ELSE permits + 1
  /\ UNCHANGED <<text, calls_made, blocked_budget, blocked_rate, blocked_injection,
                 windows, clock, history>>

Respond(t, what) ==
  /\ Goto(t, "client", "idle")
  /\ answer' = [answer EXCEPT ![t] = what]
  /\ total_responses' = total_responses + 1
  /\ permits' = permits + 1
  /\ UNCHANGED <<text, calls_made, blocked_budget, blocked_rate, blocked_injection,
                 windows, clock, history>>

(* Mutant: a degraded answer is not audited.                               *)
ClientAnswers_Unaudited(t) ==
  \E confidence \in {"HIGH", "LOW"} :
    /\ IF confidence = "HIGH" THEN Ledger!Record(t, confidence) ELSE Ledger!Decline(t)
    /\ Respond(t, confidence)

(* The client's answer, online or degraded, once the ledger has it; its    *)
(* own look for an injection finds what check_input would have found.      *)
ClientAnswers(t) ==
  \E confidence \in IF text[t] = "injection" THEN {"BLOCKED"} ELSE {"HIGH", "LOW"} :
    Ledger!Record(t, confidence) /\ Respond(t, confidence)

(* The audit entry cannot be appended: the answer is lost with it.         *)
ClientFails(t) == Ledger!Decline(t) /\ Respond(t, "ERROR")

Tick == /\ clock < MaxClock
        /\ clock' = clock + 1
        /\ UNCHANGED <<pc, text, answer, counters, windows, permits, ledger, history>>

-----------------------------------------------------------------------------
Step(t) == \/ check_input(t) \/ check_rate_limit(t)
           \/ ResetWindow(t) \/ check_window_budget(t)
           \/ CountCall(t) \/ ClientAnswers(t) \/ ClientFails(t)

Next == \/ \E t \in Tasks, said \in Texts : check_budget(t, said)
        \/ \E t \in Tasks : AcquireSlot(t) \/ Step(t)
        \/ Tick

Spec == Init /\ [][Next]_vars

(* tokio runs every ready task and queues waiters for a slot in order; the *)
(* HTTP client gives up after its timeout.                                 *)
FairSpec == Spec /\ \A t \in Tasks : WF_vars(Step(t)) /\ SF_vars(AcquireSlot(t))

-----------------------------------------------------------------------------
HoldsSlot(t) == pc[t] \in {"count", "client"}
Uncounted(t) == pc[t] \in {"input", "rate", "window", "load", "slot", "count"}

(* A slot is held from the counting of the tokens to the answer and given  *)
(* back on every way out: never more clients than slots, and never a slot  *)
(* that nobody holds and nobody may take.                                  *)
SlotsBalance ==
  permits + Cardinality({t \in Tasks : HoldsSlot(t)}) = MaxConcurrent

(* The session's budget is read long before the call is counted, so        *)
(* requests already past the check may exceed it: by all but one of the    *)
(* callers that run at once, and never by more.                            *)
OvershootBounded ==
  MaxCalls > 0 => calls_made < MaxCalls + Cardinality(Tasks)

(* Tokens are looked at before the wait for a slot and charged after it,   *)
(* outside the window's mutex, so that a reset may wipe them or they may   *)
(* fall into the next period.  Even so no period lets in, and none is      *)
(* charged, more than its budget and one request of each caller.           *)
TokensBounded ==
  MaxTokens > 0 =>
    /\ let_in < MaxTokens + Tokens * Cardinality(Tasks)
    /\ window_tokens < MaxTokens + Tokens * Cardinality(Tasks)

(* Each request is counted once, under the one check that refused it or as *)
(* a call, and each call that came back as one response.                   *)
EveryRequestCountedOnce ==
  /\ blocked_budget + blocked_rate + blocked_injection + calls_made
       = requests - Cardinality({t \in Tasks : Uncounted(t)})
  /\ total_responses = calls_made - Cardinality({t \in Tasks : pc[t] = "client"})

(* The rate limit as the code keeps it: a fixed window, so two of them can *)
(* meet in any span of one window's length, and no more can: of 2 * RateMax*)
(* requests let in one after the other, the last comes more than a window  *)
(* after the first.                                                        *)
RateAtMostTwoWindows ==
  \A i, j \in 1..Len(admitted) :
    j - i = 2 * RateMax - 1 => admitted[j] - admitted[i] > RateWindow

(* An answer of the client is in the ledger before the caller sees it,     *)
(* under a receipt no other caller holds; a refused or failed request      *)
(* holds none.  An entry stands for one response: what the gateway refuses *)
(* itself, an injection too, leaves no trace in the ledger.                *)
AnswersAreAudited ==
  /\ \A t \in Tasks :
       /\ answer[t] \in {"HIGH", "LOW"} =>
            /\ Len(receipt[t]) \in 1..Len(entries)
            /\ entries[Len(receipt[t])] = answer[t]
            /\ \A u \in Tasks \ {t} : receipt[u] # receipt[t]
       /\ answer[t] \in {"BLOCKED", "ERROR"} => receipt[t] = <<>>
  /\ Len(entries) <= total_responses

(* Every request that was made is answered.                                *)
RequestsReturn == \A t \in Tasks : pc[t] # "idle" ~> pc[t] = "idle"
=============================================================================
