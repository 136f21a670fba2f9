--------------------------- MODULE AiGatewayProofs --------------------------
(***************************************************************************)
(* What holds of the gateway for any number of callers, slots and requests *)
(* and any budgets: slots, budgets, counters and the ledger's entries.     *)
(***************************************************************************)
EXTENDS AiGateway, FiniteSetTheorems, TLAPS

-----------------------------------------------------------------------------
(* The invariants count the callers that stand in certain places.  A step  *)
(* moves one caller, so a count changes by what that one adds to it.       *)

Count(at, places) == Cardinality({t \in Tasks : at[t] \in places})

LEMMA CountBounds ==
  ASSUME NEW at, NEW places
  PROVE  /\ Count(at, places) \in 0..Cardinality(Tasks)
         /\ Cardinality(Tasks) \in Nat
<1> DEFINE S == {t \in Tasks : at[t] \in places}
<1>1. IsFiniteSet(Tasks) /\ S \in SUBSET Tasks
  BY GatewayAssumption
<1>2. IsFiniteSet(S) /\ Cardinality(S) <= Cardinality(Tasks)
  BY <1>1, FS_Subset
<1>3. Cardinality(S) \in Nat /\ Cardinality(Tasks) \in Nat
  BY <1>1, <1>2, FS_CardinalityType
<1>4. QED
  BY <1>2, <1>3 DEF Count

(* A caller that stands elsewhere is missing from the count.               *)
LEMMA CountMisses ==
  ASSUME NEW at, NEW places, NEW t \in Tasks, at[t] \notin places
  PROVE  Count(at, places) < Cardinality(Tasks)
<1> DEFINE S == {u \in Tasks : at[u] \in places}
<1>1. IsFiniteSet(Tasks) /\ S \in SUBSET Tasks /\ S # Tasks
  BY GatewayAssumption
<1>2. Cardinality(S) <= Cardinality(Tasks) /\ Cardinality(S) # Cardinality(Tasks)
  BY <1>1, FS_Subset
<1>3. QED
  BY <1>2, CountBounds DEF Count

LEMMA CountMoves ==
  ASSUME NEW at, NEW after, NEW t \in Tasks, NEW places,
         \A u \in Tasks \ {t} : after[u] = at[u]
  PROVE  /\ (at[t] \in places <=> after[t] \in places) =>
                Count(after, places) = Count(at, places)
         /\ at[t] \in places /\ after[t] \notin places =>
                Count(after, places) = Count(at, places) - 1
         /\ at[t] \notin places /\ after[t] \in places =>
                Count(after, places) = Count(at, places) + 1
<1> DEFINE S == {u \in Tasks : at[u] \in places}
           T == {u \in Tasks : after[u] \in places}
<1>1. IsFiniteSet(S)
  <2>1. IsFiniteSet(Tasks) /\ S \in SUBSET Tasks
    BY GatewayAssumption
  <2>2. QED
    BY <2>1, FS_Subset
<1>2. CASE at[t] \in places <=> after[t] \in places
  <2>1. T = S
    BY <1>2
  <2>2. QED
    BY <2>1, <1>2 DEF Count
<1>3. CASE at[t] \in places /\ after[t] \notin places
  <2>1. T = S \ {t} /\ t \in S
    BY <1>3
  <2>2. QED
    BY <1>1, <1>3, <2>1, FS_RemoveElement DEF Count
<1>4. CASE at[t] \notin places /\ after[t] \in places
  <2>1. T = S \cup {t} /\ t \notin S
    BY <1>4
  <2>2. QED
    BY <1>1, <1>4, <2>1, FS_AddElement DEF Count
<1>5. QED
  BY <1>2, <1>3, <1>4

LEMMA GotoCounts ==
  ASSUME pc \in [Tasks -> PC], NEW t \in Tasks, NEW from, NEW to, Goto(t, from, to),
         NEW places
  PROVE  /\ (from \in places <=> to \in places) =>
                Count(pc', places) = Count(pc, places)
         /\ from \in places /\ to \notin places =>
                Count(pc', places) = Count(pc, places) - 1
         /\ from \notin places /\ to \in places =>
                Count(pc', places) = Count(pc, places) + 1
<1>1. pc[t] = from /\ pc'[t] = to
  BY DEF Goto
<1>2. \A u \in Tasks \ {t} : pc'[u] = pc[u]
  BY DEF Goto
<1>3. QED
  BY ONLY <1>1, <1>2, t \in Tasks, CountMoves

-----------------------------------------------------------------------------
(* Types and slots go together: that a slot given back still fits is what  *)
(* the balance says.                                                       *)

Slot == {"count", "client"}

Balanced == TypeOK /\ permits + Count(pc, Slot) = MaxConcurrent

LEMMA BalancedInit == Init => Balanced
<1> SUFFICES ASSUME Init PROVE Balanced
  OBVIOUS
<1>1. TypeOK
  BY GatewayAssumption DEF Init, TypeOK, PC, Texts, AIConfidence, Ledger!Init, Ledger!NoReceipt
<1>2. {t \in Tasks : pc[t] \in Slot} = {}
  BY DEF Init, Slot
<1>3. Count(pc, Slot) = 0
  BY <1>2, FS_EmptySet DEF Count
<1>4. QED
  BY <1>1, <1>3, GatewayAssumption DEF Balanced, Init

(* What each way out of a check does to the caller and the ledger.         *)
LEMMA BlockedType ==
  ASSUME TypeOK, NEW t \in Tasks, NEW from, Blocked(t, from)
  PROVE  /\ pc' \in [Tasks -> PC]
         /\ answer' \in [Tasks -> AIConfidence \cup {"ERROR", NULL}]
         /\ entries' = entries /\ durable' = durable
         /\ receipt' \in [Tasks -> Seq(AIConfidence)]
BY DEF TypeOK, Blocked, Goto, PC, AIConfidence, Ledger!Decline, Ledger!NoReceipt

LEMMA PassedType ==
  ASSUME TypeOK, NEW t \in Tasks, NEW from, NEW to \in PC, Passed(t, from, to)
  PROVE  /\ pc' \in [Tasks -> PC]
         /\ UNCHANGED <<answer, entries, durable, receipt>>
BY DEF TypeOK, Passed, Goto, ledger
LEMMA BalancedInductive == Balanced /\ [Next]_vars => Balanced'
<1> SUFFICES ASSUME Balanced, [Next]_vars PROVE Balanced'
  OBVIOUS
<1> USE GatewayAssumption DEF Balanced, TypeOK
<1>0. ASSUME NEW t \in Tasks, NEW from, NEW to, Goto(t, from, to),
             from \notin Slot, to \notin Slot
      PROVE  Count(pc', Slot) = Count(pc, Slot)
  BY <1>0, GotoCounts
<1>s. /\ "idle" \notin Slot /\ "input" \notin Slot /\ "rate" \notin Slot
      /\ "window" \notin Slot /\ "load" \notin Slot /\ "slot" \notin Slot
      /\ "count" \in Slot /\ "client" \in Slot
      /\ PC = {"idle", "input", "rate", "window", "load", "slot"} \cup Slot
  BY DEF Slot, PC
<1>b. ASSUME NEW t \in Tasks, NEW from, Blocked(t, from), from \notin Slot
      PROVE  /\ pc' \in [Tasks -> PC]
             /\ answer' \in [Tasks -> AIConfidence \cup {"ERROR", NULL}]
             /\ entries' = entries /\ durable' = durable
             /\ receipt' \in [Tasks -> Seq(AIConfidence)]
             /\ Count(pc', Slot) = Count(pc, Slot)
  BY <1>0, <1>s, <1>b, BlockedType DEF Blocked
<1>p. ASSUME NEW t \in Tasks, NEW from, NEW to \in PC, Passed(t, from, to),
             from \notin Slot, to \notin Slot
      PROVE  /\ pc' \in [Tasks -> PC]
             /\ UNCHANGED <<answer, entries, durable, receipt>>
             /\ Count(pc', Slot) = Count(pc, Slot)
  BY <1>0, <1>p, PassedType DEF Passed
<1>1. ASSUME NEW t \in Tasks, NEW said \in Texts, check_budget(t, said)
      PROVE  Balanced'
  <2>1. /\ UNCHANGED <<calls_made, blocked_rate, blocked_injection, total_responses,
                       rate_limit_state, window_start, window_tokens, permits, clock,
                       admitted, let_in>>
        /\ requests' = requests + 1 /\ requests < MaxRequests
        /\ text' = [text EXCEPT ![t] = said]
    BY <1>1 DEF check_budget, windows
  <2>a. requests' \in 0..MaxRequests /\ text' \in [Tasks -> Texts]
    BY <2>1
  <2>2. CASE Blocked(t, "idle") /\ blocked_budget' = blocked_budget + 1
    BY <1>b, <1>s, <2>1, <2>a, <2>2
  <2>3. CASE Passed(t, "idle", "input") /\ UNCHANGED blocked_budget
    BY <1>p, <1>s, <2>1, <2>a, <2>3
  <2>4. QED
    BY <1>1, <2>2, <2>3 DEF check_budget
<1>2. ASSUME NEW t \in Tasks, check_input(t)
      PROVE  Balanced'
  <2>1. UNCHANGED <<text, calls_made, blocked_budget, blocked_rate, total_responses,
                    rate_limit_state, window_start, window_tokens, permits, clock,
                    requests, admitted, let_in>>
    BY <1>2 DEF check_input, windows, history
  <2>2. CASE Blocked(t, "input") /\ blocked_injection' = blocked_injection + 1
    BY <1>b, <1>s, <2>1, <2>2
  <2>3. CASE Passed(t, "input", "rate") /\ UNCHANGED blocked_injection
    BY <1>p, <1>s, <2>1, <2>3
  <2>4. QED
    BY <1>2, <2>2, <2>3 DEF check_input
<1>3. ASSUME NEW t \in Tasks, check_rate_limit(t)
      PROVE  Balanced'
  <2>1. UNCHANGED <<text, calls_made, blocked_budget, blocked_injection, total_responses,
                    window_start, window_tokens, permits, clock, requests, let_in>>
    BY <1>3 DEF check_rate_limit
  <2>2. CASE /\ Blocked(t, "rate") /\ blocked_rate' = blocked_rate + 1
             /\ UNCHANGED <<rate_limit_state, admitted>>
    BY <1>b, <1>s, <2>1, <2>2
  <2>3. CASE /\ Passed(t, "rate", "window") /\ UNCHANGED blocked_rate
             /\ rate_limit_state' \in (0..MaxClock) \X (1..RateMax)
             /\ admitted' \in Seq(0..MaxClock)
    BY <1>p, <1>s, <2>1, <2>3
  <2>4. ASSUME ~RateWindowFull
        PROVE  (IF RateWindowOver THEN <<clock, 1>>
                ELSE <<rate_limit_state[1], rate_limit_state[2] + 1>>)
                  \in (0..MaxClock) \X (1..RateMax)
    <3>1. CASE RateWindowOver
      BY <3>1
    <3>2. CASE ~RateWindowOver
      <4>1. /\ rate_limit_state \in (0..MaxClock) \X (1..RateMax)
            /\ rate_limit_state[2] < RateMax
        BY <2>4, <3>2 DEF RateWindowFull, RateWindowOver
      <4>2. QED
        BY <3>2, <4>1
    <3>3. QED
      BY <3>1, <3>2
  <2>5. Append(admitted, clock) \in Seq(0..MaxClock)
    OBVIOUS
  <2>6. QED
    BY <1>3, <2>2, <2>3, <2>4, <2>5 DEF check_rate_limit
<1>4. ASSUME NEW t \in Tasks, ResetWindow(t)
      PROVE  Balanced'
  <2>1. Count(pc', Slot) = Count(pc, Slot)
    BY <1>0, <1>s, <1>4 DEF ResetWindow
  <2>2. QED
    BY <1>4, <2>1 DEF ResetWindow, counters, ledger, Goto, PC
<1>5. ASSUME NEW t \in Tasks, check_window_budget(t)
      PROVE  Balanced'
  <2>1. UNCHANGED <<text, calls_made, blocked_rate, blocked_injection, total_responses,
                    rate_limit_state, window_start, window_tokens, permits, clock,
                    requests, admitted>>
    BY <1>5 DEF check_window_budget, windows
  <2>2. ASSUME NEW at \in {"window", "load"}, Blocked(t, at),
               blocked_budget' = blocked_budget + 1, UNCHANGED let_in
        PROVE  Balanced'
    BY <1>b, <1>s, <2>1, <2>2
  <2>3. ASSUME NEW at \in {"window", "load"}, Passed(t, at, "slot"),
               let_in' = let_in + Tokens, UNCHANGED blocked_budget
        PROVE  Balanced'
    BY <1>p, <1>s, <2>1, <2>3
  <2>4. QED
    BY <1>5, <2>2, <2>3 DEF check_window_budget
<1>6. ASSUME NEW t \in Tasks, AcquireSlot(t)
      PROVE  Balanced'
  <2>1. Count(pc', Slot) = Count(pc, Slot) + 1
    <3>1. Goto(t, "slot", "count")
      BY <1>6 DEF AcquireSlot
    <3>2. QED
      BY <3>1, <1>s, GotoCounts
  <2>2. permits' \in 0..MaxConcurrent /\ permits' + Count(pc', Slot) = MaxConcurrent
    BY <1>6, <2>1, CountBounds DEF AcquireSlot
  <2>3. pc' \in [Tasks -> PC]
    BY <1>6 DEF AcquireSlot, Goto, PC
  <2>4. QED
    BY <1>6, <2>2, <2>3 DEF AcquireSlot, counters, ledger, history
<1>7. ASSUME NEW t \in Tasks, CountCall(t)
      PROVE  Balanced'
  <2>1. Count(pc', Slot) = Count(pc, Slot)
    BY <1>7, <1>s, GotoCounts DEF CountCall
  <2>2. QED
    BY <1>7, <2>1 DEF CountCall, windows, ledger, history, Goto, PC
<1>8. ASSUME NEW t \in Tasks, NEW what \in AIConfidence \cup {"ERROR"}, Respond(t, what),
             entries' \in Seq(AIConfidence), durable' \in 0..Len(entries'),
             receipt' \in [Tasks -> Seq(AIConfidence)]
      PROVE  Balanced'
  <2>1. Count(pc', Slot) = Count(pc, Slot) - 1
    BY <1>8, <1>s, GotoCounts DEF Respond
  <2>2. Count(pc, Slot) \in Nat /\ Count(pc', Slot) \in Nat
    BY CountBounds
  <2>3. permits' \in 0..MaxConcurrent /\ permits' + Count(pc', Slot) = MaxConcurrent
    BY <1>8, <2>1, <2>2 DEF Respond
  <2>4. pc' \in [Tasks -> PC]
    BY <1>8 DEF Respond, Goto, PC
  <2>5. answer' \in [Tasks -> AIConfidence \cup {"ERROR", NULL}]
    BY <1>8 DEF Respond
  <2>6. /\ total_responses' \in Nat
        /\ UNCHANGED <<text, calls_made, blocked_budget, blocked_rate, blocked_injection,
                       rate_limit_state, window_start, window_tokens, clock, requests,
                       admitted, let_in>>
    BY <1>8 DEF Respond, windows, history
  <2>7. QED
    BY <1>8, <2>3, <2>4, <2>5, <2>6
<1>9. ASSUME NEW t \in Tasks, ClientAnswers(t)
      PROVE  Balanced'
  <2>1. PICK confidence \in AIConfidence :
               Ledger!Record(t, confidence) /\ Respond(t, confidence)
    BY <1>9 DEF ClientAnswers, AIConfidence
  <2>2. /\ entries' \in Seq(AIConfidence) /\ durable' \in 0..Len(entries')
        /\ receipt' \in [Tasks -> Seq(AIConfidence)]
    BY <2>1 DEF Ledger!Record
  <2>3. QED
    BY <1>8, <2>1, <2>2
<1>10. ASSUME NEW t \in Tasks, ClientFails(t)
       PROVE  Balanced'
  <2>1. /\ entries' \in Seq(AIConfidence) /\ durable' \in 0..Len(entries')
        /\ receipt' \in [Tasks -> Seq(AIConfidence)]
    BY <1>10 DEF ClientFails, Ledger!Decline, Ledger!NoReceipt
  <2>2. QED
    BY <1>8, <1>10, <2>1 DEF ClientFails
<1>11. CASE Tick
  BY <1>11 DEF Tick, counters, windows, ledger, history
<1>12. CASE UNCHANGED vars
  BY <1>12 DEF vars, counters, windows, ledger, history
<1>13. QED
  BY <1>1, <1>2, <1>3, <1>4, <1>5, <1>6, <1>7, <1>9, <1>10, <1>11, <1>12 DEF Next, Step

LEMMA BalancedAlways == Spec => []Balanced
BY BalancedInit, BalancedInductive, PTL DEF Spec

(* Every variable of the gateway keeps its type; in particular a rate      *)
(* window never takes more than RateMax requests, and no more slots are    *)
(* given back than were taken.                                             *)
THEOREM TypeCorrect == Spec => []TypeOK
BY BalancedAlways, PTL DEF Balanced

(* However many callers, slots and failures: a slot is free or held by     *)
(* exactly one request (ai_gateway.rs takes it with acquire and gives it   *)
(* back when the permit is dropped).                                       *)
THEOREM SlotsAlwaysBalance == Spec => []SlotsBalance
<1>1. Balanced => SlotsBalance
  BY DEF Balanced, SlotsBalance, Count, Slot, HoldsSlot
<1>2. QED
  BY <1>1, BalancedAlways, PTL

-----------------------------------------------------------------------------
(* The counters of the session.  A request between the check of the budget *)
(* and the counting of its call is in Past; each stands for a caller, so   *)
(* there are never more of them than callers, which bounds by how much     *)
(* they exceed the budget together.                                        *)

Past == {"input", "rate", "window", "load", "slot", "count"}
AtClient  == {"client"}

Accounts ==
  /\ blocked_budget + blocked_rate + blocked_injection + calls_made + Count(pc, Past)
       = requests
  /\ total_responses + Count(pc, AtClient) = calls_made
  /\ MaxCalls > 0 => calls_made + Count(pc, Past) < MaxCalls + Cardinality(Tasks)

LEMMA AccountsInit == Init => Accounts
<1> SUFFICES ASSUME Init PROVE Accounts
  OBVIOUS
<1>1. {t \in Tasks : pc[t] \in Past} = {} /\ {t \in Tasks : pc[t] \in AtClient} = {}
  BY DEF Init, Past, AtClient
<1>2. Count(pc, Past) = 0 /\ Count(pc, AtClient) = 0
  BY <1>1, FS_EmptySet DEF Count
<1>3. QED
  BY <1>2, CountBounds, GatewayAssumption DEF Init, Accounts

LEMMA AccountsInductive == Balanced /\ Accounts /\ [Next]_vars => Accounts'
<1> SUFFICES ASSUME Balanced, Accounts, [Next]_vars PROVE Accounts'
  OBVIOUS
<1>1. /\ pc \in [Tasks -> PC]
      /\ calls_made \in Nat /\ blocked_budget \in Nat /\ blocked_rate \in Nat
      /\ blocked_injection \in Nat /\ total_responses \in Nat /\ requests \in Nat
      /\ MaxCalls \in Nat
  BY GatewayAssumption DEF Balanced, TypeOK
<1>2. /\ Count(pc, Past) \in Nat /\ Count(pc', Past) \in Nat
      /\ Count(pc, AtClient) \in Nat /\ Count(pc', AtClient) \in Nat
      /\ Cardinality(Tasks) \in Nat /\ Count(pc', Past) <= Cardinality(Tasks)
  BY CountBounds
<1>3. /\ "idle" \notin Past /\ "input" \in Past /\ "rate" \in Past /\ "window" \in Past
      /\ "load" \in Past /\ "slot" \in Past /\ "count" \in Past /\ "client" \notin Past
      /\ "client" \in AtClient /\ \A at \in Past \cup {"idle"} : at \notin AtClient
  BY DEF Past, AtClient
<1>4. /\ blocked_budget + blocked_rate + blocked_injection + calls_made
             + Count(pc, Past) = requests
      /\ total_responses + Count(pc, AtClient) = calls_made
      /\ MaxCalls > 0 => calls_made + Count(pc, Past) < MaxCalls + Cardinality(Tasks)
  BY DEF Accounts
<1>5. ASSUME NEW t \in Tasks, NEW from \in Past, Blocked(t, from),
             UNCHANGED <<calls_made, total_responses, requests>>,
             blocked_budget' + blocked_rate' + blocked_injection'
               = blocked_budget + blocked_rate + blocked_injection + 1
      PROVE  Accounts'
  <2>1. Count(pc', Past) = Count(pc, Past) - 1 /\ Count(pc', AtClient) = Count(pc, AtClient)
    BY <1>1, <1>3, <1>5, GotoCounts DEF Blocked
  <2>2. /\ blocked_budget' + blocked_rate' + blocked_injection' + calls_made'
              + Count(pc', Past) = requests'
    BY <1>1, <1>2, <1>4, <1>5, <2>1
  <2>3. QED
    BY <1>1, <1>2, <1>4, <1>5, <2>1, <2>2 DEF Accounts
<1>6. ASSUME NEW t \in Tasks, NEW from \in Past, NEW to \in Past, Goto(t, from, to),
             UNCHANGED <<calls_made, total_responses, requests, blocked_budget,
                         blocked_rate, blocked_injection>>
      PROVE  Accounts'
  <2>1. Count(pc', Past) = Count(pc, Past) /\ Count(pc', AtClient) = Count(pc, AtClient)
    BY <1>1, <1>3, <1>6, GotoCounts
  <2>2. QED
    BY <1>4, <1>6, <2>1 DEF Accounts
<1>7. ASSUME NEW t \in Tasks, NEW said \in Texts, check_budget(t, said)
      PROVE  Accounts'
  <2>1. UNCHANGED <<calls_made, blocked_rate, blocked_injection, total_responses>>
        /\ requests' = requests + 1
    BY <1>7 DEF check_budget
  <2>2. CASE Blocked(t, "idle") /\ blocked_budget' = blocked_budget + 1
    <3>1. Count(pc', Past) = Count(pc, Past) /\ Count(pc', AtClient) = Count(pc, AtClient)
      BY <1>1, <1>3, <2>2, GotoCounts DEF Blocked
    <3>2. QED
      BY <1>1, <1>2, <1>4, <2>1, <2>2, <3>1 DEF Accounts
  <2>3. CASE ~OverBudget(said) /\ Passed(t, "idle", "input") /\ UNCHANGED blocked_budget
    <3>1. Count(pc', Past) = Count(pc, Past) + 1 /\ Count(pc', AtClient) = Count(pc, AtClient)
      BY <1>1, <1>3, <2>3, GotoCounts DEF Passed
    <3>2. calls_made < MaxCalls
      BY <1>1, <2>3 DEF OverBudget
    <3>3. QED
      BY <1>1, <1>2, <1>4, <2>1, <2>3, <3>1, <3>2 DEF Accounts
  <2>4. QED
    BY <1>7, <2>2, <2>3 DEF check_budget
<1>8. ASSUME NEW t \in Tasks, check_input(t)
      PROVE  Accounts'
  BY <1>1, <1>3, <1>5, <1>6, <1>8 DEF check_input, history, Passed
<1>9. ASSUME NEW t \in Tasks, check_rate_limit(t)
      PROVE  Accounts'
  BY <1>1, <1>3, <1>5, <1>6, <1>9 DEF check_rate_limit, Passed
<1>10. ASSUME NEW t \in Tasks, ResetWindow(t)
       PROVE  Accounts'
  BY <1>3, <1>6, <1>10 DEF ResetWindow, counters
<1>11. ASSUME NEW t \in Tasks, check_window_budget(t)
       PROVE  Accounts'
  BY <1>1, <1>3, <1>5, <1>6, <1>11 DEF check_window_budget, Passed
<1>12. ASSUME NEW t \in Tasks, AcquireSlot(t)
       PROVE  Accounts'
  BY <1>3, <1>6, <1>12 DEF AcquireSlot, counters, history
<1>13. ASSUME NEW t \in Tasks, CountCall(t)
       PROVE  Accounts'
  <2>1. Count(pc', Past) = Count(pc, Past) - 1 /\ Count(pc', AtClient) = Count(pc, AtClient) + 1
    BY <1>1, <1>3, <1>13, GotoCounts DEF CountCall
  <2>2. QED
    BY <1>1, <1>2, <1>4, <1>13, <2>1 DEF CountCall, history, Accounts
<1>14. ASSUME NEW t \in Tasks, NEW what, Respond(t, what)
       PROVE  Accounts'
  <2>1. Count(pc', Past) = Count(pc, Past) /\ Count(pc', AtClient) = Count(pc, AtClient) - 1
    BY <1>1, <1>3, <1>14, GotoCounts DEF Respond
  <2>2. QED
    BY <1>1, <1>2, <1>4, <1>14, <2>1 DEF Respond, history, Accounts
<1>15. CASE Tick
  BY <1>4, <1>15 DEF Tick, counters, history, Accounts
<1>16. CASE UNCHANGED vars
  BY <1>4, <1>16 DEF vars, counters, history, Accounts
<1>17. QED
  BY <1>7, <1>8, <1>9, <1>10, <1>11, <1>12, <1>13, <1>14, <1>15, <1>16
     DEF Next, Step, ClientAnswers, ClientFails

LEMMA AccountsAlways == Spec => []Accounts
BY AccountsInit, BalancedAlways, AccountsInductive, PTL DEF Spec

(* Each request is counted once, by the check that refused it or as a call,*)
(* and each call that came back once, on every path through                *)
(* process_ai_request.                                                     *)
THEOREM RequestsCountedOnce == Spec => []EveryRequestCountedOnce
<1>1. Balanced /\ Accounts => EveryRequestCountedOnce
  <2> SUFFICES ASSUME Balanced, Accounts PROVE EveryRequestCountedOnce
    OBVIOUS
  <2>1. /\ {t \in Tasks : Uncounted(t)} = {t \in Tasks : pc[t] \in Past}
        /\ {t \in Tasks : pc[t] = "client"} = {t \in Tasks : pc[t] \in AtClient}
    BY DEF Uncounted, Past, AtClient
  <2>2. /\ Count(pc, Past) \in Nat /\ Count(pc, AtClient) \in Nat
        /\ calls_made \in Nat /\ blocked_budget \in Nat /\ blocked_rate \in Nat
        /\ blocked_injection \in Nat /\ total_responses \in Nat
    BY CountBounds DEF Balanced, TypeOK
  <2>3. /\ Cardinality({t \in Tasks : Uncounted(t)}) = Count(pc, Past)
        /\ Cardinality({t \in Tasks : pc[t] = "client"}) = Count(pc, AtClient)
    BY <2>1 DEF Count
  <2>4. QED
    BY <2>2, <2>3 DEF Accounts, EveryRequestCountedOnce
<1>2. QED
  BY <1>1, BalancedAlways, AccountsAlways, PTL

(* The session's budget of calls is exceeded by fewer calls than there are *)
(* callers, whatever the order in which they pass the check of             *)
(* ai_gateway.rs:75-95 and are counted.                                    *)
THEOREM OvershootAlwaysBounded == Spec => []OvershootBounded
<1>1. Balanced /\ Accounts => OvershootBounded
  <2>1. /\ Count(pc, Past) \in Nat /\ Cardinality(Tasks) \in Nat
        /\ MaxCalls \in Nat
    BY CountBounds, GatewayAssumption
  <2>2. SUFFICES ASSUME Balanced, Accounts, MaxCalls > 0
                 PROVE  calls_made < MaxCalls + Cardinality(Tasks)
    BY DEF OvershootBounded
  <2>3. calls_made \in Nat /\ calls_made + Count(pc, Past) < MaxCalls + Cardinality(Tasks)
    BY <2>2 DEF Balanced, TypeOK, Accounts
  <2>4. QED
    BY <2>1, <2>3
<1>2. QED
  BY <1>1, BalancedAlways, AccountsAlways, PTL
-----------------------------------------------------------------------------
(* The token budget.  A request in Uncharged has passed the check and is not yet *)
(* charged: what it will add to the counter is bounded as the overshoot of *)
(* calls is, and a reset of the window in between takes nothing from that  *)
(* bound.                                                                  *)

Uncharged == {"slot"}

Charges ==
  MaxTokens > 0 =>
    /\ window_tokens + Tokens * Count(pc, Uncharged) < MaxTokens + Tokens * Cardinality(Tasks)
    /\ let_in <= window_tokens + Tokens * Count(pc, Uncharged)

LEMMA OneMore ==
  ASSUME NEW n \in Nat
  PROVE  /\ Tokens * n \in Nat
         /\ Tokens * (n + 1) = Tokens * n + Tokens
         /\ \A m \in Nat : n <= m => Tokens * n <= Tokens * m
<1>1. Tokens \in Nat
  BY GatewayAssumption
<1>2. ASSUME NEW m \in Nat, n <= m PROVE Tokens * n <= Tokens * m
  <2>1. m - n \in Nat /\ m = n + (m - n)
    BY <1>2
  <2>2. Tokens * m = Tokens * n + Tokens * (m - n) /\ Tokens * (m - n) \in Nat
    BY <1>1, <2>1
  <2>3. QED
    BY <1>1, <2>2
<1>3. QED
  BY <1>1, <1>2

LEMMA ChargesInit == Init => Charges
<1> SUFFICES ASSUME Init PROVE Charges
  OBVIOUS
<1>1. {t \in Tasks : pc[t] \in Uncharged} = {}
  BY DEF Init, Uncharged
<1>2. Count(pc, Uncharged) = 0
  BY <1>1, FS_EmptySet DEF Count
<1>3. Tokens * 0 = 0 /\ Tokens * Cardinality(Tasks) \in Nat
  <2>1. Tokens \in Nat /\ Cardinality(Tasks) \in Nat
    BY CountBounds, GatewayAssumption
  <2>2. QED
    BY <2>1
<1>4. QED
  BY <1>2, <1>3, GatewayAssumption DEF Init, Charges

LEMMA ChargesInductive == Balanced /\ Charges /\ [Next]_vars => Charges'
<1> SUFFICES ASSUME Balanced, Charges, [Next]_vars, MaxTokens > 0 PROVE Charges'
  BY DEF Charges
<1> DEFINE owed == Tokens * Count(pc, Uncharged)
           all  == Tokens * Cardinality(Tasks)
<1>1. /\ pc \in [Tasks -> PC] /\ window_tokens \in Nat /\ let_in \in Nat
      /\ MaxTokens \in Nat /\ Tokens \in Nat
  BY GatewayAssumption DEF Balanced, TypeOK
<1>2. owed \in Nat /\ owed' \in Nat /\ owed' <= all /\ all \in Nat
  <2>1. /\ Count(pc, Uncharged) \in Nat /\ Count(pc', Uncharged) \in Nat
        /\ Cardinality(Tasks) \in Nat /\ Count(pc', Uncharged) <= Cardinality(Tasks)
    BY CountBounds
  <2>2. QED
    BY <2>1, OneMore
<1>3. window_tokens + owed < MaxTokens + all /\ let_in <= window_tokens + owed
  BY DEF Charges
<1>4. ASSUME NEW t \in Tasks, NEW from, NEW to, Goto(t, from, to),
             from \notin Uncharged, to \notin Uncharged
      PROVE  owed' = owed
  BY <1>1, <1>4, GotoCounts
<1>5. /\ "idle" \notin Uncharged /\ "input" \notin Uncharged /\ "rate" \notin Uncharged
      /\ "window" \notin Uncharged /\ "load" \notin Uncharged /\ "slot" \in Uncharged
      /\ "count" \notin Uncharged /\ "client" \notin Uncharged
  BY DEF Uncharged
<1> HIDE DEF owed, all
<1>6. ASSUME owed' = owed, UNCHANGED <<window_tokens, let_in>> PROVE Charges'
  BY <1>3, <1>6 DEF Charges, owed, all
<1>7. ASSUME NEW t \in Tasks, NEW said \in Texts, check_budget(t, said) PROVE Charges'
  BY <1>4, <1>5, <1>6, <1>7 DEF check_budget, windows, Blocked, Passed
<1>8. ASSUME NEW t \in Tasks, check_input(t) PROVE Charges'
  BY <1>4, <1>5, <1>6, <1>8 DEF check_input, windows, history, Blocked, Passed
<1>9. ASSUME NEW t \in Tasks, check_rate_limit(t) PROVE Charges'
  BY <1>4, <1>5, <1>6, <1>9 DEF check_rate_limit, Blocked, Passed
<1>10. ASSUME NEW t \in Tasks, ResetWindow(t) PROVE Charges'
  <2>1. pc'[t] \notin Uncharged
    BY <1>1, <1>5, <1>10 DEF ResetWindow, Goto
  <2>2. Count(pc', Uncharged) < Cardinality(Tasks)
    BY <2>1, CountMisses
  <2>3. window_tokens' = 0 /\ let_in' = 0
    BY <1>10 DEF ResetWindow
  <2>4. QED
    BY <1>1, <1>2, <2>3 DEF Charges, owed, all
<1>11. ASSUME NEW t \in Tasks, check_window_budget(t) PROVE Charges'
  <2>1. UNCHANGED window_tokens
    BY <1>11 DEF check_window_budget, windows
  <2>2. ASSUME NEW at \in {"window", "load"}, Blocked(t, at), UNCHANGED let_in
        PROVE  Charges'
    BY <1>4, <1>5, <1>6, <2>1, <2>2 DEF Blocked
  <2>3. ASSUME NEW at \in {"window", "load"}, Passed(t, at, "slot"),
               window_tokens < MaxTokens, let_in' = let_in + Tokens
        PROVE  Charges'
    <3>1. Count(pc', Uncharged) = Count(pc, Uncharged) + 1
      BY <1>1, <1>5, <2>3, GotoCounts DEF Passed
    <3>2. owed' = owed + Tokens
      BY <3>1, CountBounds, OneMore DEF owed
    <3>3. QED
      BY <1>1, <1>2, <1>3, <2>1, <2>3, <3>2 DEF Charges, owed, all
  <2>4. QED
    BY <1>11, <2>2, <2>3 DEF check_window_budget
<1>12. ASSUME NEW t \in Tasks, AcquireSlot(t) PROVE Charges'
  <2>1. window_tokens' = window_tokens + Tokens /\ let_in' = let_in
    BY <1>12 DEF AcquireSlot, history
  <2>2. Count(pc, Uncharged) = Count(pc', Uncharged) + 1
    <3>1. Count(pc', Uncharged) = Count(pc, Uncharged) - 1
      BY <1>1, <1>5, <1>12, GotoCounts DEF AcquireSlot
    <3>2. QED
      BY <3>1, CountBounds
  <2>3. owed = owed' + Tokens
    BY <2>2, CountBounds, OneMore DEF owed
  <2>4. QED
    BY <1>1, <1>2, <1>3, <2>1, <2>3 DEF Charges, owed, all
<1>13. ASSUME NEW t \in Tasks, CountCall(t) PROVE Charges'
  BY <1>4, <1>5, <1>6, <1>13 DEF CountCall, windows, history
<1>14. ASSUME NEW t \in Tasks, NEW what, Respond(t, what) PROVE Charges'
  BY <1>4, <1>5, <1>6, <1>14 DEF Respond, windows, history
<1>15. CASE Tick
  BY <1>6, <1>15 DEF Tick, windows, history, owed
<1>16. CASE UNCHANGED vars
  BY <1>6, <1>16 DEF vars, windows, history, owed
<1>17. QED
  BY <1>7, <1>8, <1>9, <1>10, <1>11, <1>12, <1>13, <1>14, <1>15, <1>16
     DEF Next, Step, ClientAnswers, ClientFails

LEMMA ChargesAlways == Spec => []Charges
BY ChargesInit, BalancedAlways, ChargesInductive, PTL DEF Spec

(* In no period is more let in or charged than the budget and one request  *)
(* of each caller, though the tokens are added outside the window's mutex  *)
(* (ai_gateway.rs:120-146 and the fetch_add after acquire).                *)
THEOREM TokensAlwaysBounded == Spec => []TokensBounded
<1>1. Balanced /\ Charges => TokensBounded
  <2> SUFFICES ASSUME Balanced, Charges, MaxTokens > 0 PROVE TokensBounded
    BY DEF TokensBounded
  <2>1. /\ Tokens * Count(pc, Uncharged) \in Nat /\ Tokens * Cardinality(Tasks) \in Nat
        /\ MaxTokens \in Nat /\ window_tokens \in Nat /\ let_in \in Nat
    BY CountBounds, OneMore, GatewayAssumption DEF Balanced, TypeOK
  <2>2. QED
    BY <2>1 DEF Charges, TokensBounded
<1>2. QED
  BY <1>1, BalancedAlways, ChargesAlways, PTL

-----------------------------------------------------------------------------
(* The ledger's side.  A receipt names a length of the ledger, and none is *)
(* longer than the ledger, so that a new entry gives a new one; and past   *)
(* check_input no text holds an injection, which the client would audit    *)
(* with a BLOCKED answer.                                                  *)

Past_check_input == {"rate", "window", "load", "slot", "count", "client"}

Audited ==
  /\ AnswersAreAudited
  /\ \A t \in Tasks : Len(receipt[t]) <= Len(entries)
  /\ \A t \in Tasks : pc[t] \in Past_check_input => text[t] # "injection"

LEMMA AuditedInit == Init => Audited
BY GatewayAssumption DEF Init, Audited, AnswersAreAudited, Ledger!Init, Ledger!NoReceipt,
                         Past_check_input
LEMMA AuditedInductive == Balanced /\ Audited /\ [Next]_vars => Audited'
<1> SUFFICES ASSUME Balanced, Audited, [Next]_vars PROVE Audited'
  OBVIOUS
<1>1. /\ pc \in [Tasks -> PC] /\ text \in [Tasks -> Texts]
      /\ answer \in [Tasks -> AIConfidence \cup {"ERROR", NULL}]
      /\ entries \in Seq(AIConfidence) /\ receipt \in [Tasks -> Seq(AIConfidence)]
      /\ total_responses \in Nat
  BY DEF Balanced, TypeOK
<1> DEFINE Sound == \A t \in Tasks : pc[t] \in Past_check_input => text[t] # "injection"
<1>2. ASSUME AnswersAreAudited', Sound',
             \A t \in Tasks : Len(receipt'[t]) <= Len(entries')
      PROVE  Audited'
  BY <1>2 DEF Audited
<1>3. ASSUME NEW t \in Tasks, NEW what \in {"BLOCKED", "ERROR"}, Sound',
             answer' = [answer EXCEPT ![t] = what], Ledger!Decline(t),
             total_responses' \in {total_responses, total_responses + 1}
      PROVE  Audited'
  <2>1. entries' = entries /\ receipt' = [receipt EXCEPT ![t] = <<>>]
    BY <1>3 DEF Ledger!Decline, Ledger!NoReceipt
  <2>2. \A u \in Tasks : Len(receipt'[u]) <= Len(entries')
    BY <1>1, <2>1 DEF Audited
  <2>3. Len(entries') <= total_responses'
    BY <1>1, <1>3, <2>1 DEF Audited, AnswersAreAudited
  <2>4. ASSUME NEW u \in Tasks
        PROVE  /\ answer'[u] \in {"HIGH", "LOW"} =>
                    /\ Len(receipt'[u]) \in 1..Len(entries')
                    /\ entries'[Len(receipt'[u])] = answer'[u]
                    /\ \A v \in Tasks \ {u} : receipt'[v] # receipt'[u]
               /\ answer'[u] \in {"BLOCKED", "ERROR"} => receipt'[u] = <<>>
    <3>1. CASE u = t
      BY <1>1, <1>3, <2>1, <3>1
    <3>2. CASE u # t
      BY <1>1, <1>3, <2>1, <3>2 DEF Audited, AnswersAreAudited
    <3>3. QED
      BY <3>1, <3>2
  <2>5. QED
    BY <1>2, <1>3, <2>2, <2>3, <2>4 DEF AnswersAreAudited
<1>4. ASSUME Sound', UNCHANGED <<answer, entries, receipt, total_responses>>
      PROVE  Audited'
  BY <1>2, <1>4 DEF Audited, AnswersAreAudited
<1>5. ASSUME NEW t \in Tasks, NEW said \in Texts, check_budget(t, said) PROVE Audited'
  <2>1. Sound'
    BY <1>1, <1>5 DEF check_budget, Blocked, Passed, Goto, Audited, Past_check_input
  <2>2. QED
    BY <1>3, <1>4, <1>5, <2>1 DEF check_budget, Blocked, Passed, ledger
<1>6. ASSUME NEW t \in Tasks, check_input(t) PROVE Audited'
  <2>1. Sound'
    BY <1>1, <1>6 DEF check_input, Blocked, Passed, Goto, Audited, Past_check_input
  <2>2. QED
    BY <1>3, <1>4, <1>6, <2>1 DEF check_input, Blocked, Passed, ledger
<1>7. ASSUME NEW t \in Tasks, NEW from \in Past_check_input, NEW to, Goto(t, from, to),
             UNCHANGED text
      PROVE  Sound'
  BY <1>1, <1>7 DEF Goto, Audited
<1>8. /\ "rate" \in Past_check_input /\ "window" \in Past_check_input
      /\ "load" \in Past_check_input /\ "slot" \in Past_check_input
      /\ "count" \in Past_check_input /\ "client" \in Past_check_input
  BY DEF Past_check_input
<1> HIDE DEF Sound
<1>9. ASSUME NEW t \in Tasks, check_rate_limit(t) PROVE Audited'
  BY <1>3, <1>4, <1>7, <1>8, <1>9 DEF check_rate_limit, Blocked, Passed, ledger
<1>10. ASSUME NEW t \in Tasks, ResetWindow(t) PROVE Audited'
  BY <1>4, <1>7, <1>8, <1>10 DEF ResetWindow, counters, ledger
<1>11. ASSUME NEW t \in Tasks, check_window_budget(t) PROVE Audited'
  BY <1>3, <1>4, <1>7, <1>8, <1>11 DEF check_window_budget, Blocked, Passed, ledger
<1>12. ASSUME NEW t \in Tasks, AcquireSlot(t) PROVE Audited'
  BY <1>4, <1>7, <1>8, <1>12 DEF AcquireSlot, counters, ledger
<1>13. ASSUME NEW t \in Tasks, CountCall(t) PROVE Audited'
  BY <1>4, <1>7, <1>8, <1>13 DEF CountCall, ledger
<1>14. ASSUME NEW t \in Tasks, ClientAnswers(t) PROVE Audited'
  <2>1. text[t] # "injection"
    BY <1>8, <1>14 DEF ClientAnswers, Respond, Goto, Audited
  <2>2. PICK confidence \in {"HIGH", "LOW"} :
               Ledger!Record(t, confidence) /\ Respond(t, confidence)
    BY <1>14, <2>1 DEF ClientAnswers
  <2>3. Sound'
    BY <1>7, <1>8, <2>2 DEF Respond
  <2>4. /\ entries' = Append(entries, confidence)
        /\ receipt' = [receipt EXCEPT ![t] = entries']
        /\ answer' = [answer EXCEPT ![t] = confidence]
        /\ total_responses' = total_responses + 1
    BY <2>2 DEF Ledger!Record, Respond
  <2>5. /\ Len(entries') = Len(entries) + 1 /\ entries'[Len(entries')] = confidence
        /\ \A i \in 1..Len(entries) : entries'[i] = entries[i]
    BY <1>1, <2>4 DEF AIConfidence
  <2>6. \A u \in Tasks : IF u = t THEN Len(receipt'[u]) = Len(entries')
                         ELSE Len(receipt'[u]) <= Len(entries) /\ receipt'[u] = receipt[u]
    BY <1>1, <2>4 DEF Audited
  <2>7. Len(entries') <= total_responses'
    BY <1>1, <2>4, <2>5 DEF Audited, AnswersAreAudited
  <2>8. ASSUME NEW u \in Tasks
        PROVE  /\ answer'[u] \in {"HIGH", "LOW"} =>
                    /\ Len(receipt'[u]) \in 1..Len(entries')
                    /\ entries'[Len(receipt'[u])] = answer'[u]
                    /\ \A v \in Tasks \ {u} : receipt'[v] # receipt'[u]
               /\ answer'[u] \in {"BLOCKED", "ERROR"} => receipt'[u] = <<>>
    <3>1. CASE u = t
      BY <1>1, <2>4, <2>5, <2>6, <3>1
    <3>2. CASE u # t
      BY <1>1, <2>4, <2>5, <2>6, <3>2 DEF Audited, AnswersAreAudited
    <3>3. QED
      BY <3>1, <3>2
  <2>9. \A u \in Tasks : Len(receipt'[u]) <= Len(entries')
    <3>1. Len(entries) \in Nat
      BY <1>1
    <3>2. QED
      BY <3>1, <2>5, <2>6
  <2>10. QED
    BY <1>2, <2>3, <2>7, <2>8, <2>9 DEF AnswersAreAudited
<1>15. ASSUME NEW t \in Tasks, ClientFails(t) PROVE Audited'
  BY <1>3, <1>7, <1>8, <1>15 DEF ClientFails, Respond
<1>16. CASE Tick
  BY <1>4, <1>16 DEF Tick, counters, ledger, Sound, Audited
<1>17. CASE UNCHANGED vars
  BY <1>4, <1>17 DEF vars, counters, ledger, Sound, Audited
<1>18. QED
  BY <1>5, <1>6, <1>9, <1>10, <1>11, <1>12, <1>13, <1>14, <1>15, <1>16, <1>17
     DEF Next, Step

(* An answer the caller sees is in the ledger under a receipt no other     *)
(* caller holds, a refusal or an error has none, and no entry stands for   *)
(* anything but a response of the client.                                  *)
THEOREM AnswersAlwaysAudited == Spec => []AnswersAreAudited
<1>1. Audited => AnswersAreAudited
  BY DEF Audited
<1>2. QED
  BY <1>1, AuditedInit, BalancedAlways, AuditedInductive, PTL DEF Spec
-----------------------------------------------------------------------------
(* The rate limit.  The requests let in come in windows: the last n of     *)
(* them are the present one's, and whatever was let in RateMax places or   *)
(* more before the present window's first came more than a window's length *)
(* earlier, since the window before it had opened by then and has run out. *)

Times == \A i, j \in 1..Len(admitted) : i <= j => admitted[i] <= admitted[j]

Opens == Len(admitted) - rate_limit_state[2] + 1

Windowed ==
  /\ RateAtMostTwoWindows
  /\ Times
  /\ \A i \in 1..Len(admitted) : admitted[i] <= clock
  /\ rate_limit_state = NULL => admitted = <<>>
  /\ rate_limit_state # NULL =>
       /\ Opens \in 1..Len(admitted)
       /\ admitted[Opens] = rate_limit_state[1]
       /\ \A i \in 1..(Opens - RateMax) : admitted[i] + RateWindow < admitted[Opens]

LEMMA WindowedInit == Init => Windowed
BY DEF Init, Windowed, RateAtMostTwoWindows, Times

LEMMA LetIn ==
  ASSUME Balanced, Windowed, NEW t \in Tasks, check_rate_limit(t), ~RateWindowFull
  PROVE  Windowed'
<1>1. /\ admitted \in Seq(0..MaxClock) /\ clock \in 0..MaxClock /\ MaxClock \in Nat
      /\ RateMax \in Nat \ {0} /\ RateWindow \in Nat
      /\ rate_limit_state \in {NULL} \cup (0..MaxClock) \X (1..RateMax)
  BY GatewayAssumption DEF Balanced, TypeOK
<1> DEFINE n == Len(admitted)
<1>2. n \in Nat /\ \A i \in 1..n : admitted[i] \in 0..MaxClock
  BY <1>1
<1>3. /\ admitted' = Append(admitted, clock) /\ clock' = clock
      /\ rate_limit_state' = IF RateWindowOver THEN <<clock, 1>>
                             ELSE <<rate_limit_state[1], rate_limit_state[2] + 1>>
  BY DEF check_rate_limit
<1>4. /\ Len(admitted') = n + 1 /\ admitted'[n + 1] = clock
      /\ \A i \in 1..n : admitted'[i] = admitted[i]
  BY <1>1, <1>3
<1>5. Times' /\ \A i \in 1..(n + 1) : admitted'[i] <= clock'
  <2>1. ASSUME NEW i \in 1..(n + 1) PROVE admitted'[i] <= clock
    <3>1. CASE i = n + 1
      BY <1>1, <1>4, <3>1
    <3>2. CASE i \in 1..n
      BY <1>4, <3>2 DEF Windowed
    <3>3. QED
      BY <1>2, <3>1, <3>2
  <2>2. ASSUME NEW i \in 1..(n + 1), NEW j \in 1..(n + 1), i <= j
        PROVE  admitted'[i] <= admitted'[j]
    <3>1. CASE j = n + 1
      BY <1>4, <2>1, <3>1
    <3>2. CASE j \in 1..n
      <4>1. i \in 1..n
        BY <1>2, <2>2, <3>2
      <4>2. QED
        BY <1>4, <2>2, <3>2, <4>1 DEF Windowed, Times
    <3>3. QED
      BY <1>2, <3>1, <3>2
  <2>3. QED
    BY <1>3, <1>4, <2>1, <2>2 DEF Times
<1>a. ASSUME \A i \in 1..n : n + 1 - i = 2 * RateMax - 1 => clock - admitted[i] > RateWindow
      PROVE  RateAtMostTwoWindows'
  <2>1. ASSUME NEW i \in 1..(n + 1), NEW j \in 1..(n + 1), j - i = 2 * RateMax - 1
        PROVE  admitted'[j] - admitted'[i] > RateWindow
    <3>1. i \in 1..n
      BY <1>1, <1>2, <2>1
    <3>2. CASE j = n + 1
      BY <1>4, <1>a, <2>1, <3>1, <3>2
    <3>3. CASE j \in 1..n
      BY <1>4, <2>1, <3>1, <3>3 DEF Windowed, RateAtMostTwoWindows
    <3>4. QED
      BY <1>2, <3>2, <3>3
  <2>2. QED
    BY <1>4, <2>1 DEF RateAtMostTwoWindows
<1>6. rate_limit_state' \in (0..MaxClock) \X Nat /\ rate_limit_state' # NULL
  BY <1>1, <1>3, GatewayAssumption DEF RateWindowOver
<1>7. CASE RateWindowOver
  <2>1. Opens' = n + 1 /\ rate_limit_state'[1] = clock
    BY <1>2, <1>3, <1>4, <1>7 DEF Opens
  <2>2. ASSUME NEW i \in 1..(n + 1 - RateMax) PROVE admitted[i] + RateWindow < clock
    <3>1. rate_limit_state # NULL /\ i \in 1..n
      BY <1>1, <1>2, <2>2 DEF Windowed
    <3>2. /\ rate_limit_state[1] \in 0..MaxClock /\ rate_limit_state[2] \in 1..RateMax
          /\ clock - rate_limit_state[1] > RateWindow
      BY <1>1, <1>7, <3>1 DEF RateWindowOver
    <3>3. Opens \in 1..n /\ i <= Opens /\ admitted[Opens] = rate_limit_state[1]
      <4>1. Opens \in 1..n /\ admitted[Opens] = rate_limit_state[1]
        BY <3>1 DEF Windowed
      <4>2. Opens = n - rate_limit_state[2] + 1 /\ rate_limit_state[2] <= RateMax
        BY <3>2 DEF Opens
      <4>3. i <= n + 1 - RateMax
        BY <1>1, <1>2, <2>2
      <4>4. PICK k \in 1..RateMax : k = rate_limit_state[2]
        BY <3>2
      <4>5. Opens = n - k + 1 /\ k <= RateMax /\ RateMax \in Nat /\ i \in Nat
        BY <1>1, <3>1, <4>2, <4>4
      <4>6. i <= Opens
        BY <1>2, <4>3, <4>5
      <4>7. QED
        BY <4>1, <4>6
    <3>4. admitted[i] <= rate_limit_state[1]
      BY <3>1, <3>3 DEF Windowed, Times
    <3>5. admitted[i] \in Nat /\ rate_limit_state[1] \in Nat /\ clock \in Nat
      BY <1>1, <1>2, <3>1, <3>2
    <3>6. PICK x, y \in Nat : x = admitted[i] /\ y = rate_limit_state[1]
      BY <3>5
    <3>7. x <= y /\ clock - y > RateWindow /\ clock \in Nat /\ RateWindow \in Nat
      BY <1>1, <3>2, <3>4, <3>6
    <3>8. x + RateWindow < clock
      BY <3>7
    <3>9. QED
      BY <3>6, <3>8
  <2>3. \A i \in 1..(Opens' - RateMax) : admitted'[i] + RateWindow < clock
    <3> SUFFICES ASSUME NEW i \in 1..(Opens' - RateMax)
                 PROVE  admitted'[i] + RateWindow < clock
      OBVIOUS
    <3>1. i \in 1..(n + 1 - RateMax)
      BY <1>1, <1>2, <2>1
    <3>2. i \in 1..n
      BY <1>1, <1>2, <3>1
    <3>3. QED
      BY <1>4, <2>2, <3>1, <3>2
  <2>4. ASSUME NEW i \in 1..n, n + 1 - i = 2 * RateMax - 1
        PROVE  clock - admitted[i] > RateWindow
    <3>1. i \in 1..(n + 1 - RateMax)
      BY <1>1, <1>2, <2>4
    <3>2. admitted[i] + RateWindow < clock /\ admitted[i] \in Int /\ clock \in Int
      BY <1>1, <1>2, <2>2, <3>1
    <3>3. QED
      BY <1>1, <3>2
  <2>5. RateAtMostTwoWindows'
    BY <1>a, <2>4
  <2>6. Opens' \in 1..Len(admitted') /\ admitted'[Opens'] = rate_limit_state'[1]
    BY <1>2, <1>4, <2>1
  <2>7. QED
    BY <1>4, <1>5, <1>6, <2>1, <2>3, <2>5, <2>6 DEF Windowed
<1>8. CASE ~RateWindowOver
  <2>1. /\ rate_limit_state \in (0..MaxClock) \X (1..RateMax)
        /\ rate_limit_state # NULL /\ rate_limit_state[2] < RateMax
    BY <1>1, <1>8 DEF RateWindowOver, RateWindowFull
  <2>2. /\ Opens \in 1..n /\ admitted[Opens] = rate_limit_state[1]
        /\ \A i \in 1..(Opens - RateMax) : admitted[i] + RateWindow < admitted[Opens]
    BY <2>1 DEF Windowed
  <2>3. Opens' = Opens /\ rate_limit_state'[1] = rate_limit_state[1]
    BY <1>2, <1>3, <1>4, <1>8, <2>1 DEF Opens
  <2>4. /\ Opens' \in 1..(n + 1) /\ admitted'[Opens'] = rate_limit_state'[1]
        /\ \A i \in 1..(Opens' - RateMax) :
             admitted'[i] + RateWindow < admitted'[Opens']
    <3>1. Opens' \in 1..(n + 1) /\ admitted'[Opens'] = admitted[Opens]
      BY <1>2, <1>4, <2>2, <2>3
    <3>2. admitted'[Opens'] = rate_limit_state'[1]
      BY <2>2, <2>3, <3>1
    <3>3. ASSUME NEW i \in 1..(Opens' - RateMax)
          PROVE  admitted'[i] + RateWindow < admitted'[Opens']
      <4>1. i \in 1..(Opens - RateMax)
        BY <2>3
      <4>2. i \in 1..n
        BY <1>1, <1>2, <2>2, <4>1
      <4>3. admitted'[i] = admitted[i] /\ admitted[i] + RateWindow < admitted[Opens]
        BY <1>4, <2>2, <4>1, <4>2
      <4>4. QED
        BY <3>1, <4>3
    <3>4. QED
      BY <3>1, <3>2, <3>3
  <2>5. ASSUME NEW i \in 1..n, n + 1 - i = 2 * RateMax - 1
        PROVE  clock - admitted[i] > RateWindow
    <3>1. PICK k \in 1..RateMax : k < RateMax /\ Opens = n - k + 1
      BY <2>1 DEF Opens
    <3>2. i \in 1..(Opens - RateMax)
      BY <1>1, <1>2, <2>5, <3>1
    <3>3. admitted[i] + RateWindow < admitted[Opens] /\ admitted[Opens] <= clock
      BY <2>2, <3>2 DEF Windowed
    <3>4. admitted[i] \in 0..MaxClock /\ admitted[Opens] \in 0..MaxClock
      BY <1>2, <2>2, <3>2
    <3>5. PICK x \in Nat : x = admitted[i]
      BY <1>1, <3>4
    <3>6. PICK y \in Nat : y = admitted[Opens]
      BY <1>1, <3>4
    <3>7. x + RateWindow < y /\ y <= clock /\ clock \in Nat /\ RateWindow \in Nat
      BY <1>1, <3>3, <3>5, <3>6
    <3>8. clock - x > RateWindow
      BY <3>7
    <3>9. QED
      BY <3>5, <3>8
  <2>6. RateAtMostTwoWindows'
    BY <1>a, <2>5
  <2>7. QED
    BY <1>2, <1>3, <1>4, <1>5, <1>6, <2>4, <2>6 DEF Windowed
<1>9. QED
  BY <1>7, <1>8

LEMMA WindowedInductive == Balanced /\ Windowed /\ [Next]_vars => Windowed'
<1> SUFFICES ASSUME Balanced, Windowed, [Next]_vars PROVE Windowed'
  OBVIOUS
<1>1. ASSUME UNCHANGED <<rate_limit_state, admitted, clock>> PROVE Windowed'
  BY <1>1 DEF Windowed, RateAtMostTwoWindows, Times, Opens
<1>2. ASSUME NEW t \in Tasks, check_rate_limit(t) PROVE Windowed'
  <2>1. CASE RateWindowFull
    BY <1>1, <1>2, <2>1 DEF check_rate_limit
  <2>2. QED
    BY <1>2, <2>1, LetIn
<1>3. CASE Tick
  <2>1. /\ UNCHANGED <<rate_limit_state, admitted>> /\ clock' = clock + 1
        /\ clock \in Nat /\ \A i \in 1..Len(admitted) : admitted[i] \in Nat
    BY <1>3, GatewayAssumption DEF Tick, windows, history, Balanced, TypeOK
  <2>2. QED
    BY <2>1 DEF Windowed, RateAtMostTwoWindows, Times, Opens
<1>4. QED
  BY <1>1, <1>2, <1>3
     DEF Next, Step, check_budget, check_input, ResetWindow, check_window_budget,
         AcquireSlot, CountCall, ClientAnswers, ClientFails, Respond, windows, history, vars

(* Of 2 * RateMax requests let in one after the other, the last comes more *)
(* than a window after the first, whatever the clock does between the      *)
(* requests: the bound that the fixed window of ai_gateway.rs:148 keeps.   *)
THEOREM RateAlwaysBounded == Spec => []RateAtMostTwoWindows
<1>1. Windowed => RateAtMostTwoWindows
  BY DEF Windowed
<1>2. QED
  BY <1>1, WindowedInit, BalancedAlways, WindowedInductive, PTL DEF Spec
=============================================================================
