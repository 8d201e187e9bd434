----------------------------- MODULE ModelChain -----------------------------
(***************************************************************************)
(* The AI providers that call an HTTP API: Gemini with its fallback chain  *)
(* of models, per-minute waits and the process-wide registry of models     *)
(* whose daily quota is gone (ai/gemini.py), and the providers of a single *)
(* model (Gemini's triage, ai/anthropic_api.py), under ai/retry.py and     *)
(* ai/budget.py.  The cases of a run call from threads of their own        *)
(* (generation/generator.py), which share the registry.                    *)
(***************************************************************************)
EXTENDS Naturals, FiniteSets

CONSTANTS
  Threads,
  ChainLength,       \* GEMINI_MODEL_CHAIN, its models by position
  MaxAttempts,       \* ai_max_attempts
  MaxMinuteRetries,  \* gemini_max_minute_retries
  MaxDay,            \* bound: days
  Budget,            \* budget_tokens
  Fixed,             \* characters of the instruction and the task, which are never cut
  MaxContext         \* bound: characters of context

VARIABLES
  today,
  registry,   \* _reset_at: the day on which each model is back, 0 if it is not marked
  call,       \* what each thread does
  refusedOn   \* the last day on which the API refused each model for the day

vars == <<today, registry, call, refusedOn>>

Models == 1 .. ChainLength
Outcomes == {"answered", "retryable", "exhausted", "timeout", "invalid", "over budget",
             "key error"}

Call == [
  state     : {"none", "look", "clear", "ask", "mark", "done"},
  chain     : BOOLEAN,      \* Gemini's generate; or a provider of one model
  model     : 1 .. ChainLength + 1,
  attempt   : 1 .. MaxAttempts,       \* of with_retries
  minute    : 1 .. MaxMinuteRetries,  \* minute_attempts
  transient : BOOLEAN,      \* last_transient is set
  since     : 1 .. MaxDay,  \* the day it began
  outcome   : {"none"} \cup Outcomes
]
NoCall == [state |-> "none", chain |-> TRUE, model |-> 1, attempt |-> 1, minute |-> 1,
           transient |-> FALSE, since |-> 1, outcome |-> "none"]

TypeOK ==
  /\ today \in 1 .. MaxDay
  /\ registry \in [Models -> 0 .. MaxDay + 1]
  /\ call \in [Threads -> Call]
  /\ refusedOn \in [Models -> 0 .. MaxDay]

Init ==
  /\ today = 1
  /\ registry = [m \in Models |-> 0]
  /\ call = [t \in Threads |-> NoCall]
  /\ refusedOn = [m \in Models |-> 0]

----------------------------------------------------------------------------
(* The prompt *)

\* estimate_tokens.
Tokens(chars) == (chars + 3) \div 4

\* _TRUNCATION_MARKER, in small.
Marker == 4

\* The context shrinks by an eighth until it fits beside the marker; nothing of it may
\* be left.
Cut[n \in 0 .. MaxContext] ==
  IF n = 0 THEN Fixed + Marker
  ELSE IF Tokens(Fixed + n + Marker) <= Budget THEN Fixed + n + Marker
  ELSE Cut[n - (IF n >= 16 THEN n \div 8 ELSE 1)]

\* build_within_budget under each strategy: the size of the prompt, or BudgetExceeded.
CanAssemble(n, truncate) ==
  \/ Tokens(Fixed + n) <= Budget
  \/ truncate /\ Tokens(Fixed + Marker) <= Budget

Assembled(n) == IF Tokens(Fixed + n) <= Budget THEN Fixed + n ELSE Cut[n]

----------------------------------------------------------------------------
(* One call *)

Set(t, c) == call' = [call EXCEPT ![t] = c]
Ended(t, outcome) ==
  Set(t, [call[t] EXCEPT !.state = "done", !.outcome = outcome])

\* generate, or a call of a provider of one model.
Begin(t, chain, n, truncate) ==
  /\ call[t].state \in {"none", "done"}
  /\ IF CanAssemble(n, truncate)
       THEN Set(t, [NoCall EXCEPT !.state = IF chain THEN "look" ELSE "ask",
                                    !.chain = chain, !.since = today])
       ELSE Set(t, [NoCall EXCEPT !.state = "done", !.outcome = "over budget"])
  /\ UNCHANGED <<today, registry, refusedOn>>

\* Mutant: whatever the chain met, its end is terminal.
EndOfChainMutant(c) == "exhausted"

\* What the end of the chain raises.
EndOfChain(c) == IF c.transient THEN "retryable" ELSE "exhausted"

\* The next model of the chain, or its end.
Advance(t, c) ==
  LET d == [c EXCEPT !.model = @ + 1, !.attempt = 1, !.minute = 1] IN
  Set(t, IF d.model <= ChainLength THEN [d EXCEPT !.state = "look"]
           ELSE [d EXCEPT !.state = "done", !.outcome = EndOfChain(c)])

\* is_exhausted looks the model up ...
LookUp(t) ==
  LET c == call[t] IN
  /\ c.state = "look"
  /\ IF registry[c.model] = 0 THEN Set(t, [c EXCEPT !.state = "ask"])
     ELSE IF today >= registry[c.model] THEN Set(t, [c EXCEPT !.state = "clear"])
     ELSE Advance(t, c)
  /\ UNCHANGED <<today, registry, refusedOn>>

\* ... and deletes what midnight has overtaken, unless another thread just has.
Clear(t) ==
  LET c == call[t] IN
  /\ c.state = "clear"
  /\ IF registry[c.model] = 0 THEN Ended(t, "key error") /\ UNCHANGED registry
     ELSE /\ registry' = [registry EXCEPT ![c.model] = 0]
          /\ Set(t, [c EXCEPT !.state = "ask"])
  /\ UNCHANGED <<today, refusedOn>>

\* A failure that with_retries tries again, and what the last one does.
Again(t, c, last) ==
  IF c.attempt < MaxAttempts THEN Set(t, [c EXCEPT !.attempt = @ + 1]) ELSE last

\* The answers to a provider of one model: every refusal is tried again like a fault.
AskAlone(t, c, answer) ==
  \/ answer = "text" /\ Ended(t, "answered")
  \/ answer = "rejected" /\ Ended(t, "invalid")
  \/ answer = "timeout" /\ Again(t, c, Ended(t, "timeout"))
  \/ answer \in {"fault", "day", "minute"} /\ Again(t, c, Ended(t, "retryable"))

\* The last transient error of a model: the chain remembers it, and goes on.
GiveUp(t, c) == Advance(t, [c EXCEPT !.transient = TRUE])

\* The answers to a model of the chain.  AITimeout is no AITransientError: the chain does
\* not catch it.  A minute's refusal is waited out a few times.
AskInChain(t, c, answer) ==
  \/ answer = "text" /\ Ended(t, "answered")
  \/ answer = "rejected" /\ Ended(t, "invalid")
  \/ answer = "timeout" /\ Again(t, c, Ended(t, "timeout"))
  \/ answer = "fault" /\ Again(t, c, GiveUp(t, c))
  \/ answer = "day" /\ Set(t, [c EXCEPT !.state = "mark"])
  \/ /\ answer = "minute"
     /\ IF c.minute < MaxMinuteRetries
          THEN Set(t, [c EXCEPT !.minute = @ + 1, !.attempt = 1])
          ELSE GiveUp(t, c)

\* What the API may answer: text; a rejected key; an empty answer, a 5xx or a broken
\* connection; nothing in time; a refusal, for the day only if it says so without
\* ambiguity (classify_quota_failure).
Answers == {"text", "rejected", "fault", "timeout", "day", "minute"}

Ask(t, answer) ==
  LET c == call[t] IN
  /\ c.state = "ask"
  /\ IF c.chain THEN AskInChain(t, c, answer) ELSE AskAlone(t, c, answer)
  /\ refusedOn' = IF answer = "day" THEN [refusedOn EXCEPT ![c.model] = today]
                  ELSE refusedOn
  /\ UNCHANGED <<today, registry>>

\* The refusal is marked by the clock after the answer.
Mark(t) ==
  /\ call[t].state = "mark"
  /\ registry' = [registry EXCEPT ![call[t].model] = today + 1]
  /\ Advance(t, call[t])
  /\ UNCHANGED <<today, refusedOn>>

\* A refusal never waits a whole day for its mark.
Midnight ==
  /\ today < MaxDay
  /\ \A t \in Threads : call[t].state = "mark" => refusedOn[call[t].model] = today
  /\ today' = today + 1
  /\ UNCHANGED <<registry, call, refusedOn>>

Next ==
  \/ \E t \in Threads :
       \/ \E chain, truncate \in BOOLEAN, n \in {0, MaxContext} : Begin(t, chain, n, truncate)
       \/ LookUp(t) \/ Clear(t) \/ Mark(t)
       \/ \E answer \in Answers : Ask(t, answer)
  \/ Midnight

Spec == Init /\ [][Next]_vars

----------------------------------------------------------------------------
(* Properties *)

\* "A transient give-up (..., timeout, ...) is remembered" (generate): a call of the
\* chain that failed for now has gone past every model.
FailsAtTheEnd ==
  \A t \in Threads :
    call[t].chain /\ call[t].outcome \in {"retryable", "timeout"} => call[t].model > ChainLength

\* A prompt cut to its budget fits it, and loses at most an eighth of the context that
\* would have fitted.
CutFits ==
  \A n \in 0 .. MaxContext :
    LET kept == Assembled(n) - Fixed - Marker
        room == 4 * Budget - Fixed - Marker IN
    Tokens(Fixed + n) > Budget /\ CanAssemble(n, TRUE) =>
      Tokens(Assembled(n)) <= Budget /\ 8 * kept >= 7 * room

\* "The whole chain has hit its per-day quota" (AllModelsExhausted): the terminal
\* failure is raised only if the API refused every model for the day, on a day of the
\* call or, since a refusal is marked by the clock after the answer, the day before it
\* began; and what can be tried again is never called terminal.
ExhaustedIsTerminal ==
  \A t \in Threads : call[t].outcome = "exhausted" =>
    /\ ~call[t].transient
    /\ \A m \in Models : refusedOn[m] > 0 /\ refusedOn[m] >= call[t].since - 1

\* The chain ends as it says, and no prompt is over its budget.
ChainIsHonest ==
  /\ ExhaustedIsTerminal
  /\ call = [t \in Threads |-> NoCall] => CutFits   \* (of constants: said once)
=============================================================================
