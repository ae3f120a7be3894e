---------------------------- MODULE CaptchaSolver ----------------------------
(***************************************************************************)
(* The CAPTCHA solver (src/engine/captcha.py): the providers whose key is  *)
(* set are tried one after the other; with each a task is created and then *)
(* polled. A CaptchaError of one provider passes the task to the next; any *)
(* other exception (transport, an answer that is no JSON, a missing field) *)
(* leaves the solver at once.                                              *)
(***************************************************************************)
EXTENDS Naturals

CONSTANTS
  MaxPolls  \* how often a task is polled

ASSUME SolverAssumption == MaxPolls \in Nat \ {0}

VARIABLES
  keys,   \* the providers whose key is set
  solve,  \* the challenge being solved
  asked   \* history: this call asked each for a task never, once or again (2)

solverVars == <<keys, solve, asked>>

Providers == {"capsolver", "2captcha"}

Solve == [step : {"idle", "create", "poll", "solved", "error", "escaped"},
          provider : Providers, polls : 0 .. MaxPolls]

NoSolve == [step |-> "idle", provider |-> "capsolver", polls |-> 0]

NobodyAsked == [p \in Providers |-> 0]

SolverInit ==
  /\ keys \in SUBSET Providers
  /\ solve = NoSolve
  /\ asked = NobodyAsked

\* A task is about to be asked for.
Ask(provider) == [step |-> "create", provider |-> provider, polls |-> 0]

\* The CaptchaError after the two blocks.
Raise == [solve EXCEPT !.step = "error"]

\* The second block of _solve, `if self._twocaptcha_key`, and what follows it.
SecondBlock == IF "2captcha" \in keys THEN Ask("2captcha") ELSE Raise

\* The first, `if self._capsolver_key`.
FirstBlock == IF "capsolver" \in keys THEN Ask("capsolver") ELSE SecondBlock

\* Mutant: the second block is the first one's alternative.
AfterFirstFailure(provider) == Raise

\* `except CaptchaError: pass`: what comes after the provider's block.
AfterFailure(provider) == IF provider = "capsolver" THEN SecondBlock ELSE Raise

Working == solve.step \in {"create", "poll"}

CreateTask ==
  /\ solve.step = "create"
  /\ solve' = [solve EXCEPT !.step = "poll"]

NotReady ==
  /\ solve.step = "poll" /\ solve.polls < MaxPolls
  /\ solve' = [solve EXCEPT !.polls = solve.polls + 1]

Ready ==
  /\ solve.step = "poll" /\ solve.polls < MaxPolls
  /\ solve' = [solve EXCEPT !.step = "solved"]

\* An error on creation, a failed task, or the last poll gone by.
ProviderFails ==
  /\ Working
  /\ solve' = AfterFailure(solve.provider)

Escapes ==
  /\ Working
  /\ solve' = [solve EXCEPT !.step = "escaped"]

\* Whatever comes of it, the creation is a request to the provider.
SolverStep ==
  /\ CreateTask \/ NotReady \/ Ready \/ ProviderFails \/ Escapes
  /\ asked' = IF solve.step = "create"
              THEN [asked EXCEPT ![solve.provider] = IF @ = 0 THEN 1 ELSE 2] ELSE asked
  /\ UNCHANGED keys
=============================================================================
