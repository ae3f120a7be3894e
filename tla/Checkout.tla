------------------------------ MODULE Checkout ------------------------------
(***************************************************************************)
(* The engine's purchase (src/engine/autocop.py) over its transport        *)
(* (src/engine/tls.py): payment methods, then a session, then the charge,  *)
(* each an HTTP request that is answered, refused, challenged or lost, and *)
(* lost before or after it took effect. One listing; the operator tries    *)
(* again until told that something may have been bought.                   *)
(*                                                                         *)
(* attempt_checkout is a coroutine, so the transport's asyncio.run always  *)
(* finds a running loop, raises, and the challenge itself is the response: *)
(* the solver is reached only by callers of TlsSession.request outside a   *)
(* loop, who are modelled beside the attempt as `call`.                    *)
(***************************************************************************)
EXTENDS CaptchaSolver

CONSTANTS
  Prices,    \* prices the operator may pass
  MaxSpend,  \* autocop_max_spend_pence
  Proxies

ASSUME CheckoutAssumption ==
  /\ Prices \subseteq Nat
  /\ MaxSpend \in Nat

VARIABLES
  attempt,  \* attempt_checkout: where it stands or how it ended
  paid,     \* what the venue has charged in all
  resting,  \* proxies in quarantine
  call      \* TlsSession.request with a solver, outside a running loop

attemptVars == <<attempt, paid, resting>>
vars == <<attemptVars, call, solverVars>>

Stages == {"methods", "session", "checkout"}

\* `at` is the stage in hand, or the outcome; `error` the stage its text names.
Attempt == [at : Stages \cup {"none", "refused", "escaped", "dry", "failed", "interrupted",
                           "bought"},
            error : Stages \cup {"none"}, price : Prices \cup {0}, proxy : Proxies \cup {"none"}]

Ended == attempt.at \notin Stages

Call == {"idle", "first", "solving", "retry", "answered", "raised"}

Init ==
  /\ attempt = [at |-> "none", error |-> "none", price |-> 0, proxy |-> "none"]
  /\ paid = 0
  /\ resting = {}
  /\ call = "idle"
  /\ SolverInit

-----------------------------------------------------------------------------
(* The attempt.                                                            *)

\* The operator: not again after a purchase, nor after an error of the checkout, nor
\* after an attempt that was interrupted, which leaves no error to read.
MayTryAgain ==
  Ended /\ attempt.at \notin {"bought", "interrupted"} /\ attempt.error # "checkout"

WithinCap(price) == price <= MaxSpend

\* AutoCopError: the price exceeds the cap (or the feature is off).
Refuse(price) ==
  /\ MayTryAgain /\ ~WithinCap(price)
  /\ attempt' = [at |-> "refused", error |-> "none", price |-> price, proxy |-> "none"]
  /\ UNCHANGED <<paid, resting>>

\* A dry run: the only kind the command line can start.
DryRun(price) ==
  /\ MayTryAgain /\ WithinCap(price)
  /\ attempt' = [at |-> "dry", error |-> "none", price |-> price, proxy |-> "none"]
  /\ UNCHANGED <<paid, resting>>

Begin(price) ==
  /\ MayTryAgain /\ WithinCap(price)
  /\ \E proxy \in Proxies \ resting :
       attempt' = [at |-> "methods", error |-> "none", price |-> price, proxy |-> proxy]
  /\ UNCHANGED <<paid, resting>>

\* get_proxy raises where every proxy rests, and nothing catches it.
NoProxy(price) ==
  /\ MayTryAgain /\ WithinCap(price) /\ Proxies \subseteq resting
  /\ attempt' = [at |-> "escaped", error |-> "none", price |-> price, proxy |-> "none"]
  /\ UNCHANGED <<paid, resting>>

\* Mutant: every error reads like one of the session.
FailedSomewhere(stage) == [attempt EXCEPT !.at = "failed", !.error = "session"]

Failed(stage) == [attempt EXCEPT !.at = "failed", !.error = stage]

MethodsAnswered ==
  /\ attempt.at = "methods"
  /\ attempt' = [attempt EXCEPT !.at = "session"]
  /\ UNCHANGED <<paid, resting>>

\* Lost, refused or challenged: the proxy is marked either way.
MethodsFail ==
  /\ attempt.at = "methods"
  /\ attempt' = Failed("methods")
  /\ resting' = resting \cup {attempt.proxy}
  /\ UNCHANGED paid

SessionCreated ==
  /\ attempt.at = "session"
  /\ attempt' = [attempt EXCEPT !.at = "checkout"]
  /\ UNCHANGED <<paid, resting>>

\* Only a request that raised marks the proxy; a status, a body that does not
\* parse or one without an id does not.
SessionFails ==
  /\ attempt.at = "session"
  /\ attempt' = Failed("session")
  /\ resting' \in {resting, resting \cup {attempt.proxy}}
  /\ UNCHANGED paid

\* A body that is JSON and no object: `.get` raises, and nothing catches it.
SessionEscapes ==
  /\ attempt.at = "session"
  /\ attempt' = [attempt EXCEPT !.at = "escaped"]
  /\ UNCHANGED <<paid, resting>>

\* Status 200; a body that does not parse costs only the transaction's name.
CheckoutAnswered ==
  /\ attempt.at = "checkout"
  /\ attempt' = [attempt EXCEPT !.at = "bought"]
  /\ paid' = paid + attempt.price
  /\ UNCHANGED resting

\* Another status, a challenge, or no answer at all: the charge may have gone through.
CheckoutFails ==
  /\ attempt.at = "checkout"
  /\ attempt' = Failed("checkout")
  /\ paid' \in {paid, paid + attempt.price}
  /\ UNCHANGED resting

\* A KeyboardInterrupt passes `except Exception`: no result, no stage, no proxy marked,
\* and a charge that may have gone through.
Interrupted ==
  /\ ~Ended
  /\ attempt' = [attempt EXCEPT !.at = "interrupted"]
  /\ paid' \in {paid} \cup (IF attempt.at = "checkout" THEN {paid + attempt.price} ELSE {})
  /\ UNCHANGED resting

\* External: a quarantine runs out.
Recover ==
  /\ resting # {}
  /\ \E proxy \in resting : resting' = resting \ {proxy}
  /\ UNCHANGED <<attempt, paid>>

AttemptRuns ==
  /\ \/ MethodsAnswered \/ MethodsFail \/ SessionCreated \/ SessionFails \/ SessionEscapes
     \/ CheckoutAnswered \/ CheckoutFails \/ Interrupted
  /\ UNCHANGED <<call, solverVars>>

AttemptStarts ==
  /\ \E price \in Prices : Refuse(price) \/ DryRun(price) \/ Begin(price) \/ NoProxy(price)
  /\ UNCHANGED <<call, solverVars>>

-----------------------------------------------------------------------------
(* The transport with a solver, outside a running loop.                    *)

StartCall ==
  /\ call \in {"idle", "answered", "raised"}
  /\ call' = "first"
  /\ solve' = NoSolve
  /\ asked' = NobodyAsked
  /\ UNCHANGED <<keys, attemptVars>>

\* Anything but a challenge is the answer; a challenge of the retry is one too.
CallAnswered ==
  /\ call \in {"first", "retry"}
  /\ call' \in {"answered", "raised"}
  /\ UNCHANGED <<solverVars, attemptVars>>

\* 403 or 429 with a widget on the page. A solver is built only where a key is set.
Challenged ==
  /\ call = "first" /\ keys # {}
  /\ call' = "solving"
  /\ solve' = FirstBlock
  /\ UNCHANGED <<keys, asked, attemptVars>>

\* Mutant: the challenge is met again by another solution.
RetryAgain == "first"

AfterToken == "retry"

\* The token goes into the headers and the request out again, once.
Solved ==
  /\ call = "solving" /\ solve.step = "solved"
  /\ call' = AfterToken
  /\ UNCHANGED <<solverVars, attemptVars>>

\* Whatever the solver raised, the challenge is the response.
Unsolved ==
  /\ call = "solving" /\ solve.step \in {"error", "escaped"}
  /\ call' = "answered"
  /\ UNCHANGED <<solverVars, attemptVars>>

CallRuns ==
  \/ CallAnswered \/ Challenged \/ Solved \/ Unsolved
  \/ call = "solving" /\ SolverStep /\ UNCHANGED <<call, attemptVars>>

Next ==
  \/ AttemptStarts \/ AttemptRuns \/ StartCall \/ CallRuns
  \/ Recover /\ UNCHANGED <<call, solverVars>>

\* A coroutine and a call that have begun go on; nobody has to begin one.
Fairness == WF_vars(AttemptRuns) /\ WF_vars(CallRuns)

Spec == Init /\ [][Next]_vars

FairSpec == Spec /\ Fairness

-----------------------------------------------------------------------------
(* Type invariant and properties.                                          *)

\* Every variable holds what the code can put there.
TypeOK ==
  /\ attempt \in Attempt
  /\ paid \in Nat
  /\ resting \in SUBSET Proxies
  /\ call \in Call
  /\ keys \in SUBSET Providers
  /\ solve \in Solve
  /\ asked \in [Providers -> 0 .. 2]

\* An operator who stops at a purchase, at an error of the checkout itself and at an
\* attempt that was interrupted pays for the listing at most once, and never more than
\* the cap, whatever answers were lost.
PaidOnceWithinCap == paid \in {0, attempt.price} /\ paid <= MaxSpend

\* Tasks cost money: one call of the transport, its retry included, asks a provider
\* for at most one, and never one without a key; and a CaptchaError means that each
\* provider with a key was asked, so that no failure of one is the failure of all.
EachProviderAskedOnce ==
  /\ \A p \in Providers : asked[p] <= IF p \in keys THEN 1 ELSE 0
  /\ solve.step = "error" => \A p \in keys : asked[p] = 1

\* The transport: whatever the venue and the providers do, a call comes back, so the
\* retry is one retry and the polling is bounded.
CallsEnd == call \in {"first", "solving", "retry"} ~> call \in {"answered", "raised"}
=============================================================================
