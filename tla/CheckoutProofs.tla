--------------------------- MODULE CheckoutProofs ---------------------------
(***************************************************************************)
(* What the engine's purchase and its CAPTCHA solver keep for every set of *)
(* prices, proxies and keys and every number of polls.                     *)
(***************************************************************************)
EXTENDS Checkout, TLAPS

\* Nothing is paid before the checkout is tried, and after that the operator stops:
\* an attempt under way is within the cap and the first that may charge.
ChargedOnce ==
  /\ ~Ended => /\ attempt.price <= MaxSpend /\ attempt.error = "none"
               /\ attempt.proxy \in Proxies
  /\ MayTryAgain \/ ~Ended => paid = 0
  /\ paid \in {0, attempt.price} /\ paid <= MaxSpend

Asked(p) == IF p \in keys THEN 1 ELSE 0

\* Where a provider's task has been asked for when its block is entered, waited in and
\* left: a fresh call has asked nobody, and the second block follows the first.
AskedInOrder ==
  /\ \A p \in Providers : asked[p] <= Asked(p)
  /\ call = "first" => asked = NobodyAsked
  /\ Working => solve.provider \in keys
  /\ solve.step = "create" => asked[solve.provider] = 0
  /\ solve.step = "poll" => asked[solve.provider] = 1
  /\ Working /\ solve.provider = "capsolver" => asked["2captcha"] = 0
  /\ Working /\ solve.provider = "2captcha" => asked["capsolver"] = Asked("capsolver")
  /\ solve.step = "error" => \A p \in Providers : asked[p] = Asked(p)

IInv == TypeOK /\ ChargedOnce /\ AskedInOrder

attemptTypeOK == attempt \in Attempt /\ paid \in Nat /\ resting \in SUBSET Proxies

callTypeOK ==
  /\ call \in Call /\ keys \in SUBSET Providers
  /\ solve \in Solve /\ asked \in [Providers -> 0 .. 2]

-----------------------------------------------------------------------------
(* The solver.                                                             *)

\* A block asks a provider that has a key, or there is nobody left to ask.
LEMMA BlocksHold ==
  ASSUME callTypeOK
  PROVE  /\ SecondBlock \in Solve /\ FirstBlock \in Solve
         /\ IF "2captcha" \in keys THEN SecondBlock = Ask("2captcha")
            ELSE SecondBlock.step = "error"
         /\ IF "capsolver" \in keys THEN FirstBlock = Ask("capsolver")
            ELSE FirstBlock = SecondBlock
         /\ \A p \in Providers :
              /\ Ask(p).step = "create" /\ Ask(p).provider = p /\ Ask(p).polls = 0
         /\ Raise \in Solve /\ Raise.step = "error"
  <1>1. \A p \in Providers : Ask(p) \in Solve
    BY SolverAssumption DEF Ask, Solve
  <1>2. Raise \in Solve /\ Raise.step = "error"
    BY DEF Raise, callTypeOK, Solve
  <1>3. QED
    BY <1>1, <1>2 DEF SecondBlock, FirstBlock, Ask, Providers

LEMMA SolverHolds ==
  ASSUME callTypeOK, AskedInOrder, call = "solving", call' = call, SolverStep
  PROVE  callTypeOK' /\ AskedInOrder'
  <1>. USE DEF callTypeOK
  <1>1. keys' = keys /\ solve.provider \in Providers /\ Working
    BY DEF SolverStep, CreateTask, NotReady, Ready, ProviderFails, Escapes, Working, Solve
  <1>2. /\ asked' \in [Providers -> 0 .. 2]
        /\ asked'[solve.provider] = 1
        /\ \A p \in Providers \ {solve.provider} : asked'[p] = asked[p]
    BY <1>1 DEF SolverStep, AskedInOrder, Working
  <1>3. solve' \in Solve
    <2>1. CASE ProviderFails
      BY <2>1, BlocksHold DEF ProviderFails, AfterFailure
    <2>2. CASE CreateTask \/ NotReady \/ Ready \/ Escapes
      BY <2>2, SolverAssumption DEF CreateTask, NotReady, Ready, Escapes, Solve
    <2>3. QED
      BY <2>1, <2>2 DEF SolverStep
  <1>4. \A p \in Providers : asked'[p] <= Asked(p) /\ Asked(p)' = Asked(p)
    BY <1>1, <1>2 DEF AskedInOrder, Asked
  <1>5. CASE CreateTask \/ NotReady \/ Ready \/ Escapes
    <2>1. solve'.provider = solve.provider /\ solve'.step \in {"poll", "solved", "escaped"}
      BY <1>5 DEF CreateTask, NotReady, Ready, Escapes, Solve
    <2>2. QED
      BY <1>1, <1>2, <1>3, <1>4, <2>1 DEF AskedInOrder, Working, Providers
  <1>6. CASE ProviderFails /\ solve.provider = "capsolver"
    <2>1. solve' = SecondBlock /\ "capsolver" \in keys
      BY <1>1, <1>6 DEF ProviderFails, AfterFailure, AskedInOrder
    <2>2. asked'["capsolver"] = Asked("capsolver") /\ asked'["2captcha"] = 0
      BY <1>1, <1>2, <1>6, <2>1 DEF AskedInOrder, Asked, Providers
    <2>3. CASE "2captcha" \in keys
      <3>1. solve'.step = "create" /\ solve'.provider = "2captcha"
        BY <2>1, <2>3, BlocksHold DEF Providers
      <3>2. QED
        BY <1>1, <1>2, <1>3, <1>4, <2>2, <2>3, <3>1 DEF AskedInOrder, Working, Providers
    <2>4. CASE "2captcha" \notin keys
      <3>1. solve'.step = "error"
        BY <2>1, <2>4, BlocksHold
      <3>2. \A p \in Providers : asked'[p] = Asked(p)
        BY <2>2, <2>4 DEF Asked, Providers
      <3>3. QED
        BY <1>1, <1>2, <1>3, <1>4, <3>1, <3>2 DEF AskedInOrder, Working
    <2>5. QED
      BY <2>3, <2>4
  <1>7. CASE ProviderFails /\ solve.provider = "2captcha"
    <2>1. solve'.step = "error" /\ "2captcha" \in keys
      BY <1>1, <1>7, BlocksHold DEF ProviderFails, AfterFailure, AskedInOrder
    <2>2. \A p \in Providers : asked'[p] = Asked(p)
      BY <1>1, <1>2, <1>7, <2>1 DEF AskedInOrder, Asked, Providers
    <2>3. QED
      BY <1>1, <1>2, <1>3, <1>4, <2>1, <2>2 DEF AskedInOrder, Working
  <1>8. QED
    BY <1>1, <1>5, <1>6, <1>7 DEF SolverStep, Providers

\* A call of the transport, with the solver in it.
LEMMA CallHolds ==
  ASSUME callTypeOK, AskedInOrder, StartCall \/ CallRuns
  PROVE  callTypeOK' /\ AskedInOrder' /\ UNCHANGED attemptVars
  <1>1. CASE StartCall
    <2>1. /\ solve' = NoSolve /\ keys' = keys /\ call' = "first" /\ asked' = NobodyAsked
          /\ UNCHANGED attemptVars
      BY <1>1 DEF StartCall
    <2>2. NoSolve \in Solve /\ NoSolve.step = "idle"
      BY SolverAssumption DEF NoSolve, Solve, Providers
    <2>3. NobodyAsked \in [Providers -> 0 .. 2] /\ \A p \in Providers : NobodyAsked[p] = 0
      BY DEF NobodyAsked
    <2>4. QED
      BY <2>1, <2>2, <2>3 DEF callTypeOK, Call, AskedInOrder, Asked, Working
  <1>2. CASE CallAnswered
    BY <1>2 DEF CallAnswered, solverVars, callTypeOK, Call, AskedInOrder, Asked, Working
  <1>3. CASE Challenged
    <2>1. /\ solve' = FirstBlock /\ keys' = keys /\ call' = "solving" /\ asked' = asked
          /\ keys # {} /\ UNCHANGED attemptVars
      BY <1>3 DEF Challenged
    <2>2. \A p \in Providers : asked[p] = 0
      BY <1>3 DEF Challenged, AskedInOrder, NobodyAsked
    <2>3. PICK p \in Providers :
            /\ p \in keys /\ solve'.step = "create" /\ solve'.provider = p
            /\ p = "2captcha" => "capsolver" \notin keys
      BY <2>1, BlocksHold DEF callTypeOK, Providers
    <2>4. callTypeOK'
      BY <2>1, BlocksHold DEF callTypeOK, Call
    <2>5. QED
      BY <2>1, <2>2, <2>3, <2>4 DEF AskedInOrder, Asked, Working, Providers
  <1>4. CASE Solved
    BY <1>4 DEF Solved, AfterToken, solverVars, callTypeOK, Call, AskedInOrder, Asked, Working
  <1>5. CASE Unsolved
    BY <1>5 DEF Unsolved, solverVars, callTypeOK, Call, AskedInOrder, Asked, Working
  <1>6. CASE call = "solving" /\ SolverStep /\ UNCHANGED <<call, attemptVars>>
    BY <1>6, SolverHolds
  <1>7. QED
    BY <1>1, <1>2, <1>3, <1>4, <1>5, <1>6 DEF CallRuns

-----------------------------------------------------------------------------
(* The attempt.                                                            *)

LEMMA StartHolds ==
  ASSUME attemptTypeOK, ChargedOnce, NEW price \in Prices,
         Refuse(price) \/ DryRun(price) \/ Begin(price) \/ NoProxy(price)
  PROVE  attemptTypeOK' /\ ChargedOnce'
  <1>. USE DEF attemptTypeOK, ChargedOnce
  <1>1. MayTryAgain /\ paid' = paid /\ paid = 0 /\ resting' = resting
    BY DEF Refuse, DryRun, Begin, NoProxy
  <1>2. PICK at \in Stages \cup {"refused", "dry", "escaped"}, proxy \in Proxies \cup {"none"} :
          /\ attempt' = [at |-> at, error |-> "none", price |-> price, proxy |-> proxy]
          /\ at \in Stages => price <= MaxSpend /\ proxy \in Proxies
    BY DEF Refuse, DryRun, Begin, NoProxy, WithinCap, Stages
  <1>3. attempt' \in Attempt
    BY <1>2 DEF Attempt
  <1>4. attempt'.at = at /\ attempt'.error = "none" /\ attempt'.price = price
        /\ attempt'.proxy = proxy
    BY <1>2
  <1>5. QED
    BY <1>1, <1>2, <1>3, <1>4, CheckoutAssumption DEF Ended

LEMMA AttemptHolds ==
  ASSUME attemptTypeOK, ChargedOnce,
         \/ MethodsAnswered \/ MethodsFail \/ SessionCreated \/ SessionFails
         \/ SessionEscapes \/ CheckoutAnswered \/ CheckoutFails \/ Interrupted
  PROVE  attemptTypeOK' /\ ChargedOnce'
  <1>. USE DEF attemptTypeOK, ChargedOnce
  <1>1. /\ ~Ended /\ paid = 0 /\ attempt.error = "none" /\ attempt.price <= MaxSpend
        /\ attempt \in Attempt /\ attempt.proxy \in Proxies
    BY DEF MethodsAnswered, MethodsFail, SessionCreated, SessionFails, SessionEscapes,
           CheckoutAnswered, CheckoutFails, Interrupted, Ended, Stages
  <1>2. attempt.price \in Nat
    BY <1>1, CheckoutAssumption DEF Attempt
  <1>3. CASE MethodsAnswered \/ SessionCreated \/ SessionEscapes
    BY <1>1, <1>3 DEF MethodsAnswered, SessionCreated, SessionEscapes, Attempt, Ended, MayTryAgain, Stages
  <1>4. CASE MethodsFail \/ SessionFails
    <2>1. /\ attempt' \in {Failed("methods"), Failed("session")} /\ paid' = paid
          /\ resting' \in {resting, resting \cup {attempt.proxy}}
      BY <1>4 DEF MethodsFail, SessionFails
    <2>2. resting' \in SUBSET Proxies
      BY <1>1, <2>1
    <2>3. QED
      BY <1>1, <2>1, <2>2, CheckoutAssumption DEF Failed, Attempt, Ended, Stages
  <1>5. CASE CheckoutAnswered
    <2>1. attempt' = [attempt EXCEPT !.at = "bought"] /\ paid' = paid + attempt.price
          /\ resting' = resting
      BY <1>5 DEF CheckoutAnswered
    <2>2. paid' = attempt.price
      BY <1>1, <1>2, <2>1
    <2>3. attempt' \in Attempt /\ attempt'.at = "bought" /\ attempt'.price = attempt.price
      BY <1>1, <2>1 DEF Attempt
    <2>4. QED
      BY <1>1, <1>2, <2>1, <2>2, <2>3 DEF Ended, MayTryAgain, Stages
  <1>6. CASE CheckoutFails
    <2>1. attempt' = Failed("checkout") /\ paid' \in {paid, paid + attempt.price}
          /\ resting' = resting
      BY <1>6 DEF CheckoutFails
    <2>2. paid' \in {0, attempt.price}
      BY <1>1, <1>2, <2>1
    <2>3. attempt' \in Attempt /\ attempt'.at = "failed" /\ attempt'.error = "checkout"
          /\ attempt'.price = attempt.price
      BY <1>1, <2>1 DEF Attempt, Failed, Stages
    <2>4. QED
      BY <1>1, <1>2, <2>1, <2>2, <2>3, CheckoutAssumption DEF Ended, MayTryAgain, Stages
  <1>7. CASE Interrupted
    <2>1. /\ attempt' = [attempt EXCEPT !.at = "interrupted"]
          /\ paid' \in {paid, paid + attempt.price} /\ resting' = resting
      BY <1>7 DEF Interrupted
    <2>2. paid' \in {0, attempt.price}
      BY <1>1, <1>2, <2>1
    <2>3. /\ attempt' \in Attempt /\ attempt'.at = "interrupted"
          /\ attempt'.price = attempt.price
      BY <1>1, <2>1 DEF Attempt
    <2>4. QED
      BY <1>1, <1>2, <2>1, <2>2, <2>3, CheckoutAssumption DEF Ended, MayTryAgain, Stages
  <1>8. QED
    BY <1>3, <1>4, <1>5, <1>6, <1>7

-----------------------------------------------------------------------------
(* Theorems.                                                               *)

LEMMA InitHolds ==
  ASSUME Init PROVE IInv
  <1>1. attemptTypeOK /\ ChargedOnce
    BY CheckoutAssumption DEF Init, attemptTypeOK, ChargedOnce, Attempt, Ended, Stages
  <1>2. callTypeOK /\ AskedInOrder
    BY SolverAssumption
       DEF Init, SolverInit, callTypeOK, AskedInOrder, Asked, Call, NoSolve, NobodyAsked, Solve,
           Providers, Working
  <1>3. QED
    BY <1>1, <1>2 DEF IInv, TypeOK, attemptTypeOK, callTypeOK

LEMMA StepHolds ==
  ASSUME IInv, [Next]_vars PROVE IInv'
  <1>. DEFINE A == attemptTypeOK /\ ChargedOnce
              C == callTypeOK /\ AskedInOrder
  <1>1. A /\ C
    BY DEF IInv, TypeOK, attemptTypeOK, callTypeOK
  <1>2. ASSUME UNCHANGED <<call, solverVars>> PROVE C'
    BY <1>1, <1>2 DEF callTypeOK, AskedInOrder, Asked, Working, solverVars
  <1>3. ASSUME UNCHANGED attemptVars PROVE A'
    BY <1>1, <1>3 DEF attemptTypeOK, ChargedOnce, attemptVars, MayTryAgain, Ended
  <1>4. A' /\ C' => IInv'
    BY DEF IInv, TypeOK, attemptTypeOK, callTypeOK
  <1>5. CASE AttemptStarts
    <2>1. A'
      BY <1>1, <1>5, StartHolds DEF AttemptStarts
    <2>2. QED
      BY <1>2, <1>4, <1>5, <2>1 DEF AttemptStarts
  <1>6. CASE AttemptRuns
    <2>1. A'
      BY <1>1, <1>6, AttemptHolds DEF AttemptRuns
    <2>2. QED
      BY <1>2, <1>4, <1>6, <2>1 DEF AttemptRuns
  <1>7. CASE StartCall \/ CallRuns
    BY <1>1, <1>3, <1>4, <1>7, CallHolds
  <1>8. CASE Recover /\ UNCHANGED <<call, solverVars>>
    <2>1. A'
      BY <1>1, <1>8 DEF Recover, attemptTypeOK, ChargedOnce, MayTryAgain, Ended
    <2>2. QED
      BY <1>2, <1>4, <1>8, <2>1
  <1>9. CASE UNCHANGED vars
    BY <1>2, <1>3, <1>4, <1>9 DEF vars
  <1>10. QED
    BY <1>5, <1>6, <1>7, <1>8, <1>9 DEF Next

\* The invariant holds of every behaviour.
THEOREM InvariantHolds == Spec => []IInv
  BY InitHolds, StepHolds, PTL DEF Spec

\* Every variable holds what the code can put there, and a proxy is only ever marked
\* that the pool gave out.
THEOREM TypeCorrect == Spec => []TypeOK
<1>1. IInv => TypeOK
  BY DEF IInv
<1>2. QED
  BY <1>1, InvariantHolds, PTL

\* The checkout: whatever answers are lost, an operator who stops at a purchase, at an
\* error of the checkout itself and at an interrupted attempt pays at most once and
\* within the cap.
THEOREM NeverOverpaid == Spec => []PaidOnceWithinCap
<1>1. IInv => PaidOnceWithinCap
  BY DEF IInv, ChargedOnce, PaidOnceWithinCap
<1>2. QED
  BY <1>1, InvariantHolds, PTL

\* The solver: a call asks no provider twice and none without a key, and a CaptchaError
\* is raised only when every provider with a key was asked.
THEOREM EachProviderIsAsked == Spec => []EachProviderAskedOnce
<1>1. IInv => EachProviderAskedOnce
  BY DEF IInv, TypeOK, AskedInOrder, Asked, EachProviderAskedOnce
<1>2. QED
  BY <1>1, InvariantHolds, PTL

-----------------------------------------------------------------------------
(* A call runs down.                                                       *)

\* How many steps a solve can still take: the polls of the task in hand, and in the
\* first block those of the second.
SolveLeft ==
  LET second == IF solve.provider = "capsolver" THEN MaxPolls + 2 ELSE 0
  IN  CASE solve.step = "create" -> second + MaxPolls + 2
        [] solve.step = "poll" -> second + (MaxPolls - solve.polls) + 1
        [] OTHER -> 0

\* And a call: the request, the solve, the retry.
CallLeft ==
  CASE call = "first" -> 2 * MaxPolls + 7
    [] call = "solving" -> 2 + SolveLeft
    [] call = "retry" -> 1
    [] OTHER -> 0

LEMMA LeftIsBounded ==
  ASSUME callTypeOK
  PROVE  SolveLeft \in 0 .. 2 * MaxPolls + 4 /\ CallLeft \in 0 .. 2 * MaxPolls + 7
  <1>1. solve.polls \in Nat /\ solve.polls <= MaxPolls /\ MaxPolls \in Nat
    BY SolverAssumption DEF callTypeOK, Solve
  <1>2. SolveLeft \in 0 .. 2 * MaxPolls + 4
    BY <1>1 DEF SolveLeft
  <1>3. QED
    BY <1>1, <1>2 DEF CallLeft

\* Each step of the solver leaves less of the solve.
LEMMA SolverTakesOne ==
  ASSUME callTypeOK, SolverStep
  PROVE  SolveLeft' < SolveLeft
  <1>1. /\ solve \in Solve /\ solve.polls \in Nat /\ solve.polls <= MaxPolls
        /\ MaxPolls \in Nat \ {0} /\ keys' = keys
    BY SolverAssumption DEF callTypeOK, Solve, SolverStep
  <1>2. CASE CreateTask
    <2>1. /\ solve.step = "create" /\ solve'.step = "poll" /\ solve'.polls = solve.polls
          /\ solve'.provider = solve.provider
      BY <1>1, <1>2 DEF CreateTask, Solve
    <2>2. QED
      BY <1>1, <2>1 DEF SolveLeft
  <1>3. CASE NotReady
    <2>1. /\ solve.step = "poll" /\ solve'.step = "poll" /\ solve'.polls = solve.polls + 1
          /\ solve'.provider = solve.provider /\ solve.polls < MaxPolls
      BY <1>1, <1>3 DEF NotReady, Solve
    <2>2. QED
      BY <1>1, <2>1 DEF SolveLeft
  <1>4. CASE Ready \/ Escapes
    <2>1. solve.step \in {"create", "poll"} /\ solve'.step \in {"solved", "escaped"}
      BY <1>1, <1>4 DEF Ready, Escapes, Working, Solve
    <2>2. QED
      BY <1>1, <2>1 DEF SolveLeft
  <1>5. CASE ProviderFails
    <2>1. solve' = AfterFailure(solve.provider) /\ solve.step \in {"create", "poll"}
      BY <1>5 DEF ProviderFails, Working
    <2>2. CASE solve'.step = "error"
      <3>1. SolveLeft' = 0
        BY <2>2 DEF SolveLeft
      <3>2. SolveLeft > 0
        BY <1>1, <2>1 DEF SolveLeft
      <3>3. QED
        BY <3>1, <3>2
    <2>3. CASE solve'.step # "error"
      <3>1. solve.provider = "capsolver" /\ solve' = Ask("2captcha")
        BY <2>1, <2>3, BlocksHold DEF AfterFailure
      <3>2. SolveLeft' = MaxPolls + 2
        BY <1>1, <3>1 DEF SolveLeft, Ask
      <3>3. SolveLeft > MaxPolls + 2
        BY <1>1, <2>1, <3>1 DEF SolveLeft
      <3>4. QED
        BY <3>2, <3>3
    <2>4. QED
      BY <2>2, <2>3
  <1>6. QED
    BY <1>2, <1>3, <1>4, <1>5 DEF SolverStep

\* A call once begun takes a bounded number of steps: one request, at most two
\* providers with at most MaxPolls polls each, and one retry, whatever the venue and
\* the providers answer. What CallsEnd adds is that the coroutine goes on.
THEOREM CallRunsDown ==
  Spec => /\ [](CallLeft \in 0 .. 2 * MaxPolls + 7)
          /\ [][ (call \in {"first", "solving", "retry"} /\ (call' # call \/ solve' # solve))
                   => CallLeft' < CallLeft ]_vars
  <1>1. ASSUME IInv, CallRuns PROVE CallLeft' < CallLeft
    <2>1. callTypeOK /\ SolveLeft \in Nat /\ MaxPolls \in Nat
      <3>1. callTypeOK
        BY <1>1 DEF IInv, TypeOK, callTypeOK
      <3>2. QED
        BY <3>1, LeftIsBounded, SolverAssumption
    <2>2. callTypeOK' /\ SolveLeft' \in 0 .. 2 * MaxPolls + 4
      <3>1. callTypeOK'
        BY <1>1, <2>1, CallHolds DEF IInv
      <3>2. solve'.polls \in Nat /\ solve'.polls <= MaxPolls
        BY <3>1 DEF callTypeOK, Solve
      <3>3. QED
        BY <2>1, <3>1, <3>2 DEF SolveLeft
    <2>3. CASE CallAnswered
      <3>1. call \in {"first", "retry"} /\ call' \in {"answered", "raised"}
        BY <2>3 DEF CallAnswered
      <3>2. QED
        BY <2>1, <3>1 DEF CallLeft
    <2>4. CASE Challenged
      <3>1. call = "first" /\ call' = "solving"
        BY <2>4 DEF Challenged
      <3>2. QED
        BY <2>1, <2>2, <3>1 DEF CallLeft
    <2>5. CASE Solved \/ Unsolved
      <3>1. call = "solving" /\ call' \in {"retry", "answered"}
        BY <2>5 DEF Solved, Unsolved, AfterToken
      <3>2. QED
        BY <2>1, <3>1 DEF CallLeft
    <2>6. CASE call = "solving" /\ SolverStep /\ UNCHANGED <<call, attemptVars>>
      <3>1. SolveLeft' < SolveLeft /\ call' = "solving"
        BY <2>1, <2>6, SolverTakesOne
      <3>2. QED
        BY <2>1, <2>2, <2>6, <3>1 DEF CallLeft
    <2>7. QED
      BY <1>1, <2>3, <2>4, <2>5, <2>6 DEF CallRuns
  <1>2. ASSUME IInv, Next, call \in {"first", "solving", "retry"}, call' # call \/ solve' # solve
        PROVE  CallLeft' < CallLeft
    <2>1. CASE CallRuns
      BY <1>1, <1>2, <2>1
    <2>2. CASE StartCall
      BY <1>2, <2>2 DEF StartCall
    <2>3. CASE UNCHANGED <<call, solverVars>>
      BY <1>2, <2>3 DEF solverVars
    <2>4. QED
      BY <1>2, <2>1, <2>2, <2>3 DEF Next, AttemptStarts, AttemptRuns
  <1>3. IInv => CallLeft \in 0 .. 2 * MaxPolls + 7
    BY LeftIsBounded DEF IInv, TypeOK, callTypeOK
  <1>4. IInv /\ [Next]_vars =>
          [ (call \in {"first", "solving", "retry"} /\ (call' # call \/ solve' # solve))
              => CallLeft' < CallLeft ]_vars
    BY <1>2, Zenon
  <1>5. QED
    BY <1>3, <1>4, InvariantHolds, PTL DEF Spec
=============================================================================
