------------------------ MODULE AutobuySwitchProofs ------------------------
(***************************************************************************)
(* Proofs about AutobuySwitch, for any number of concurrent commands, any  *)
(* bounds of the armed window and any bound of the clock.                  *)
(*                                                                         *)
(* What is in force is decided by what the sessions still carry: the       *)
(* inductive invariant bounds the windows that arm sessions may yet write, *)
(* and says that while a stop is in force every session in progress read,  *)
(* and will write, a killed and disarmed row.                              *)
(***************************************************************************)
EXTENDS AutobuySwitch, TLAPS

Active(s) == session[s].cmd # "idle"

\* A window, written or about to be, is at most MaxArm ahead of its arm.
WindowsAreBounded ==
  /\ lastArm # None => lastArm <= now
  /\ row.armed # None => lastArm # None /\ row.armed <= lastArm + MaxArm
  /\ \A s \in Session : Active(s) =>
       \/ session[s].set.armed \in {None, session[s].read.armed}
       \/ session[s].cmd = "arm" /\ session[s].set.armed <= now + MaxArm

\* A session nobody overlapped still sees the row it read, and is the only one.
AloneIsAlone ==
  \A s \in Session : Active(s) /\ session[s].alone =>
    /\ session[s].read = row
    /\ \A x \in Session \ {s} : ~Active(x)

\* What a stop writes.
StopsStop ==
  \A s \in Session : session[s].cmd = "stop" =>
    session[s].set.kill /\ session[s].set.armed = None

\* While a stop is in force, so is it in every session in progress.
SessionsAgree ==
  stopped => \A s \in Session : Active(s) =>
    /\ session[s].read.kill /\ session[s].read.armed = None
    /\ session[s].set.kill /\ session[s].set.armed = None

IInv ==
  /\ TypeOK
  /\ WindowsAreBounded
  /\ AloneIsAlone
  /\ StopsStop
  /\ SessionsAgree
  /\ StoppedStaysStopped

-----------------------------------------------------------------------------
\* Initially there is no row and no command.
LEMMA InitIInv == Init => IInv
<1> SUFFICES ASSUME Init PROVE IInv
  OBVIOUS
<1>1. NoRow \in Row /\ IdleSession \in SessionRecord
  BY DEF Row, SessionRecord, IdleSession, NoRow, Command
<1>2. TypeOK
  <2>1. stopped \in BOOLEAN
    BY DEF Init
  <2>2. session \in [Session -> SessionRecord] /\ row \in Row
    BY <1>1 DEF Init
  <2>3. now \in 0 .. MaxNow /\ lastArm \in (0 .. MaxNow) \cup {None}
    BY SwitchAssumption DEF Init
  <2>4. QED BY <2>1, <2>2, <2>3 DEF Init, TypeOK
<1>3. \A s \in Session : session[s].cmd = "idle"
  BY DEF Init, IdleSession
<1>4. row.armed = None
  BY DEF Init, NoRow
<1>5. QED
  BY <1>2, <1>3, <1>4
  DEF Init, IInv, WindowsAreBounded, AloneIsAlone, StopsStop, SessionsAgree,
      StoppedStaysStopped, Active

\* The types are preserved by issuing a command whose new row is a row.
LEMMA IssueType ==
  ASSUME TypeOK, NEW s \in Session, NEW cmd \in Command, NEW new \in Row,
         Issue(s, cmd, new), stopped' \in BOOLEAN
  PROVE  TypeOK'
  BY SwitchAssumption DEF Issue, TypeOK, SessionRecord

\* Each command writes a row.
LEMMA NewRows ==
  ASSUME TypeOK
  PROVE  /\ \A h \in MinArm .. MaxArm : [Seen EXCEPT !.armed = now + h] \in Row
         /\ [Seen EXCEPT !.armed = None, !.kill = TRUE] \in Row
         /\ [Seen EXCEPT !.kill = FALSE] \in Row
         /\ Seen \in Row
<1>1. Seen \in Row
  BY DEF TypeOK, Seen, Row
<1>2. \A h \in MinArm .. MaxArm : now + h \in Time
  BY SwitchAssumption DEF TypeOK, Time
<1>3. QED BY <1>1, <1>2 DEF Row

\* The types are preserved by every step.
LEMMA TypeStep == ASSUME TypeOK, [Next]_vars PROVE TypeOK'
<1>1. ASSUME NEW s \in Session, Arm(s) PROVE TypeOK'
  BY <1>1, NewRows, IssueType DEF Arm, Command, TypeOK
<1>2. ASSUME NEW s \in Session, Stop(s) PROVE TypeOK'
  BY <1>2, NewRows, IssueType DEF Stop, Command, TypeOK
<1>3. ASSUME NEW s \in Session, Resume(s) PROVE TypeOK'
  BY <1>3, NewRows, IssueType DEF Resume, Command
<1>4. ASSUME NEW s \in Session, Status(s) PROVE TypeOK'
  BY <1>4, NewRows, IssueType DEF Status, Command, TypeOK
<1>5. ASSUME NEW s \in Session, Commit(s) PROVE TypeOK'
  <2>1. IdleSession \in SessionRecord
    BY DEF IdleSession, SessionRecord, NoRow, Row, Command
  <2>2. session' \in [Session -> SessionRecord]
    BY <1>5, <2>1 DEF Commit, Finish, TypeOK
  <2>3. row' \in Row /\ row'.found
    BY <1>5 DEF Commit, Written, TypeOK, SessionRecord, Row
  <2>4. QED BY <1>5, <2>2, <2>3 DEF Commit, TypeOK
<1>6. ASSUME NEW s \in Session, Rollback(s) PROVE TypeOK'
  BY <1>6 DEF Rollback, Finish, TypeOK, IdleSession, SessionRecord, NoRow, Row, Command
<1>7. CASE Tick
  BY <1>7, SwitchAssumption DEF Tick, TypeOK
<1>8. CASE UNCHANGED vars
  BY <1>8 DEF vars, TypeOK
<1>9. QED BY <1>1, <1>2, <1>3, <1>4, <1>5, <1>6, <1>7, <1>8 DEF Next

\* Every variable keeps its shape in every behaviour (property TypeOK).
THEOREM TypeCorrect == Spec => []TypeOK
<1>1. Init => TypeOK BY InitIInv DEF IInv
<1>2. QED BY <1>1, TypeStep, PTL DEF Spec

-----------------------------------------------------------------------------
\* Issuing keeps the invariant when the new row leaves the window alone, closes
\* it or opens a bounded one, and, while a stop is in force, keeps it stopped.
LEMMA IssueStep ==
  ASSUME IInv, NEW s \in Session, NEW cmd \in Command, NEW new \in Row,
         cmd # "idle",
         Issue(s, cmd, new),
         TypeOK',
         stopped' => stopped,
         \/ new.armed = None
         \/ new.armed = row.armed
         \/ cmd = "arm" /\ new.armed <= now + MaxArm,
         cmd = "stop" => new.kill /\ new.armed = None,
         stopped' => new.kill /\ new.armed = None
  PROVE  IInv'
<1> USE DEF IInv, Issue, Active
<1>1. TypeOK'
  OBVIOUS
<1>2. session \in [Session -> SessionRecord] /\ row \in Row
  BY DEF TypeOK
<1>3. /\ session'[s].cmd = cmd /\ session'[s].read = row /\ session'[s].set = new
      /\ session'[s].alone = (\A y \in Session \ {s} : session[y].cmd = "idle")
  OBVIOUS
<1>4. \A x \in Session \ {s} :
        /\ session'[x].cmd = session[x].cmd /\ session'[x].read = session[x].read
        /\ session'[x].set = session[x].set
        /\ session'[x].alone = (session[x].cmd = "idle")
  OBVIOUS
<1>5. WindowsAreBounded'
  BY <1>3, <1>4 DEF WindowsAreBounded
<1>6. AloneIsAlone'
  BY <1>3, <1>4 DEF AloneIsAlone
<1>7. StopsStop'
  BY <1>3, <1>4 DEF StopsStop
<1>8. SessionsAgree' /\ StoppedStaysStopped'
  BY <1>3, <1>4 DEF SessionsAgree, StoppedStaysStopped
<1>9. QED BY <1>1, <1>5, <1>6, <1>7, <1>8

\* A commit keeps the invariant.
LEMMA CommitStep == ASSUME IInv, NEW s \in Session, Commit(s), TypeOK' PROVE IInv'
<1> USE DEF Active
<1> DEFINE r == session[s].read
           n == session[s].set
<1>1. /\ row' = [found |-> TRUE,
                 armed |-> IF n.armed = r.armed THEN row.armed ELSE n.armed,
                 kill |-> IF n.kill = r.kill THEN row.kill ELSE n.kill]
      /\ now' = now /\ Active(s)
      /\ lastArm' = IF session[s].cmd = "arm" THEN now ELSE lastArm
      /\ stopped' = (stopped \/ (session[s].cmd = "stop" /\ session[s].alone))
  BY DEF Commit, Written
<1>2. /\ session'[s].cmd = "idle"
      /\ \A x \in Session \ {s} : session'[x] = session[x]
  BY DEF Commit, Finish, IdleSession, IInv, TypeOK
<1>3. now \in Nat /\ MaxArm \in Nat
  BY SwitchAssumption DEF IInv, TypeOK
<1>4. WindowsAreBounded'
  <2>1. lastArm' # None => lastArm' <= now
    BY <1>1, <1>3 DEF IInv, WindowsAreBounded
  <2>2. row'.armed # None => lastArm' # None /\ row'.armed <= lastArm' + MaxArm
    <3>1. CASE n.armed = r.armed
      <4>1. row'.armed = row.armed
        BY <1>1, <3>1
      <4>2. lastArm \in Nat \cup {None} /\ row.armed \in Nat \cup {None}
        BY SwitchAssumption DEF IInv, TypeOK, Row, Time
      <4>3. None \notin Nat
        BY SwitchAssumption
      <4>4. QED BY <1>1, <1>3, <4>1, <4>2, <4>3 DEF IInv, WindowsAreBounded
    <3>2. CASE n.armed # r.armed
      <4>1. row'.armed = n.armed
        BY <1>1, <3>2
      <4>2. n.armed # None => session[s].cmd = "arm" /\ n.armed <= now + MaxArm
        BY <1>1, <3>2 DEF IInv, WindowsAreBounded
      <4>3. now # None
        BY <1>3, SwitchAssumption
      <4>4. QED BY <1>1, <4>1, <4>2, <4>3
    <3>3. QED BY <3>1, <3>2
  <2>3. ASSUME NEW x \in Session, Active(x)'
        PROVE \/ session'[x].set.armed \in {None, session'[x].read.armed}
              \/ session'[x].cmd = "arm" /\ session'[x].set.armed <= now + MaxArm
    BY <1>2, <2>3 DEF IInv, WindowsAreBounded
  <2>4. QED BY <1>1, <2>1, <2>2, <2>3 DEF WindowsAreBounded
<1>5. AloneIsAlone'
  BY <1>1, <1>2 DEF IInv, AloneIsAlone
<1>6. StopsStop'
  BY <1>2 DEF IInv, StopsStop
<1>7. CASE stopped
  <2>1. row'.kill /\ row'.armed = None
    BY <1>1, <1>7 DEF IInv, SessionsAgree, StoppedStaysStopped
  <2>2. SessionsAgree'
    BY <1>2, <1>7 DEF IInv, SessionsAgree
  <2>3. QED BY <1>4, <1>5, <1>6, <2>1, <2>2 DEF IInv, StoppedStaysStopped
<1>8. CASE ~stopped /\ stopped'
  <2>1. session[s].cmd = "stop" /\ session[s].alone
    BY <1>1, <1>8
  <2>2. n.kill /\ n.armed = None /\ r = row
    BY <1>1, <2>1 DEF IInv, StopsStop, AloneIsAlone
  <2>3. row.kill \in BOOLEAN /\ n.kill \in BOOLEAN
    BY DEF IInv, TypeOK, SessionRecord, Row
  <2>4. row'.kill /\ row'.armed = None
    BY <1>1, <2>2, <2>3
  <2>5. \A x \in Session : ~Active(x)'
    BY <1>1, <1>2, <2>1 DEF IInv, AloneIsAlone
  <2>6. QED BY <1>4, <1>5, <1>6, <2>4, <2>5 DEF IInv, StoppedStaysStopped, SessionsAgree
<1>9. CASE ~stopped'
  BY <1>4, <1>5, <1>6, <1>9 DEF IInv, StoppedStaysStopped, SessionsAgree
<1>10. QED BY <1>7, <1>8, <1>9

\* IInv is inductive, so it holds in every behaviour.
LEMMA IInvHolds == Spec => []IInv
<1>1. ASSUME IInv, [Next]_vars PROVE IInv'
  <2>1. TypeOK /\ TypeOK' /\ now \in Nat /\ row \in Row
    BY <1>1, TypeStep DEF IInv, TypeOK
  <2>2. Seen.armed = row.armed /\ Seen.kill = row.kill
    BY <2>1 DEF Seen, Row
  <2>3. ASSUME NEW s \in Session, Arm(s) PROVE IInv'
    <3>1. PICK h \in MinArm .. MaxArm : Issue(s, "arm", [Seen EXCEPT !.armed = now + h])
      BY <2>3 DEF Arm
    <3>2. now + h <= now + MaxArm
      BY <2>1, SwitchAssumption
    <3>3. PICK new \in Row : Issue(s, "arm", new) /\ new.armed <= now + MaxArm
      <4>1. [Seen EXCEPT !.armed = now + h] \in Row
        BY <2>1, NewRows
      <4>2. [Seen EXCEPT !.armed = now + h].armed = now + h
        BY <2>1 DEF Seen, Row
      <4>3. QED BY <3>1, <3>2, <4>1, <4>2
    <3>4. ~stopped' /\ stopped' = stopped
      BY <1>1, <2>3 DEF Arm, IInv, StoppedStaysStopped
    <3>5. QED BY <1>1, <2>1, <3>3, <3>4, IssueStep DEF Command
  <2>4. ASSUME NEW s \in Session, Stop(s) PROVE IInv'
    <3>1. [Seen EXCEPT !.armed = None, !.kill = TRUE] \in Row
      BY <2>1, NewRows
    <3>2. PICK new \in Row : Issue(s, "stop", new) /\ new.kill /\ new.armed = None
      BY <2>1, <2>4, <3>1 DEF Stop, Seen, Row
    <3>3. stopped' => stopped
      BY <2>4 DEF Stop
    <3>4. QED BY <1>1, <2>1, <3>2, <3>3, IssueStep DEF Command
  <2>5. ASSUME NEW s \in Session, Resume(s) PROVE IInv'
    <3>1. [Seen EXCEPT !.kill = FALSE] \in Row
      BY <2>1, NewRows
    <3>2. PICK new \in Row : Issue(s, "resume", new) /\ new.armed = row.armed
      BY <2>1, <2>5, <3>1 DEF Resume, Seen, Row
    <3>3. ~stopped'
      BY <2>5 DEF Resume
    <3>4. QED BY <1>1, <2>1, <3>2, <3>3, IssueStep DEF Command
  <2>6. ASSUME NEW s \in Session, Status(s) PROVE IInv'
    <3>1. PICK new \in Row : Issue(s, "status", new) /\ new = Seen
      BY <2>1, <2>6, NewRows DEF Status
    <3>2. stopped' => stopped
      BY <2>6 DEF Status
    <3>3. stopped' => new.kill /\ new.armed = None
      BY <1>1, <2>2, <3>1, <3>2 DEF IInv, StoppedStaysStopped
    <3>4. QED BY <1>1, <2>1, <2>2, <3>1, <3>2, <3>3, IssueStep DEF Command
  <2>7. ASSUME NEW s \in Session, Commit(s) PROVE IInv'
    BY <1>1, <2>1, <2>7, CommitStep
  <2>8. ASSUME NEW s \in Session, Rollback(s) PROVE IInv'
    <3>1. /\ session'[s].cmd = "idle"
          /\ \A x \in Session \ {s} : session'[x] = session[x]
          /\ UNCHANGED <<row, now, lastArm, stopped>>
      BY <2>1, <2>8 DEF Rollback, Finish, IdleSession, TypeOK
    <3>2. QED
      BY <1>1, <2>1, <3>1 DEF IInv, WindowsAreBounded, AloneIsAlone, StopsStop, SessionsAgree,
         StoppedStaysStopped, Active
  <2>9. CASE Tick
    <3>1. now' = now + 1 /\ UNCHANGED <<row, session, lastArm, stopped>>
      BY <2>9 DEF Tick
    <3>2. WindowsAreBounded'
      BY <1>1, <2>1, <3>1, SwitchAssumption
      DEF IInv, WindowsAreBounded, Active, TypeOK, SessionRecord, Row, Time
    <3>3. QED
      BY <1>1, <2>1, <3>1, <3>2
      DEF IInv, AloneIsAlone, StopsStop, SessionsAgree, StoppedStaysStopped, Active
  <2>10. CASE UNCHANGED vars
    BY <1>1, <2>1, <2>10 DEF IInv, vars, WindowsAreBounded, AloneIsAlone, StopsStop,
       SessionsAgree, StoppedStaysStopped, Active
  <2>11. QED
    BY <1>1, <2>3, <2>4, <2>5, <2>6, <2>7, <2>8, <2>9, <2>10 DEF Next
<1>2. QED BY InitIInv, <1>1, PTL DEF Spec

-----------------------------------------------------------------------------
\* MaxArm hours after the last arm took effect, AutoBuy permits nothing.
THEOREM WalkingAwayDisarms == Spec => []WalkAwayDisarms
<1>1. IInv => WalkAwayDisarms
  BY SwitchAssumption
  DEF IInv, WalkAwayDisarms, WindowsAreBounded, Permits, Armed, TypeOK, Row, Time
<1>2. QED BY <1>1, IInvHolds, PTL

\* A stop that nothing overlapped stays in force until a resume is issued.
THEOREM StopStaysInForce == Spec => []StoppedStaysStopped
<1>1. IInv => StoppedStaysStopped BY DEF IInv
<1>2. QED BY <1>1, IInvHolds, PTL
=============================================================================
