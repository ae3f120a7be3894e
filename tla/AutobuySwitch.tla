---------------------------- MODULE AutobuySwitch ----------------------------
(***************************************************************************)
(* The dead-man switch of AutoBuy (src/arb/cli.py, `arb autobuy arm | stop *)
(* | resume | status`, over the one row of autobuy_state).                 *)
(*                                                                         *)
(* Each command is a process with a session of its own. It reads the row   *)
(* (creating it, disarmed, when there is none), decides, and commits an    *)
(* UPDATE that names only the columns whose value it changed. Nothing      *)
(* locks the row between the read and the UPDATE, and no version column    *)
(* guards it, so commands that overlap commit over one another.            *)
(***************************************************************************)
EXTENDS Naturals

CONSTANTS
  Session,   \* the commands that may run at once
  MinArm,    \* MIN_ARM_HOURS
  MaxArm,    \* MAX_ARM_HOURS
  MaxNow,    \* bound of the clock, in hours
  None       \* SQL NULL

ASSUME SwitchAssumption ==
  /\ MinArm \in Nat /\ MaxArm \in Nat /\ MinArm <= MaxArm
  /\ MaxNow \in Nat
  /\ None \notin Nat

VARIABLES
  row,       \* the row with id 1: [found, armed, kill]
  session,   \* the commands in progress
  now,       \* the clock
  lastArm,   \* history: when the latest arm committed
  stopped    \* history: a stop ran alone, and no resume was issued since

vars == <<row, session, now, lastArm, stopped>>

Time == 0 .. MaxNow + MaxArm
Row == [found : BOOLEAN, armed : Time \cup {None}, kill : BOOLEAN]

\* _autobuy_state creates the row disarmed on first access.
Disarmed == [found |-> TRUE, armed |-> None, kill |-> FALSE]
NoRow == [found |-> FALSE, armed |-> None, kill |-> FALSE]

Command == {"idle", "arm", "stop", "resume", "status"}

\* `read` is the row as the SELECT found it, `set` what the command makes of
\* it, `alone` whether no other command has overlapped this one.
SessionRecord == [cmd : Command, read : Row, set : Row, alone : BOOLEAN]
IdleSession == [cmd |-> "idle", read |-> NoRow, set |-> NoRow, alone |-> TRUE]

Init ==
  /\ row = NoRow
  /\ session = [s \in Session |-> IdleSession]
  /\ now = 0
  /\ lastArm = None
  /\ stopped = FALSE

-----------------------------------------------------------------------------
\* The row a session works on: what it read, or a new disarmed one.
Seen == [row EXCEPT !.found = TRUE]

\* A command reads the row and computes its new value. It is alone only if no
\* other command is in progress, and from now on neither are they.
Issue(s, cmd, new) ==
  /\ session[s].cmd = "idle"
  /\ session' = [x \in Session |->
       IF x = s
         THEN [cmd |-> cmd, read |-> row, set |-> new,
               alone |-> \A y \in Session \ {s} : session[y].cmd = "idle"]
         ELSE [cmd |-> session[x].cmd, read |-> session[x].read, set |-> session[x].set,
               alone |-> session[x].cmd = "idle"]]
  /\ UNCHANGED <<row, now, lastArm>>

\* Mutant: the kill switch is not looked at.
ArmRegardless(s) ==
  /\ \E h \in MinArm .. MaxArm : Issue(s, "arm", [Seen EXCEPT !.armed = now + h])
  /\ UNCHANGED stopped

\* Mutant: any number of hours goes.
ArmUnbounded(s) ==
  /\ ~row.kill
  /\ Issue(s, "arm", [Seen EXCEPT !.armed = MaxNow + MaxArm])
  /\ UNCHANGED stopped

\* autobuy_arm: refused outside the bounds and while the kill switch is on (the
\* refusal rolls back, leaving nothing behind).
Arm(s) ==
  /\ ~row.kill
  /\ \E h \in MinArm .. MaxArm : Issue(s, "arm", [Seen EXCEPT !.armed = now + h])
  /\ UNCHANGED stopped

\* autobuy_stop.
Stop(s) ==
  /\ Issue(s, "stop", [Seen EXCEPT !.armed = None, !.kill = TRUE])
  /\ UNCHANGED stopped

\* autobuy_resume.
Resume(s) ==
  /\ Issue(s, "resume", [Seen EXCEPT !.kill = FALSE])
  /\ stopped' = FALSE

\* autobuy_status only reads, but its read creates the row.
Status(s) ==
  /\ Issue(s, "status", Seen)
  /\ UNCHANGED stopped

\* Mutant: the row is changed but was never added to the session.
WrittenWithoutInsert(s) == [session[s].set EXCEPT !.found = row.found]

\* The UPDATE: the columns the session changed, over the row as it is now. When
\* the row was created by this session the INSERT holds every column.
Written(s) ==
  LET r == session[s].read
      n == session[s].set
  IN [found |-> TRUE,
      armed |-> IF n.armed = r.armed THEN row.armed ELSE n.armed,
      kill |-> IF n.kill = r.kill THEN row.kill ELSE n.kill]

Finish(s) == session' = [session EXCEPT ![s] = IdleSession]

Commit(s) ==
  /\ session[s].cmd # "idle"
  /\ session[s].read.found \/ ~row.found
  /\ row' = Written(s)
  /\ Finish(s)
  /\ lastArm' = IF session[s].cmd = "arm" THEN now ELSE lastArm
  /\ stopped' = (stopped \/ (session[s].cmd = "stop" /\ session[s].alone))
  /\ UNCHANGED now

\* The INSERT of a session that found no row meets the row of another
\* (IntegrityError), a lock times out, or the process dies: rolled back.
Rollback(s) ==
  /\ session[s].cmd # "idle"
  /\ Finish(s)
  /\ UNCHANGED <<row, now, lastArm, stopped>>

Tick ==
  /\ now < MaxNow
  /\ now' = now + 1
  /\ UNCHANGED <<row, session, lastArm, stopped>>

Next ==
  \/ \E s \in Session :
       Arm(s) \/ Stop(s) \/ Resume(s) \/ Status(s) \/ Commit(s) \/ Rollback(s)
  \/ Tick

Spec == Init /\ [][Next]_vars

-----------------------------------------------------------------------------
\* What authorise() asks of the row (autobuy.py, _global_breach).
Armed == row.armed # None /\ row.armed > now
Permits == Armed /\ ~row.kill

\* Every variable keeps its shape, and a row never read is never there.
TypeOK ==
  /\ row \in Row
  /\ session \in [Session -> SessionRecord]
  /\ now \in 0 .. MaxNow
  /\ lastArm \in (0 .. MaxNow) \cup {None}
  /\ stopped \in BOOLEAN
  /\ ~row.found => row = NoRow

\* Walking away disarms (AutobuyState's docstring: "walking away from the
\* machine stops it"): MaxArm hours after the last arm took effect AutoBuy permits nothing,
\* whatever stale sessions commit in the meantime.
WalkAwayDisarms == Permits => lastArm # None /\ now < lastArm + MaxArm

\* A stop that no other command overlapped stays in force (autobuy_stop:
\* "Engage the kill switch and disarm immediately") until a resume is issued,
\* through every arm and status issued meanwhile.
StoppedStaysStopped == stopped => row.kill /\ row.armed = None

\* autobuy_stop prints "kill switch engaged, AutoBuy disarmed" and
\* autobuy_resume "kill switch cleared -- still disarmed": with the kill switch
\* on there is no open window for a resume to uncover.
KilledIsDisarmed == row.kill => row.armed = None
=============================================================================
