-------------------------- MODULE RestartManager --------------------------
(***************************************************************************)
(* restartmanager/restartmanager.go: decides whether a container whose     *)
(* process exited is started again, and delivers that decision through a   *)
(* channel after the back-off, unless Cancel comes first.                  *)
(*                                                                         *)
(* There is one manager per start of a container; managers are created by  *)
(* New and never shared, so the state is a function over the managers.     *)
(* The length of the back-off is left out: the timer may fire at any time. *)
(***************************************************************************)
EXTENDS Naturals

CONSTANTS
  Manager,           \* the restart managers
  PolicyName,        \* policy.Name
  MaximumRetryCount  \* policy.MaximumRetryCount, 0 for no limit

ASSUME PolicyAssumption ==
  /\ PolicyName \in {"no", "always", "unless-stopped", "on-failure"}
  /\ MaximumRetryCount \in Nat

VARIABLE
  rm  \* rm[m]: canceled, active and restartCount are the fields of the
      \* struct; wait is the channel ShouldRestart returned: "none" before
      \* the first call and once its value has been received, "selecting"
      \* while its goroutine waits, then "restart" or "canceled"

Wait == {"none", "selecting", "restart", "canceled"}

ManagersTypeOK ==
  rm \in [Manager -> [canceled : BOOLEAN, active : BOOLEAN,
                      restartCount : Nat, wait : Wait]]

NewManager == [canceled |-> FALSE, active |-> FALSE, restartCount |-> 0, wait |-> "none"]

ManagersInit == rm = [m \in Manager |-> NewManager]

-----------------------------------------------------------------------------
\* A mutant of PolicyWants.
PolicyWantsOffByOne(m, exitCode, hasBeenManuallyStopped) ==
  \/ PolicyName \in {"always", "unless-stopped"}
  \/ /\ PolicyName = "on-failure"
     /\ MaximumRetryCount = 0 \/ rm[m].restartCount <= MaximumRetryCount
     /\ exitCode # 0

\* The switch on the policy.
PolicyWants(m, exitCode, hasBeenManuallyStopped) ==
  \/ PolicyName = "always"
  \/ PolicyName = "unless-stopped" /\ ~hasBeenManuallyStopped
  \/ /\ PolicyName = "on-failure"
     /\ MaximumRetryCount = 0 \/ rm[m].restartCount < MaximumRetryCount
     /\ exitCode # 0

\* A mutant of MayRestart.
MayRestartWhenCanceled(m, exitCode, hasBeenManuallyStopped) ==
  /\ ~rm[m].active
  /\ PolicyWants(m, exitCode, hasBeenManuallyStopped)

\* ShouldRestart answers true.  handleEvent always passes false for
\* hasBeenManuallyStopped; the daemon's start passes the container's flag.
MayRestart(m, exitCode, hasBeenManuallyStopped) ==
  /\ PolicyName # "no"
  /\ ~rm[m].canceled
  /\ ~rm[m].active
  /\ PolicyWants(m, exitCode, hasBeenManuallyStopped)

\* ... and then counts the restart and starts the goroutine.
ShouldRestart(m, exitCode, hasBeenManuallyStopped) ==
  /\ MayRestart(m, exitCode, hasBeenManuallyStopped)
  /\ rm' = [rm EXCEPT ![m].restartCount = @ + 1,
                      ![m].active = TRUE,
                      ![m].wait = "selecting"]

\* A mutant of TimerFires: the manager stays active.
TimerFiresActive(m) ==
  /\ rm[m].wait = "selecting"
  /\ rm' = [rm EXCEPT ![m].wait = "restart"]

\* case <-time.After(rm.timeout).  A select takes any ready case, so this is
\* possible although rm.cancel is closed too.
TimerFires(m) ==
  /\ rm[m].wait = "selecting"
  /\ rm' = [rm EXCEPT ![m].wait = "restart", ![m].active = FALSE]

\* case <-rm.cancel.
CancelSeen(m) ==
  /\ rm[m].wait = "selecting"
  /\ rm[m].canceled
  /\ rm' = [rm EXCEPT ![m].wait = "canceled"]

\* The caller receives from the channel.
Receive(m) ==
  /\ rm[m].wait \in {"restart", "canceled"}
  /\ rm' = [rm EXCEPT ![m].wait = "none"]

Cancel(m) == rm' = [rm EXCEPT ![m].canceled = TRUE]

\* The calls in any order; handleEvent's goroutine receives from one channel
\* before the process can exit again and ShouldRestart make the next one.
ManagersNext == \E m \in Manager :
  \/ rm[m].wait = "none" /\ \E exitCode \in {0, 1}, stopped \in BOOLEAN :
                               ShouldRestart(m, exitCode, stopped)
  \/ TimerFires(m)
  \/ CancelSeen(m)
  \/ Receive(m)
  \/ Cancel(m)

ManagersSpec == ManagersInit /\ [][ManagersNext]_rm

-----------------------------------------------------------------------------
\* "on-failure:N" restarts at most N times per start of the container.
RetriesBounded ==
  PolicyName = "on-failure" /\ MaximumRetryCount > 0
    => \A m \in Manager : rm[m].restartCount <= MaximumRetryCount

\* A canceled manager decides no further restart ("will no longer restart").
DecidesNothingWhenCanceled ==
  \A m \in Manager : rm[m].canceled => /\ rm'[m].restartCount = rm[m].restartCount
                                       /\ rm'[m].canceled

\* The above, of every step of Cancel, ShouldRestart and its goroutine.
NoDecisionAfterCancel == [][DecidesNothingWhenCanceled]_rm
===========================================================================
