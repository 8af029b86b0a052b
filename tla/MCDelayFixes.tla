---------------------------- MODULE MCDelayFixes ----------------------------
(* An instance of DelayFixes for TLC: task 1 over 2, over 3 and 4. The          *)
(* calendar rests on day 2.                                                    *)
EXTENDS DelayFixes

ChainParent == 1 :> NoTask @@ 2 :> 1 @@ 3 :> 2 @@ 4 :> 2

Task(start, finish, actualStart, stop, actualFinish, resumeValid) ==
    [start |-> start, finish |-> finish, actualStart |-> actualStart, stop |-> stop,
     actualFinish |-> actualFinish, resume |-> NoDay, resumeValid |-> resumeValid]

NotStarted(start, finish) == Task(start, finish, 0, 0, 0, TRUE)
Working(start, finish, actualStart, stop) == Task(start, finish, actualStart, stop, 0, TRUE)
Finished(start, finish, actualStart, actualFinish) ==
    Task(start, finish, actualStart, 0, actualFinish, FALSE)

(* The children of 2 are finished, late, and no parent follows: FA-10 to FA-12 *)
(* run up the chain. Task 3 keeps the mark FA-8 takes away.                    *)
AllFinished ==
    1 :> Working(1, 3, 1, 1) @@ 2 :> NotStarted(2, 2) @@
    3 :> Task(1, 2, 2, 0, 3, TRUE) @@ 4 :> Finished(2, 3, 1, 2)

(* Parents that start after their children ended: over the day of rest CM-13   *)
(* lifts the finish of 2.                                                      *)
LateParents ==
    1 :> Working(1, 3, 1, 3) @@ 2 :> Working(1, 3, 3, 3) @@
    3 :> Finished(1, 2, 2, 2) @@ 4 :> Finished(1, 3, 2, 2)

OpenedSchedules == {AllFinished, LateParents}

(* Task 3 is set back, over which the parents the fixes finished stand: the     *)
(* person is to choose.                                                        *)
GivenCommands == {PlanActualState(3, NotStarted(1, 1))}
=============================================================================
