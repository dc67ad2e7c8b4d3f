--------------------------- MODULE PromotionProofs ---------------------------
(***************************************************************************)
(* Proofs about auto-promotion, for any number of processes, policies and  *)
(* approval rows.                                                          *)
(***************************************************************************)
EXTENDS Promotion, FiniteSetTheorems, TLAPS

\* What a process is about to do with the row it holds, or has just done.
Deciding   == {"approve", "reject", "flip1", "flip2"}
Dispatch   == {"deploy", "record", "recordFail"}
HoldsRow   == Deciding \cup Dispatch \cup {"decide"}

\* Process a may deploy the row without an operator.
GatePassed(a, r) ==
    /\ Kind[policy[r]] # "manual"
    /\ Kind[policy[r]] = "time_delay" => r \in elapsed
    /\ HealthGated(r) => a \in opened

\* Columns and histories speak of rows that were inserted, and the policy of
\* such a row never changes again.
RowsAreInserted ==
    /\ \A r \in Inserted : policy[r] \in Policies
    /\ \A r \in attempted \cup rejected : r \in Inserted
    /\ \A r \in elapsed : r \in Inserted /\ Kind[policy[r]] = "time_delay"

\* A tick for which the source's health gate is open has had it so.
OpenIsSeen ==
    /\ passes = MinPass => window \subseteq opened
    /\ opened \subseteq Ticking

\* What the process is doing goes with where it stands.
OpAgrees ==
    \A a \in Procs :
        /\ pc[a] = "idle" => op[a] = "none"
        /\ pc[a] \in {"lookup", "create"} => pol[a] \in Policies
        /\ pc[a] \in {"lookup", "create", "decide"} => op[a] = "fire"
        /\ pc[a] = "approve" => op[a] = "approve"
        /\ pc[a] = "reject" => op[a] = "reject"
        /\ pc[a] \in Dispatch => op[a] \in {"fire", "approve", "tick"}
        /\ pc[a] \in {"list", "path1", "flip1", "list2", "path2", "flip2"}
             => op[a] = "tick"
        /\ op[a] # "tick" => todo[a] = {}
        /\ pc[a] \in HoldsRow => row[a] \in Inserted

\* The tick is working through its first list (delays), its second (health).
OnFirst(a) ==
    \/ pc[a] \in {"path1", "flip1"}
    \/ pc[a] \in Dispatch /\ op[a] = "tick" /\ ~HealthGated(row[a])
OnSecond(a) ==
    \/ pc[a] \in {"path2", "flip2"}
    \/ pc[a] \in Dispatch /\ op[a] = "tick" /\ HealthGated(row[a])

\* The tests a tick made when it read a list still hold of what is left of it.
ListsPassed ==
    \A a \in Procs :
        /\ due[a] \subseteq elapsed
        /\ pc[a] = "flip1" => ~HealthGated(row[a])
        /\ pc[a] = "flip2" => HealthGated(row[a])
        /\ OnFirst(a) => \A r \in todo[a] : r \in elapsed /\ ~HealthGated(r)
        /\ OnSecond(a) => \A r \in todo[a] : r \in Inserted /\ HealthGated(r)

\* What is dispatched without an operator went through its gate.
DispatchPassed ==
    \A a \in Procs :
        /\ pc[a] \in {"decide", "flip1", "flip2"} => GatePassed(a, row[a])
        /\ pc[a] \in Dispatch /\ op[a] # "approve" => GatePassed(a, row[a])

\* The record follows the deploy.
RecordFollows ==
    \A a \in Procs :
        /\ pc[a] \in {"record", "recordFail"} => deploys[row[a]] > 0
        /\ pc[a] \in {"record", "recordFail"} /\ result[a] = "success"
             => row[a] \in worked

\* With one process: a decision is applied to the row as it was read.
SerialRows ==
    Serial =>
        /\ \A r \in rejected : status[r] = "rejected"
        /\ \A r \in attempted : status[r] # "pending"
        /\ \A a \in scope.procs :
             /\ \A r \in todo[a] : status[r] = "pending"
             /\ pc[a] \in {"flip1", "flip2"} \cup Dispatch =>
                  row[a] \notin todo[a]
             /\ pc[a] \in Deciding => status[row[a]] = "pending"
             /\ pc[a] \in Dispatch \cup {"decide"} =>
                  status[row[a]] \in {"approved", "auto_approved"}
             /\ pc[a] \in {"decide", "deploy"} => row[a] \notin attempted

IInv ==
    /\ TypeOK /\ RowsAreInserted /\ OpenIsSeen /\ OpAgrees /\ ListsPassed
    /\ DispatchPassed /\ RecordFollows /\ SerialRows
    /\ RecordedIsReal

-----------------------------------------------------------------------------

\* Where one process at most takes part, any two that do are the same.
LEMMA SerialAlone ==
    ASSUME TypeOK, Serial, NEW a \in scope.procs, NEW b \in scope.procs
    PROVE  a = b
<1>1. IsFiniteSet(scope.procs)
  BY PromotionAssumption, FS_Subset DEF TypeOK
<1>2. PICK x : scope.procs = {x}
  BY <1>1, FS_Singleton DEF Serial
<1> QED BY <1>2

\* A process that is through keeps nothing, and nothing of the others'.
LEMMA FinishTypes ==
    ASSUME TypeOK, NEW a \in Procs, Finish(a)
    PROVE  /\ pc' \in [Procs -> Working \cup {"idle"}]
           /\ op' \in [Procs -> {"none", "fire", "approve", "reject", "tick"}]
           /\ pol' \in [Procs -> Policies \cup {NoPolicy}]
           /\ row' \in [Procs -> Rows \cup {None}]
           /\ todo' \in [Procs -> SUBSET Rows]
           /\ due' \in [Procs -> SUBSET Rows]
           /\ result' \in [Procs -> {"none", "success", "failed"}]
           /\ window' \subseteq Procs /\ opened' \subseteq Procs
  BY DEF TypeOK, Finish, Goto

LEMMA ElapseKeeps ==
    ASSUME IInv, Elapse, UNCHANGED scope
    PROVE  IInv'
<1>1. TypeOK'
  BY DEF IInv, TypeOK, MinPass, Inserted, Elapse, rowVars, localVars,
     tickVars, histVars
<1>2. RowsAreInserted'
  BY DEF IInv, RowsAreInserted, Inserted, Elapse, rowVars, tickVars,
     histVars
<1>3. OpenIsSeen'
  BY DEF IInv, TypeOK, OpenIsSeen, Ticking, GateOpen, MinPass, OpAgrees,
     Elapse, Finish, Goto, worldVars, localVars, tickVars, histVars
<1>4. OpAgrees'
  BY DEF IInv, OpAgrees, Inserted, Elapse, rowVars, localVars
<1>5. ListsPassed'
  BY DEF IInv, ListsPassed, OnFirst, OnSecond, HealthGated, Inserted,
     Elapse, rowVars, localVars
<1>6. DispatchPassed'
  BY DEF IInv, DispatchPassed, GatePassed, HealthGated, Elapse, rowVars,
     localVars, histVars,
     tickVars, Finish
<1>7. RecordFollows'
  BY DEF IInv, RecordFollows, Elapse, localVars, tickVars, histVars
<1>8. SerialRows'
  BY DEF IInv, SerialRows, Serial, Elapse, rowVars, localVars, histVars
<1>10. RecordedIsReal'
  BY DEF IInv, RecordedIsReal, Elapse, rowVars, tickVars, histVars
<1> QED BY <1>1, <1>2, <1>3, <1>4, <1>5, <1>6, <1>7, <1>8, <1>10 DEF
     IInv

LEMMA RecordCheckKeeps ==
    ASSUME IInv, RecordCheck, UNCHANGED scope
    PROVE  IInv'
<1>1. TypeOK'
  BY DEF IInv, TypeOK, MinPass, Inserted, RecordCheck, rowVars, localVars,
     tickVars, histVars, Ticking
<1>2. RowsAreInserted'
  BY DEF IInv, RowsAreInserted, Inserted, RecordCheck, rowVars, tickVars, histVars
<1>3. OpenIsSeen'
  BY DEF IInv, TypeOK, OpenIsSeen, Ticking, GateOpen, MinPass, OpAgrees,
     RecordCheck, Finish, Goto, worldVars, localVars, tickVars, histVars
<1>4. OpAgrees'
  BY DEF IInv, OpAgrees, Inserted, RecordCheck, rowVars, localVars
<1>5. ListsPassed'
  BY DEF IInv, ListsPassed, OnFirst, OnSecond, HealthGated, Inserted,
     RecordCheck, rowVars, localVars
<1>6. DispatchPassed'
  <2>1. opened \subseteq opened'
    BY DEF IInv, OpenIsSeen, RecordCheck
  <2> QED BY <2>1 DEF IInv, DispatchPassed, GatePassed, HealthGated,
       RecordCheck, rowVars, localVars
<1>7. RecordFollows'
  BY DEF IInv, RecordFollows, RecordCheck, localVars, tickVars,
     histVars
<1>8. SerialRows'
  BY DEF IInv, SerialRows, Serial, RecordCheck, rowVars, localVars,
     histVars
<1>10. RecordedIsReal'
  BY DEF IInv, RecordedIsReal, RecordCheck, rowVars, tickVars, histVars
<1> QED BY <1>1, <1>2, <1>3, <1>4, <1>5, <1>6, <1>7, <1>8, <1>10 DEF
     IInv

LEMMA CheckAgesKeeps ==
    ASSUME IInv, CheckAges, UNCHANGED scope
    PROVE  IInv'
<1>1. TypeOK'
  BY DEF IInv, TypeOK, MinPass, CheckAges, rowVars, localVars, tickVars,
     histVars
<1>2. RowsAreInserted'
  BY DEF IInv, RowsAreInserted, Inserted, CheckAges, rowVars, tickVars,
     histVars
<1>3. OpenIsSeen'
  BY DEF IInv, TypeOK, OpenIsSeen, Ticking, GateOpen, MinPass, OpAgrees,
     CheckAges, Finish, Goto, worldVars, localVars, tickVars, histVars
<1>4. OpAgrees'
  BY DEF IInv, OpAgrees, Inserted, CheckAges, rowVars, localVars
<1>5. ListsPassed'
  BY DEF IInv, ListsPassed, OnFirst, OnSecond, HealthGated, Inserted,
     CheckAges, rowVars, localVars
<1>6. DispatchPassed'
  BY DEF IInv, DispatchPassed, GatePassed, HealthGated, CheckAges, rowVars,
     localVars, histVars,
     tickVars, Finish
<1>7. RecordFollows'
  BY DEF IInv, RecordFollows, CheckAges, localVars, tickVars, histVars
<1>8. SerialRows'
  BY DEF IInv, SerialRows, Serial, CheckAges, rowVars, localVars, histVars
<1>10. RecordedIsReal'
  BY DEF IInv, RecordedIsReal, CheckAges, rowVars, tickVars, histVars
<1> QED BY <1>1, <1>2, <1>3, <1>4, <1>5, <1>6, <1>7, <1>8, <1>10 DEF
     IInv

LEMMA SourceReplacedKeeps ==
    ASSUME IInv, SourceReplaced, UNCHANGED scope
    PROVE  IInv'
<1>1. TypeOK'
  <2>1. passes' \in 0..MinPass'
    BY DEF IInv, TypeOK, SourceReplaced, MinPass
  <2> QED BY <2>1 DEF IInv, TypeOK, SourceReplaced, rowVars, localVars,
       tickVars, histVars
<1>2. RowsAreInserted'
  BY DEF IInv, RowsAreInserted, Inserted, SourceReplaced, rowVars,
     tickVars, histVars
<1>3. OpenIsSeen'
  BY DEF IInv, TypeOK, OpenIsSeen, Ticking, GateOpen, MinPass, OpAgrees,
     SourceReplaced, Finish, Goto, worldVars, localVars, tickVars, histVars
<1>4. OpAgrees'
  BY DEF IInv, OpAgrees, Inserted, SourceReplaced, rowVars, localVars
<1>5. ListsPassed'
  BY DEF IInv, ListsPassed, OnFirst, OnSecond, HealthGated, Inserted,
     SourceReplaced, rowVars, localVars
<1>6. DispatchPassed'
  BY DEF IInv, DispatchPassed, GatePassed, HealthGated, SourceReplaced,
     rowVars, localVars, histVars,
     tickVars, Finish
<1>7. RecordFollows'
  BY DEF IInv, RecordFollows, SourceReplaced, localVars, tickVars, histVars
<1>8. SerialRows'
  BY DEF IInv, SerialRows, Serial, SourceReplaced, rowVars, localVars,
     histVars
<1>10. RecordedIsReal'
  BY DEF IInv, RecordedIsReal, SourceReplaced, rowVars, tickVars, histVars
<1> QED BY <1>1, <1>2, <1>3, <1>4, <1>5, <1>6, <1>7, <1>8, <1>10 DEF
     IInv

LEMMA RemovePolicyKeeps ==
    ASSUME IInv, RemovePolicy, UNCHANGED scope
    PROVE  IInv'
<1>1. TypeOK'
  BY DEF IInv, TypeOK, MinPass, RemovePolicy, rowVars, localVars,
     tickVars, histVars
<1>2. RowsAreInserted'
  BY DEF IInv, RowsAreInserted, Inserted, RemovePolicy, rowVars, tickVars,
     histVars
<1>3. OpenIsSeen'
  BY DEF IInv, TypeOK, OpenIsSeen, Ticking, GateOpen, MinPass, OpAgrees,
     RemovePolicy, Finish, Goto, worldVars, localVars, tickVars, histVars
<1>4. OpAgrees'
  BY DEF IInv, OpAgrees, Inserted, RemovePolicy, rowVars, localVars
<1>5. ListsPassed'
  BY DEF IInv, ListsPassed, OnFirst, OnSecond, HealthGated, Inserted,
     RemovePolicy, rowVars, localVars
<1>6. DispatchPassed'
  BY DEF IInv, DispatchPassed, GatePassed, HealthGated, RemovePolicy,
     rowVars, localVars, histVars,
     tickVars, Finish
<1>7. RecordFollows'
  BY DEF IInv, RecordFollows, RemovePolicy, localVars, tickVars, histVars
<1>8. SerialRows'
  BY DEF IInv, SerialRows, Serial, RemovePolicy, rowVars, localVars, histVars
<1>10. RecordedIsReal'
  BY DEF IInv, RecordedIsReal, RemovePolicy, rowVars, tickVars, histVars
<1> QED BY <1>1, <1>2, <1>3, <1>4, <1>5, <1>6, <1>7, <1>8, <1>10 DEF
     IInv

-----------------------------------------------------------------------------
\* A process returns or throws, with or without a guard of its own.
LEMMA FinishKeeps ==
    ASSUME IInv, NEW a \in Procs, a \in scope.procs, Finish(a),
           UNCHANGED <<rowVars, worldVars, histVars>>, UNCHANGED scope
    PROVE  IInv'
<1>1. TypeOK'
  BY DEF IInv, TypeOK, MinPass, Finish, Goto, rowVars, worldVars,
     tickVars, histVars
<1>2. RowsAreInserted'
  BY DEF IInv, RowsAreInserted, Inserted, rowVars, worldVars, tickVars,
     histVars
<1>3. OpenIsSeen'
  BY DEF IInv, TypeOK, OpenIsSeen, Ticking, GateOpen, MinPass, OpAgrees,
     Finish, Goto, worldVars, localVars, tickVars, histVars
<1>4. OpAgrees'
  BY DEF IInv, TypeOK, OpAgrees, Inserted, Deciding, Dispatch, HoldsRow,
     Finish, Goto, rowVars
<1>5. ListsPassed'
  BY DEF IInv, TypeOK, ListsPassed, OnFirst, OnSecond, HealthGated,
     Inserted, Finish, Goto, rowVars, worldVars
<1>6. DispatchPassed'
  BY DEF IInv, TypeOK, DispatchPassed, GatePassed, HealthGated, Dispatch,
     Finish, Goto, rowVars, worldVars, histVars,
     tickVars, Finish
<1>7. RecordFollows'
  BY DEF IInv, TypeOK, RecordFollows, Finish, Goto, tickVars, histVars
<1>8. SerialRows'
  BY DEF IInv, TypeOK, SerialRows, Serial, Deciding, Dispatch, Finish, Goto,
     rowVars, histVars
<1>10. RecordedIsReal'
  BY DEF IInv, RecordedIsReal, rowVars, tickVars, histVars
<1> QED BY <1>1, <1>2, <1>3, <1>4, <1>5, <1>6, <1>7, <1>8, <1>10 DEF
     IInv

LEMMA StartFireKeeps ==
    ASSUME IInv, NEW a \in Procs, a \in scope.procs, StartFire(a),
           UNCHANGED scope
    PROVE  IInv'
<1>1. TypeOK'
  BY DEF IInv, TypeOK, MinPass, Working, StartFire, Goto, rowVars,
     worldVars, tickVars, histVars
<1>2. RowsAreInserted'
  BY DEF IInv, RowsAreInserted, Inserted, StartFire, rowVars, worldVars,
     tickVars, histVars
<1>3. OpenIsSeen'
  BY DEF IInv, TypeOK, OpenIsSeen, Ticking, GateOpen, MinPass, OpAgrees,
     StartFire, Finish, Goto, worldVars, localVars, tickVars, histVars
<1>4. OpAgrees'
  BY DEF IInv, TypeOK, OpAgrees, Inserted, Deciding, Dispatch, HoldsRow,
     StartFire, Goto, rowVars
<1>5. ListsPassed'
  BY DEF IInv, ListsPassed, OnFirst, OnSecond, HealthGated, Inserted,
     Dispatch, StartFire, Goto, rowVars, worldVars
<1>6. DispatchPassed'
  BY DEF IInv, DispatchPassed, GatePassed, HealthGated, Dispatch, StartFire,
     Goto, rowVars, worldVars, histVars,
     tickVars, Finish
<1>7. RecordFollows'
  BY DEF IInv, RecordFollows, StartFire, Goto, tickVars, histVars
<1>8. SerialRows'
  BY DEF IInv, SerialRows, Serial, Deciding, Dispatch, StartFire, Goto,
     rowVars, histVars
<1>10. RecordedIsReal'
  BY DEF IInv, RecordedIsReal, StartFire, rowVars, tickVars, histVars
<1> QED BY <1>1, <1>2, <1>3, <1>4, <1>5, <1>6, <1>7, <1>8, <1>10 DEF
     IInv

LEMMA LookupOnKeeps ==
    ASSUME IInv, NEW a \in Procs, a \in scope.procs, pc[a] = "lookup", Goto(a,
           "create"), UNCHANGED <<rowVars, worldVars, localVars, tickVars, histVars>>,
           UNCHANGED scope
    PROVE  IInv'
<1>1. TypeOK'
  BY DEF IInv, TypeOK, MinPass, Working, Goto, rowVars, worldVars,
     localVars, tickVars, histVars
<1>2. RowsAreInserted'
  BY DEF IInv, RowsAreInserted, Inserted, rowVars, worldVars, tickVars,
     histVars
<1>3. OpenIsSeen'
  BY DEF IInv, TypeOK, OpenIsSeen, Ticking, GateOpen, MinPass, OpAgrees,
     Finish, Goto, worldVars, localVars, tickVars, histVars
<1>4. OpAgrees'
  BY DEF IInv, OpAgrees, Inserted, Deciding, Dispatch, HoldsRow, Goto,
     rowVars, localVars
<1>5. ListsPassed'
  BY DEF IInv, ListsPassed, OnFirst, OnSecond, HealthGated, Inserted,
     Dispatch, Goto, rowVars, worldVars, localVars
<1>6. DispatchPassed'
  BY DEF IInv, DispatchPassed, GatePassed, HealthGated, Dispatch, Goto,
     rowVars, worldVars, localVars, histVars,
     tickVars, Finish
<1>7. RecordFollows'
  BY DEF IInv, RecordFollows, Goto, localVars, tickVars, histVars
<1>8. SerialRows'
  BY DEF IInv, SerialRows, Serial, Deciding, Dispatch, Goto, rowVars,
     localVars, histVars
<1>10. RecordedIsReal'
  BY DEF IInv, RecordedIsReal, rowVars, tickVars, histVars
<1> QED BY <1>1, <1>2, <1>3, <1>4, <1>5, <1>6, <1>7, <1>8, <1>10 DEF
     IInv

LEMMA CreateAutoKeeps ==
    ASSUME IInv, NEW a \in Procs, a \in scope.procs,
           NEW r \in Rows \ Inserted, FirstStatus(pol[a]) = "auto_approved",
           SetStatus(r, "auto_approved"), pc[a] = "create",
           policy' = [policy EXCEPT ![r] = pol[a]],
           row' = [row EXCEPT ![a] = r], Goto(a, "decide"),
           UNCHANGED <<op, pol, todo, due, result, tickVars>>,
           UNCHANGED <<attempted, outcome, worldVars, histVars>>,
           UNCHANGED scope
    PROVE  IInv'
<1>1. TypeOK'
  BY DEF IInv, TypeOK, MinPass, Working, Goto, SetStatus, worldVars,
     tickVars, histVars
<1>2. RowsAreInserted'
  BY DEF IInv, TypeOK, RowsAreInserted, Inserted, OpAgrees, SetStatus,
     worldVars, tickVars,
     histVars
<1>3. OpenIsSeen'
  BY DEF IInv, TypeOK, OpenIsSeen, Ticking, GateOpen, MinPass, OpAgrees,
     Finish, Goto, worldVars, localVars, tickVars, histVars
<1>4. OpAgrees'
  BY DEF IInv, TypeOK, OpAgrees, Inserted, Goto, SetStatus
<1>5. ListsPassed'
  BY DEF IInv, ListsPassed, OnFirst, OnSecond, HealthGated, Inserted,
     OpAgrees, Deciding, HoldsRow, Goto, SetStatus, FirstStatus, worldVars
<1>6. DispatchPassed'
  BY DEF IInv, TypeOK, DispatchPassed, GatePassed, HealthGated, Goto,
     FirstStatus, worldVars,
     tickVars, Finish
<1>7. RecordFollows'
  BY DEF IInv, RecordFollows, Goto, tickVars, histVars
<1>8. SerialRows'
  BY SerialAlone DEF IInv, TypeOK, SerialRows, Serial, OpAgrees,
     RowsAreInserted, Deciding, Goto, SetStatus, histVars
<1>10. RecordedIsReal'
  BY DEF IInv, RecordedIsReal, tickVars, histVars
<1> QED BY <1>1, <1>2, <1>3, <1>4, <1>5, <1>6, <1>7, <1>8, <1>10 DEF
     IInv

LEMMA CreatePendingKeeps ==
    ASSUME IInv, NEW a \in Procs, a \in scope.procs,
           NEW r \in Rows \ Inserted, SetStatus(r, "pending"),
           pc[a] = "create", policy' = [policy EXCEPT ![r] = pol[a]],
           Finish(a),
           UNCHANGED <<attempted, outcome, worldVars, histVars>>,
           UNCHANGED scope
    PROVE  IInv'
<1>1. TypeOK'
  BY DEF IInv, TypeOK, MinPass, Finish, Goto, SetStatus, worldVars, tickVars,
     histVars
<1>2. RowsAreInserted'
  BY DEF IInv, TypeOK, RowsAreInserted, Inserted, OpAgrees, SetStatus,
     worldVars, tickVars,
     histVars
<1>3. OpenIsSeen'
  BY DEF IInv, TypeOK, OpenIsSeen, Ticking, GateOpen, MinPass, OpAgrees,
     Finish, Goto, worldVars, localVars, tickVars, histVars
<1>4. OpAgrees'
  BY DEF IInv, TypeOK, OpAgrees, Inserted, Deciding, Dispatch, HoldsRow,
     Finish, Goto, SetStatus
<1>5. ListsPassed'
  BY DEF IInv, ListsPassed, OnFirst, OnSecond, HealthGated, Inserted,
     OpAgrees, RowsAreInserted, Deciding, HoldsRow, Finish, Goto, SetStatus,
     worldVars
<1>6. DispatchPassed'
  BY DEF IInv, DispatchPassed, GatePassed, HealthGated, OpAgrees, Deciding,
     Dispatch, HoldsRow, Finish, Goto, worldVars,
     tickVars, Finish
<1>7. RecordFollows'
  BY DEF IInv, RecordFollows, Finish, Goto, tickVars, histVars
<1>8. SerialRows'
  BY SerialAlone DEF IInv, SerialRows, Serial, RowsAreInserted, Deciding,
     Dispatch, Finish, Goto, SetStatus, histVars
<1>10. RecordedIsReal'
  BY DEF IInv, RecordedIsReal, tickVars, histVars
<1> QED BY <1>1, <1>2, <1>3, <1>4, <1>5, <1>6, <1>7, <1>8, <1>10 DEF
     IInv

LEMMA DecideKeeps ==
    ASSUME IInv, NEW a \in Procs, a \in scope.procs, Decide(a),
           UNCHANGED scope
    PROVE  IInv'
<1>1. TypeOK'
  BY DEF IInv, TypeOK, MinPass, Working, Decide, Goto, rowVars, worldVars,
     localVars, tickVars, histVars
<1>2. RowsAreInserted'
  BY DEF IInv, RowsAreInserted, Inserted, Decide, rowVars, worldVars,
     tickVars, histVars
<1>3. OpenIsSeen'
  BY DEF IInv, TypeOK, OpenIsSeen, Ticking, GateOpen, MinPass, OpAgrees,
     Decide, Finish, Goto, worldVars, localVars, tickVars, histVars
<1>4. OpAgrees'
  BY DEF IInv, OpAgrees, Inserted, HoldsRow, Decide, Goto, rowVars, localVars
<1>5. ListsPassed'
  BY DEF IInv, ListsPassed, OnFirst, OnSecond, HealthGated, Inserted,
     OpAgrees, Decide, Goto, rowVars, worldVars, localVars
<1>6. DispatchPassed'
  BY DEF IInv, DispatchPassed, GatePassed, HealthGated, Decide, Goto,
     rowVars, worldVars, localVars, histVars,
     tickVars, Finish
<1>7. RecordFollows'
  BY DEF IInv, RecordFollows, Decide, Goto, localVars, tickVars, histVars
<1>8. SerialRows'
  BY DEF IInv, SerialRows, Serial, Deciding, Decide, Goto, rowVars,
     localVars, histVars
<1>10. RecordedIsReal'
  BY DEF IInv, RecordedIsReal, Decide, rowVars, tickVars, histVars
<1> QED BY <1>1, <1>2, <1>3, <1>4, <1>5, <1>6, <1>7, <1>8, <1>10 DEF
     IInv

LEMMA StartApproveKeeps ==
    ASSUME IInv, NEW a \in Procs, a \in scope.procs, StartApprove(a),
           UNCHANGED scope
    PROVE  IInv'
<1>1. TypeOK'
  BY DEF IInv, TypeOK, MinPass, Working, Pending, StartApprove, Goto,
     rowVars, worldVars, tickVars, histVars
<1>2. RowsAreInserted'
  BY DEF IInv, RowsAreInserted, Inserted, StartApprove, rowVars, worldVars,
     tickVars, histVars
<1>3. OpenIsSeen'
  BY DEF IInv, TypeOK, OpenIsSeen, Ticking, GateOpen, MinPass, OpAgrees,
     StartApprove, Finish, Goto, worldVars, localVars, tickVars, histVars
<1>4. OpAgrees'
  BY DEF IInv, TypeOK, OpAgrees, Inserted, StartApprove, Goto, Pending,
     rowVars
<1>5. ListsPassed'
  BY DEF IInv, ListsPassed, OnFirst, OnSecond, HealthGated, Inserted,
     Dispatch, StartApprove, Goto, rowVars, worldVars
<1>6. DispatchPassed'
  BY DEF IInv, DispatchPassed, GatePassed, HealthGated, Dispatch,
     StartApprove, Goto, rowVars, worldVars, histVars,
     tickVars, Finish
<1>7. RecordFollows'
  BY DEF IInv, RecordFollows, StartApprove, Goto, tickVars, histVars
<1>8. SerialRows'
  BY DEF IInv, TypeOK, SerialRows, Serial, Dispatch, StartApprove, Goto,
     Pending, rowVars, histVars
<1>10. RecordedIsReal'
  BY DEF IInv, RecordedIsReal, StartApprove, rowVars, tickVars, histVars
<1> QED BY <1>1, <1>2, <1>3, <1>4, <1>5, <1>6, <1>7, <1>8, <1>10 DEF
     IInv

LEMMA ApproveKeeps ==
    ASSUME IInv, NEW a \in Procs, a \in scope.procs, Approve(a),
           UNCHANGED scope
    PROVE  IInv'
<1>1. TypeOK'
  BY DEF IInv, TypeOK, MinPass, Working, Approve, Goto, SetStatus,
     worldVars, localVars, tickVars, histVars
<1>2. RowsAreInserted'
  BY DEF IInv, RowsAreInserted, Inserted, OpAgrees, Deciding, HoldsRow,
     Approve, SetStatus, worldVars, tickVars, histVars
<1>3. OpenIsSeen'
  BY DEF IInv, TypeOK, OpenIsSeen, Ticking, GateOpen, MinPass, OpAgrees,
     Approve, Finish, Goto, worldVars, localVars, tickVars, histVars
<1>4. OpAgrees'
  BY DEF IInv, OpAgrees, Inserted, Deciding, HoldsRow, Approve, Goto,
     SetStatus, localVars
<1>5. ListsPassed'
  BY DEF IInv, ListsPassed, OnFirst, OnSecond, HealthGated, Inserted,
     OpAgrees, Approve, Goto, SetStatus, worldVars, localVars
<1>6. DispatchPassed'
  BY DEF IInv, DispatchPassed, GatePassed, HealthGated, OpAgrees, Approve,
     Goto, worldVars, localVars, histVars,
     tickVars, Finish
<1>7. RecordFollows'
  BY DEF IInv, RecordFollows, Approve, Goto, localVars, tickVars, histVars
<1>8. SerialRows'
  BY SerialAlone DEF IInv, TypeOK, SerialRows, Serial, Inserted, OpAgrees,
     Deciding, HoldsRow, Approve, Goto, SetStatus, localVars, histVars
<1>10. RecordedIsReal'
  BY DEF IInv, RecordedIsReal, Approve, tickVars, histVars
<1> QED BY <1>1, <1>2, <1>3, <1>4, <1>5, <1>6, <1>7, <1>8, <1>10 DEF
     IInv

LEMMA StartRejectKeeps ==
    ASSUME IInv, NEW a \in Procs, a \in scope.procs, StartReject(a),
           UNCHANGED scope
    PROVE  IInv'
<1>1. TypeOK'
  BY DEF IInv, TypeOK, MinPass, Working, Pending, StartReject, Goto,
     rowVars, worldVars, tickVars, histVars
<1>2. RowsAreInserted'
  BY DEF IInv, RowsAreInserted, Inserted, StartReject, rowVars, worldVars,
     tickVars, histVars
<1>3. OpenIsSeen'
  BY DEF IInv, TypeOK, OpenIsSeen, Ticking, GateOpen, MinPass, OpAgrees,
     StartReject, Finish, Goto, worldVars, localVars, tickVars, histVars
<1>4. OpAgrees'
  BY DEF IInv, TypeOK, OpAgrees, Inserted, Dispatch, StartReject, Goto,
     Pending, rowVars
<1>5. ListsPassed'
  BY DEF IInv, ListsPassed, OnFirst, OnSecond, HealthGated, Inserted,
     Dispatch, StartReject, Goto, rowVars, worldVars
<1>6. DispatchPassed'
  BY DEF IInv, DispatchPassed, GatePassed, HealthGated, Dispatch,
     StartReject, Goto, rowVars, worldVars, histVars,
     tickVars, Finish
<1>7. RecordFollows'
  BY DEF IInv, RecordFollows, StartReject, Goto, tickVars, histVars
<1>8. SerialRows'
  BY DEF IInv, TypeOK, SerialRows, Serial, Dispatch, StartReject, Goto,
     Pending, rowVars, histVars
<1>10. RecordedIsReal'
  BY DEF IInv, RecordedIsReal, StartReject, rowVars, tickVars, histVars
<1> QED BY <1>1, <1>2, <1>3, <1>4, <1>5, <1>6, <1>7, <1>8, <1>10 DEF
     IInv

LEMMA RejectKeeps ==
    ASSUME IInv, NEW a \in Procs, a \in scope.procs, Reject(a),
           UNCHANGED scope
    PROVE  IInv'
<1>1. TypeOK'
  <2>1. status' \in [Rows -> {"none", "pending", "approved", "rejected",
                             "auto_approved"}]
    BY DEF IInv, TypeOK, Reject, SetStatus
  <2>2. rejected' \subseteq Rows
    BY DEF IInv, TypeOK, Reject, OpAgrees, HoldsRow, Deciding, Inserted
  <2> QED BY <2>1, <2>2, FinishTypes DEF IInv, TypeOK, Reject, MinPass,
       worldVars, tickVars
<1>2. RowsAreInserted'
  BY DEF IInv, RowsAreInserted, Inserted, OpAgrees, Deciding, HoldsRow,
     Reject, SetStatus, worldVars, tickVars
<1>3. OpenIsSeen'
  BY DEF IInv, TypeOK, OpenIsSeen, Ticking, GateOpen, MinPass, OpAgrees,
     Reject, Finish, Goto, worldVars, localVars, tickVars, histVars
<1>4. OpAgrees'
  BY DEF IInv, TypeOK, OpAgrees, Inserted, Deciding, Dispatch, HoldsRow,
     Reject, Finish, Goto, SetStatus
<1>5. ListsPassed'
  BY DEF IInv, ListsPassed, OnFirst, OnSecond, HealthGated, Inserted,
     Dispatch, Reject, Finish, Goto, SetStatus, worldVars
<1>6. DispatchPassed'
  BY DEF IInv, DispatchPassed, GatePassed, HealthGated, Dispatch, Reject,
     Finish, Goto, worldVars,
     tickVars, Finish
<1>7. RecordFollows'
  BY DEF IInv, RecordFollows, Reject, Finish, Goto, tickVars
<1>8. SerialRows'
  BY SerialAlone DEF IInv, TypeOK, SerialRows, Serial, Inserted, OpAgrees,
     Deciding, Dispatch, HoldsRow, Reject, Finish, Goto, SetStatus
<1>10. RecordedIsReal'
  BY DEF IInv, RecordedIsReal, Reject, tickVars
<1> QED BY <1>1, <1>2, <1>3, <1>4, <1>5, <1>6, <1>7, <1>8, <1>10 DEF
     IInv

LEMMA DeployKeeps ==
    ASSUME IInv, NEW a \in Procs, a \in scope.procs, Deploy(a),
           UNCHANGED scope
    PROVE  IInv'
<1>1. TypeOK'
  <2>1. row[a] \in Rows
    BY DEF IInv, OpAgrees, HoldsRow, Dispatch, Deploy, Inserted
  <2>2. deploys' \in [Rows -> 0..2]
    <3>1. deploys[row[a]] \in 0..2
      BY <2>1 DEF IInv, TypeOK
    <3>2. (IF deploys[row[a]] < 2 THEN deploys[row[a]] + 1 ELSE 2) \in 0..2
      BY <3>1
    <3> QED BY <2>1, <3>2 DEF IInv, TypeOK, Deploy
  <2>3. /\ result' \in [Procs -> {"none", "success", "failed"}]
        /\ worked' \subseteq Rows
        /\ pc' \in [Procs -> Working \cup {"idle"}]
    BY <2>1 DEF IInv, TypeOK, Deploy, Goto, Working
  <2> QED BY <2>2, <2>3 DEF IInv, TypeOK, Deploy, MinPass, rowVars, worldVars,
       tickVars
<1>2. RowsAreInserted'
  BY DEF IInv, RowsAreInserted, Inserted, OpAgrees, Dispatch, HoldsRow,
     Deploy, rowVars, worldVars
<1>3. OpenIsSeen'
  BY DEF IInv, TypeOK, OpenIsSeen, Ticking, GateOpen, MinPass, OpAgrees,
     Deploy, Finish, Goto, worldVars, localVars, tickVars, histVars
<1>4. OpAgrees'
  BY DEF IInv, OpAgrees, Inserted, Dispatch, HoldsRow, Deploy, Goto, rowVars
<1>5. ListsPassed'
  BY DEF IInv, ListsPassed, OnFirst, OnSecond, HealthGated, Inserted,
     Dispatch, Deploy, Goto, rowVars, worldVars
<1>6. DispatchPassed'
  BY DEF IInv, DispatchPassed, GatePassed, HealthGated, Dispatch, Deploy,
     Goto, rowVars, worldVars,
     tickVars, Finish
<1>7. RecordFollows'
  <2>1. row[a] \in Rows
    BY DEF IInv, OpAgrees, HoldsRow, Dispatch, Deploy, Inserted
  <2>2. \A r \in Rows : deploys'[r] = deploys[r] \/ deploys'[r] > 0
    BY <2>1 DEF IInv, TypeOK, Deploy
  <2>3. deploys'[row[a]] > 0
    BY <2>1 DEF IInv, TypeOK, Deploy
  <2>4. \A b \in Procs : pc'[b] \in {"record", "recordFail"} =>
          \/ b = a
          \/ pc[b] = pc'[b] /\ result'[b] = result[b] /\ row[b] \in Rows
    BY DEF IInv, Deploy, Goto, OpAgrees, HoldsRow, Dispatch, Inserted
  <2>5. row' = row /\ worked \subseteq worked'
    BY DEF Deploy
  <2>6. result'[a] = "success" => row[a] \in worked'
    BY DEF IInv, TypeOK, Deploy
  <2> QED BY <2>2, <2>3, <2>4, <2>5, <2>6 DEF IInv, RecordFollows
<1>8. SerialRows'
  BY DEF IInv, SerialRows, Serial, Deciding, Dispatch, Deploy, Goto, rowVars
<1>10. RecordedIsReal'
  BY DEF IInv, TypeOK, RecordedIsReal, Deploy, rowVars
<1> QED BY <1>1, <1>2, <1>3, <1>4, <1>5, <1>6, <1>7, <1>8, <1>10 DEF
     IInv

LEMMA AttemptOnKeeps ==
    ASSUME IInv, NEW a \in Procs, a \in scope.procs, NEW res \in {"none",
           "success", "failed"}, pc[a] \in {"record", "recordFail"},
           op[a] = "tick", res = "success" => row[a] \in worked,
           Attempt(row[a], res), Goto(a, Onward(a)),
           UNCHANGED <<worldVars, localVars, tickVars, histVars>>,
           UNCHANGED scope
    PROVE  IInv'
<1>1. TypeOK'
  <2>1. attempted' \subseteq Rows
    BY DEF IInv, TypeOK, Attempt, OpAgrees, HoldsRow, Dispatch, Inserted
  <2>2. /\ outcome' \in [Rows -> {"none", "success", "failed"}]
        /\ status' = status /\ policy' = policy
    BY DEF IInv, TypeOK, Attempt
  <2>3. pc' \in [Procs -> Working \cup {"idle"}]
    BY DEF IInv, TypeOK, Goto, Onward, Working
  <2> QED BY <2>1, <2>2, <2>3 DEF IInv, TypeOK, MinPass, worldVars,
       localVars, tickVars, histVars
<1>2. RowsAreInserted'
  BY DEF IInv, RowsAreInserted, Inserted, OpAgrees, Dispatch, HoldsRow,
     Attempt, worldVars, tickVars, histVars
<1>3. OpenIsSeen'
  BY DEF IInv, TypeOK, OpenIsSeen, Ticking, GateOpen, MinPass, OpAgrees,
     Finish, Goto, worldVars, localVars, tickVars, histVars
<1>4. OpAgrees'
  BY DEF IInv, OpAgrees, Inserted, Dispatch, HoldsRow, Goto, Attempt,
     Onward, localVars
<1>5. ListsPassed'
  BY DEF IInv, ListsPassed, OnFirst, OnSecond, HealthGated, Inserted,
     Dispatch, Goto, Attempt, Onward, worldVars, localVars
<1>6. DispatchPassed'
  BY DEF IInv, DispatchPassed, GatePassed, HealthGated, Dispatch, Goto,
     Attempt, worldVars, localVars, histVars,
     tickVars, Finish
<1>7. RecordFollows'
  BY DEF IInv, RecordFollows, Goto, localVars, tickVars, histVars
<1>8. SerialRows'
  BY SerialAlone DEF IInv, SerialRows, Serial, Deciding, Dispatch, Goto,
     Attempt, Onward, localVars, histVars
<1>10. RecordedIsReal'
  BY DEF IInv, RecordedIsReal, RecordFollows, Attempt, tickVars, histVars
<1> QED BY <1>1, <1>2, <1>3, <1>4, <1>5, <1>6, <1>7, <1>8, <1>10 DEF
     IInv

LEMMA AttemptEndKeeps ==
    ASSUME IInv, NEW a \in Procs, a \in scope.procs, NEW res \in {"none",
           "success", "failed"}, pc[a] \in {"record", "recordFail"},
           res = "success" => row[a] \in worked, Attempt(row[a], res),
           Finish(a), UNCHANGED <<worldVars, histVars>>, UNCHANGED scope
    PROVE  IInv'
<1>1. TypeOK'
  <2>1. attempted' \subseteq Rows
    BY DEF IInv, TypeOK, Attempt, OpAgrees, HoldsRow, Dispatch, Inserted
  <2>2. /\ outcome' \in [Rows -> {"none", "success", "failed"}]
        /\ status' = status /\ policy' = policy
    BY DEF IInv, TypeOK, Attempt
  <2> QED BY <2>1, <2>2, FinishTypes DEF IInv, TypeOK, MinPass, worldVars,
       tickVars, histVars
<1>2. RowsAreInserted'
  BY DEF IInv, RowsAreInserted, Inserted, OpAgrees, Dispatch, HoldsRow,
     Attempt, worldVars, tickVars, histVars
<1>3. OpenIsSeen'
  BY DEF IInv, TypeOK, OpenIsSeen, Ticking, GateOpen, MinPass, OpAgrees,
     Finish, Goto, worldVars, localVars, tickVars, histVars
<1>4. OpAgrees'
  BY DEF IInv, TypeOK, OpAgrees, Inserted, Deciding, Dispatch, HoldsRow,
     Finish, Goto, Attempt
<1>5. ListsPassed'
  BY DEF IInv, TypeOK, ListsPassed, OnFirst, OnSecond, HealthGated,
     Inserted, Finish, Goto, Attempt, worldVars
<1>6. DispatchPassed'
  BY DEF IInv, TypeOK, DispatchPassed, GatePassed, HealthGated, Dispatch,
     Finish, Goto, Attempt, worldVars, histVars,
     tickVars, Finish
<1>7. RecordFollows'
  BY DEF IInv, TypeOK, RecordFollows, Finish, Goto, tickVars, histVars
<1>8. SerialRows'
  BY SerialAlone DEF IInv, TypeOK, SerialRows, Serial, Deciding, Dispatch,
     Finish, Goto, Attempt, histVars
<1>10. RecordedIsReal'
  BY DEF IInv, RecordedIsReal, RecordFollows, Attempt, tickVars, histVars
<1> QED BY <1>1, <1>2, <1>3, <1>4, <1>5, <1>6, <1>7, <1>8, <1>10 DEF
     IInv

LEMMA RecordFailedKeeps ==
    ASSUME IInv, NEW a \in Procs, a \in scope.procs, pc[a] = "record",
           op[a] # "approve", Goto(a, "recordFail"),
           UNCHANGED <<rowVars, worldVars, localVars, tickVars, histVars>>,
           UNCHANGED scope
    PROVE  IInv'
<1>1. TypeOK'
  BY DEF IInv, TypeOK, MinPass, Working, Goto, rowVars, worldVars,
     localVars, tickVars, histVars
<1>2. RowsAreInserted'
  BY DEF IInv, RowsAreInserted, Inserted, rowVars, worldVars, tickVars,
     histVars
<1>3. OpenIsSeen'
  BY DEF IInv, TypeOK, OpenIsSeen, Ticking, GateOpen, MinPass, OpAgrees,
     Finish, Goto, worldVars, localVars, tickVars, histVars
<1>4. OpAgrees'
  BY DEF IInv, OpAgrees, Inserted, Dispatch, HoldsRow, Goto, rowVars,
     localVars
<1>5. ListsPassed'
  BY DEF IInv, ListsPassed, OnFirst, OnSecond, HealthGated, Inserted,
     Dispatch, Goto, rowVars, worldVars, localVars
<1>6. DispatchPassed'
  BY DEF IInv, DispatchPassed, GatePassed, HealthGated, Dispatch, Goto,
     rowVars, worldVars, localVars, histVars,
     tickVars, Finish
<1>7. RecordFollows'
  BY DEF IInv, RecordFollows, Goto, localVars, tickVars, histVars
<1>8. SerialRows'
  BY DEF IInv, SerialRows, Serial, Deciding, Dispatch, Goto, rowVars,
     localVars, histVars
<1>10. RecordedIsReal'
  BY DEF IInv, RecordedIsReal, rowVars, tickVars, histVars
<1> QED BY <1>1, <1>2, <1>3, <1>4, <1>5, <1>6, <1>7, <1>8, <1>10 DEF
     IInv

LEMMA StartTickKeeps ==
    ASSUME IInv, NEW a \in Procs, a \in scope.procs, StartTick(a),
           UNCHANGED scope
    PROVE  IInv'
<1>1. TypeOK'
  BY DEF IInv, TypeOK, MinPass, Working, StartTick, Goto, rowVars,
     worldVars, tickVars, histVars
<1>2. RowsAreInserted'
  BY DEF IInv, RowsAreInserted, Inserted, StartTick, rowVars, worldVars,
     tickVars, histVars
<1>3. OpenIsSeen'
  BY DEF IInv, TypeOK, OpenIsSeen, Ticking, GateOpen, MinPass, OpAgrees,
     StartTick, Finish, Goto, worldVars, localVars, tickVars, histVars
<1>4. OpAgrees'
  BY DEF IInv, TypeOK, OpAgrees, Inserted, Deciding, Dispatch, HoldsRow,
     StartTick, Goto, rowVars
<1>5. ListsPassed'
  BY DEF IInv, ListsPassed, OnFirst, OnSecond, HealthGated, Inserted,
     Dispatch, StartTick, Goto, rowVars, worldVars
<1>6. DispatchPassed'
  BY DEF IInv, DispatchPassed, GatePassed, HealthGated, Dispatch, StartTick,
     Goto, rowVars, worldVars, histVars,
     tickVars, Finish
<1>7. RecordFollows'
  BY DEF IInv, RecordFollows, StartTick, Goto, tickVars, histVars
<1>8. SerialRows'
  BY DEF IInv, SerialRows, Serial, Deciding, Dispatch, StartTick, Goto,
     rowVars, histVars
<1>10. RecordedIsReal'
  BY DEF IInv, RecordedIsReal, StartTick, rowVars, tickVars, histVars
<1> QED BY <1>1, <1>2, <1>3, <1>4, <1>5, <1>6, <1>7, <1>8, <1>10 DEF
     IInv

LEMMA ListKeeps ==
    ASSUME IInv, NEW a \in Procs, a \in scope.procs, List(a), UNCHANGED scope
    PROVE  IInv'
<1>1. TypeOK'
  BY DEF IInv, TypeOK, MinPass, Working, List, Goto, rowVars, worldVars,
     tickVars, histVars
<1>2. RowsAreInserted'
  BY DEF IInv, RowsAreInserted, Inserted, List, rowVars, worldVars,
     tickVars, histVars
<1>3. OpenIsSeen'
  BY DEF IInv, TypeOK, OpenIsSeen, Ticking, GateOpen, MinPass, OpAgrees,
     List, Finish, Goto, worldVars, localVars, tickVars, histVars
<1>4. OpAgrees'
  BY DEF IInv, OpAgrees, Inserted, Deciding, Dispatch, HoldsRow, List, Goto,
     rowVars
<1>5. ListsPassed'
  BY DEF IInv, TypeOK, ListsPassed, OnFirst, OnSecond, HealthGated,
     Inserted, Dispatch, List, Goto, rowVars, worldVars
<1>6. DispatchPassed'
  BY DEF IInv, DispatchPassed, GatePassed, HealthGated, Dispatch, List,
     Goto, rowVars, worldVars, histVars,
     tickVars, Finish
<1>7. RecordFollows'
  BY DEF IInv, RecordFollows, List, Goto, tickVars, histVars
<1>8. SerialRows'
  BY DEF IInv, SerialRows, Serial, Deciding, Dispatch, List, Goto, Pending,
     rowVars, histVars
<1>10. RecordedIsReal'
  BY DEF IInv, RecordedIsReal, List, rowVars, tickVars, histVars
<1> QED BY <1>1, <1>2, <1>3, <1>4, <1>5, <1>6, <1>7, <1>8, <1>10 DEF
     IInv

LEMMA Path1Keeps ==
    ASSUME IInv, NEW a \in Procs, a \in scope.procs, Path1(a),
           UNCHANGED scope
    PROVE  IInv'
<1>1. TypeOK'
  BY DEF IInv, TypeOK, MinPass, Working, Path1, Goto, rowVars, worldVars,
     localVars, tickVars, histVars
<1>2. RowsAreInserted'
  BY DEF IInv, RowsAreInserted, Inserted, Path1, rowVars, worldVars,
     tickVars, histVars
<1>3. OpenIsSeen'
  BY DEF IInv, TypeOK, OpenIsSeen, Ticking, GateOpen, MinPass, OpAgrees,
     Path1, Finish, Goto, worldVars, localVars, tickVars, histVars
<1>4. OpAgrees'
  <2>1. CASE pc' = [pc EXCEPT ![a] = "list2"] /\ UNCHANGED localVars
    BY <2>1 DEF IInv, OpAgrees, Path1, HoldsRow, Deciding, Dispatch,
       Inserted, localVars, rowVars
  <2>2. CASE \E r \in todo[a] :
          /\ todo' = [todo EXCEPT ![a] = @ \ {r}]
          /\ \/ pc' = [pc EXCEPT ![a] = "path1"] /\ UNCHANGED row
             \/ /\ row' = [row EXCEPT ![a] = r]
                /\ pc' = [pc EXCEPT ![a] = "flip1"]
          /\ UNCHANGED <<op, pol, due, result>>
    BY <2>2 DEF IInv, TypeOK, OpAgrees, ListsPassed, OnFirst,
       RowsAreInserted, Path1, Inserted, rowVars
  <2> QED BY <2>1, <2>2 DEF Path1, Goto
<1>5. ListsPassed'
  BY DEF IInv, TypeOK, ListsPassed, OnFirst, OnSecond, HealthGated,
     Inserted, Path1, Goto, rowVars, worldVars, localVars
<1>6. DispatchPassed'
  BY DEF IInv, TypeOK, DispatchPassed, GatePassed, HealthGated, ListsPassed,
     OnFirst, RowsAreInserted, Dispatch, Path1, Goto, rowVars, worldVars,
     localVars, histVars,
     tickVars, Finish
<1>7. RecordFollows'
  BY DEF IInv, TypeOK, RecordFollows, Path1, Goto, localVars, tickVars,
     histVars
<1>8. SerialRows'
  BY DEF IInv, TypeOK, SerialRows, Serial, Deciding, Dispatch, Path1, Goto,
     rowVars, localVars, histVars
<1>10. RecordedIsReal'
  BY DEF IInv, RecordedIsReal, Path1, rowVars, tickVars, histVars
<1> QED BY <1>1, <1>2, <1>3, <1>4, <1>5, <1>6, <1>7, <1>8, <1>10 DEF
     IInv

LEMMA FlipKeeps ==
    ASSUME IInv, NEW a \in Procs, a \in scope.procs, Flip(a), UNCHANGED scope
    PROVE  IInv'
<1>1. TypeOK'
  BY DEF IInv, TypeOK, MinPass, Working, Flip, Goto, SetStatus, worldVars,
     localVars, tickVars, histVars
<1>2. RowsAreInserted'
  BY DEF IInv, RowsAreInserted, Inserted, OpAgrees, Deciding, HoldsRow,
     Flip, SetStatus, worldVars, tickVars, histVars
<1>3. OpenIsSeen'
  BY DEF IInv, TypeOK, OpenIsSeen, Ticking, GateOpen, MinPass, OpAgrees,
     Flip, Finish, Goto, worldVars, localVars, tickVars, histVars
<1>4. OpAgrees'
  BY DEF IInv, OpAgrees, Inserted, Deciding, HoldsRow, Flip, Goto,
     SetStatus, localVars
<1>5. ListsPassed'
  BY DEF IInv, ListsPassed, OnFirst, OnSecond, HealthGated, Inserted, Flip,
     Goto, SetStatus, worldVars, localVars
<1>6. DispatchPassed'
  BY DEF IInv, DispatchPassed, GatePassed, HealthGated, Flip, Goto,
     worldVars, localVars, histVars,
     tickVars, Finish
<1>7. RecordFollows'
  BY DEF IInv, RecordFollows, Flip, Goto, localVars, tickVars, histVars
<1>8. SerialRows'
  BY SerialAlone DEF IInv, TypeOK, SerialRows, Serial, Inserted, OpAgrees,
     Deciding, HoldsRow, Flip, Goto, SetStatus, localVars, histVars
<1>10. RecordedIsReal'
  BY DEF IInv, RecordedIsReal, Flip, tickVars, histVars
<1> QED BY <1>1, <1>2, <1>3, <1>4, <1>5, <1>6, <1>7, <1>8, <1>10 DEF
     IInv

LEMMA List2Keeps ==
    ASSUME IInv, NEW a \in Procs, a \in scope.procs, List2(a),
           UNCHANGED scope
    PROVE  IInv'
<1>1. TypeOK'
  BY DEF IInv, TypeOK, MinPass, Working, Pending, List2, Goto, rowVars,
     worldVars, tickVars, histVars
<1>2. RowsAreInserted'
  BY DEF IInv, RowsAreInserted, Inserted, List2, rowVars, worldVars,
     tickVars, histVars
<1>3. OpenIsSeen'
  BY DEF IInv, TypeOK, OpenIsSeen, Ticking, GateOpen, MinPass, OpAgrees,
     List2, Finish, Goto, worldVars, localVars, tickVars, histVars
<1>4. OpAgrees'
  BY DEF IInv, OpAgrees, Inserted, Deciding, Dispatch, HoldsRow, List2,
     Goto, rowVars
<1>5. ListsPassed'
  BY DEF IInv, TypeOK, ListsPassed, OnFirst, OnSecond, HealthGated,
     Inserted, Dispatch, List2, Goto, Pending, rowVars, worldVars
<1>6. DispatchPassed'
  BY DEF IInv, DispatchPassed, GatePassed, HealthGated, Dispatch, List2,
     Goto, rowVars, worldVars, histVars,
     tickVars, Finish
<1>7. RecordFollows'
  BY DEF IInv, RecordFollows, List2, Goto, tickVars, histVars
<1>8. SerialRows'
  BY DEF IInv, SerialRows, Serial, Deciding, Dispatch, List2, Goto, Pending,
     rowVars, histVars
<1>10. RecordedIsReal'
  BY DEF IInv, RecordedIsReal, List2, rowVars, tickVars, histVars
<1> QED BY <1>1, <1>2, <1>3, <1>4, <1>5, <1>6, <1>7, <1>8, <1>10 DEF
     IInv

LEMMA Path2Keeps ==
    ASSUME IInv, NEW a \in Procs, a \in scope.procs, Path2(a),
           UNCHANGED scope
    PROVE  IInv'
<1>1. TypeOK'
  <2>1. CASE Finish(a)
    BY <2>1, FinishTypes DEF IInv, TypeOK, Path2, MinPass, rowVars,
       worldVars, tickVars, histVars
  <2>2. CASE \E r \in todo[a] :
               /\ todo' = [todo EXCEPT ![a] = @ \ {r}]
               /\ \/ Goto(a, "path2") /\ UNCHANGED row
                  \/ Goto(a, "flip2") /\ row' = [row EXCEPT ![a] = r]
               /\ UNCHANGED <<op, pol, due, result, tickVars>>
    <3>1. /\ pc' \in [Procs -> Working \cup {"idle"}]
          /\ row' \in [Procs -> Rows \cup {None}]
          /\ todo' \in [Procs -> SUBSET Rows]
      BY <2>2 DEF IInv, TypeOK, Goto, Working
    <3> QED BY <2>2, <3>1 DEF IInv, TypeOK, Path2, MinPass, rowVars,
         worldVars, tickVars, histVars
  <2> QED BY <2>1, <2>2 DEF Path2
<1>2. RowsAreInserted'
  BY DEF IInv, RowsAreInserted, Inserted, Path2, rowVars, worldVars,
     tickVars, histVars
<1>3. OpenIsSeen'
  BY DEF IInv, TypeOK, OpenIsSeen, Ticking, GateOpen, MinPass, OpAgrees,
     Path2, Finish, Goto, worldVars, localVars, tickVars, histVars
<1>4. OpAgrees'
  <2>1. CASE Finish(a)
    BY <2>1 DEF IInv, TypeOK, OpAgrees, Path2, Finish, Goto, HoldsRow,
       Deciding, Dispatch, Inserted, rowVars
  <2>2. CASE \E r \in todo[a] :
               /\ todo' = [todo EXCEPT ![a] = @ \ {r}]
               /\ \/ Goto(a, "path2") /\ UNCHANGED row
                  \/ Goto(a, "flip2") /\ row' = [row EXCEPT ![a] = r]
               /\ UNCHANGED <<op, pol, due, result>>
    BY <2>2 DEF IInv, TypeOK, OpAgrees, ListsPassed, OnSecond, Path2, Goto,
       Inserted, rowVars
  <2> QED BY <2>1, <2>2 DEF Path2
<1>5. ListsPassed'
  BY DEF IInv, TypeOK, ListsPassed, OnFirst, OnSecond, HealthGated,
     Inserted, Path2, Finish, Goto, rowVars, worldVars
<1>6. DispatchPassed'
  BY DEF IInv, TypeOK, DispatchPassed, GatePassed, HealthGated, ListsPassed,
     OnSecond, OpenIsSeen, Dispatch, Path2, Finish, Goto, MayFire, GateOpenAt,
     rowVars, worldVars, histVars, tickVars
<1>7. RecordFollows'
  BY DEF IInv, TypeOK, RecordFollows, Path2, Finish, Goto, tickVars,
     histVars
<1>8. SerialRows'
  BY SerialAlone DEF IInv, TypeOK, SerialRows, Serial, Deciding, Dispatch,
     Path2, Finish, Goto, rowVars, histVars
<1>10. RecordedIsReal'
  BY DEF IInv, RecordedIsReal, Path2, rowVars, tickVars, histVars
<1> QED BY <1>1, <1>2, <1>3, <1>4, <1>5, <1>6, <1>7, <1>8, <1>10 DEF
     IInv

LEMMA LookupKeeps ==
    ASSUME IInv, NEW a \in Procs, a \in scope.procs, Lookup(a),
           UNCHANGED scope
    PROVE  IInv'
<1>1. CASE Finish(a)
  BY <1>1, FinishKeeps DEF Lookup
<1>2. CASE Goto(a, "create") /\ UNCHANGED <<localVars, tickVars>>
  BY <1>2, LookupOnKeeps DEF Lookup
<1> QED BY <1>1, <1>2 DEF Lookup

LEMMA CreateKeeps ==
    ASSUME IInv, NEW a \in Procs, a \in scope.procs, Create(a),
           UNCHANGED scope
    PROVE  IInv'
<1>1. CASE Finish(a) /\ UNCHANGED <<status, policy>>
  BY <1>1, FinishKeeps DEF Create, rowVars
<1>2. ASSUME NEW r \in Rows \ Inserted,
             SetStatus(r, FirstStatus(pol[a])),
             policy' = [policy EXCEPT ![r] = pol[a]],
             \/ /\ FirstStatus(pol[a]) = "auto_approved"
                /\ row' = [row EXCEPT ![a] = r]
                /\ Goto(a, "decide")
                /\ UNCHANGED <<op, pol, todo, due, result, tickVars>>
             \/ FirstStatus(pol[a]) = "pending" /\ Finish(a)
      PROVE  IInv'
  BY <1>2, CreateAutoKeeps, CreatePendingKeeps DEF Create
<1> QED BY <1>1, <1>2 DEF Create

LEMMA RecordKeeps ==
    ASSUME IInv, NEW a \in Procs, a \in scope.procs, Record(a),
           UNCHANGED scope
    PROVE  IInv'
<1>1. /\ result[a] \in {"none", "success", "failed"}
      /\ result[a] = "success" => row[a] \in worked
  BY DEF IInv, TypeOK, RecordFollows, Record
<1>2. CASE Attempt(row[a], result[a]) /\ EndDispatch(a, Onward(a))
  BY <1>1, <1>2, AttemptOnKeeps, AttemptEndKeeps DEF Record, EndDispatch
<1>3. CASE UNCHANGED rowVars /\ Finish(a)
  BY <1>3, FinishKeeps DEF Record
<1>4. CASE /\ UNCHANGED rowVars
           /\ op[a] # "approve" /\ Goto(a, "recordFail")
           /\ UNCHANGED <<localVars, tickVars>>
  BY <1>4, RecordFailedKeeps DEF Record
<1> QED BY <1>2, <1>3, <1>4 DEF Record

LEMMA RecordFailKeeps ==
    ASSUME IInv, NEW a \in Procs, a \in scope.procs, RecordFail(a),
           UNCHANGED scope
    PROVE  IInv'
<1>1. CASE Attempt(row[a], "failed") /\ EndDispatch(a, Onward(a))
  BY <1>1, AttemptOnKeeps, AttemptEndKeeps DEF RecordFail, EndDispatch
<1>2. CASE UNCHANGED rowVars /\ Finish(a)
  BY <1>2, FinishKeeps DEF RecordFail
<1> QED BY <1>1, <1>2 DEF RecordFail


-----------------------------------------------------------------------------

LEMMA InitKeeps == ASSUME Init PROVE IInv
<1>1. PICK s \in Scopes :
        scope \in [procs : {S \in SUBSET Procs : Cardinality(S) = s.procs},
                   minPass : {s.minPass}]
  BY DEF Init
<1>2. scope \in [procs : SUBSET Procs, minPass : Nat]
  BY <1>1, PromotionAssumption
<1>3. TypeOK
  <2>1. passes \in 0..MinPass
    BY <1>2 DEF Init, MinPass
  <2>2. /\ deploys \in [Rows -> 0..2]
        /\ removed \subseteq Policies
        /\ attempted \subseteq Rows /\ elapsed \subseteq Rows
        /\ worked \subseteq Rows /\ window \subseteq Procs
        /\ rejected \subseteq Rows /\ opened \subseteq Procs
    BY DEF Init
  <2>3. /\ pc \in [Procs -> Working \cup {"idle"}]
        /\ op \in [Procs -> {"none", "fire", "approve", "reject", "tick"}]
        /\ pol \in [Procs -> Policies \cup {NoPolicy}]
        /\ row \in [Procs -> Rows \cup {None}]
        /\ todo \in [Procs -> SUBSET Rows]
        /\ due \in [Procs -> SUBSET Rows]
        /\ result \in [Procs -> {"none", "success", "failed"}]
    BY DEF Init
  <2>4. /\ status \in [Rows -> {"none", "pending", "approved", "rejected",
                               "auto_approved"}]
        /\ policy \in [Rows -> Policies \cup {NoPolicy}]
        /\ outcome \in [Rows -> {"none", "success", "failed"}]
        /\ recent \in BOOLEAN
    BY DEF Init
  <2> QED BY <1>2, <2>1, <2>2, <2>3, <2>4 DEF TypeOK
<1>4. /\ RowsAreInserted /\ OpenIsSeen /\ OpAgrees /\ RecordFollows
      /\ RecordedIsReal
  BY DEF Init, RowsAreInserted, OpenIsSeen, OpAgrees, RecordFollows,
     RecordedIsReal, Inserted, HoldsRow, Deciding, Dispatch, Ticking
<1>5. ListsPassed /\ DispatchPassed
  BY DEF Init, ListsPassed, DispatchPassed, Dispatch
<1>6. SerialRows
  BY <1>2 DEF Init, SerialRows, Deciding, Dispatch
<1> QED BY <1>3, <1>4, <1>5, <1>6 DEF IInv

LEMMA StutterKeeps == ASSUME IInv, UNCHANGED vars PROVE IInv'
<1>1. TypeOK'
  BY DEF IInv, vars, rowVars, worldVars, localVars, histVars, tickVars,
     TypeOK, MinPass
<1>2. RowsAreInserted' /\ OpenIsSeen' /\ OpAgrees' /\ RecordFollows'
  BY DEF IInv, vars, rowVars, worldVars, localVars, histVars, tickVars,
     RowsAreInserted, OpenIsSeen, Ticking, MinPass, OpAgrees, RecordFollows, Inserted,
     GateOpen, MinPass
<1>3. ListsPassed' /\ DispatchPassed'
  BY DEF IInv, vars, rowVars, worldVars, localVars, histVars, tickVars, ListsPassed,
     DispatchPassed, OnFirst, OnSecond, GatePassed, HealthGated, Inserted
<1>4. SerialRows' /\ RecordedIsReal'
  BY DEF IInv, vars, rowVars, worldVars, localVars, histVars, tickVars,
     SerialRows, Serial, RecordedIsReal, HealthGated
<1> QED BY <1>1, <1>2, <1>3, <1>4 DEF IInv

LEMMA NextKeeps == ASSUME IInv, [Next]_vars PROVE IInv'
<1>1. ASSUME World, UNCHANGED scope PROVE IInv'
  BY <1>1, ElapseKeeps, RecordCheckKeeps, CheckAgesKeeps,
     SourceReplacedKeeps, RemovePolicyKeeps DEF World
<1>2. ASSUME NEW a \in scope.procs, UNCHANGED scope,
             Start(a) \/ Progress(a) \/ Abort(a) \/ RecordError(a)
      PROVE  IInv'
  <2>1. a \in Procs
    BY DEF IInv, TypeOK
  <2>2. CASE Start(a)
    BY <1>2, <2>1, <2>2, StartFireKeeps, StartApproveKeeps,
       StartRejectKeeps, StartTickKeeps DEF Start
  <2>3. CASE Progress(a)
    BY <1>2, <2>1, <2>3, LookupKeeps, CreateKeeps, DecideKeeps,
       ApproveKeeps, RejectKeeps, DeployKeeps, RecordKeeps, RecordFailKeeps,
       ListKeeps, Path1Keeps, FlipKeeps, List2Keeps, Path2Keeps DEF Progress
  <2>4. CASE Abort(a)
    BY <1>2, <2>1, <2>4, FinishKeeps DEF Abort
  <2>5. CASE RecordError(a)
    BY <1>2, <2>1, <2>5, RecordFailedKeeps DEF RecordError
  <2> QED BY <1>2, <2>2, <2>3, <2>4, <2>5
<1> QED BY <1>1, <1>2, StutterKeeps DEF Next

\* The inductive invariant of the approval rows and the processes, for every
\* set of processes and policies and any number of rows.
THEOREM PromotionInvariant == Spec => []IInv
  BY InitKeeps, NextKeeps, PTL DEF Spec

\* Every variable keeps its type.
THEOREM PromotionTypeOK == Spec => []TypeOK
<1>1. IInv => TypeOK BY DEF IInv
<1> QED BY <1>1, PromotionInvariant, PTL

\* dispatchDeploy: no interleaving of fires, ticks and aborts lets the system
\* deploy a manual or a too early promotion on its own, or a health-gated one
\* by a tick that has not itself had the gate open at its `now`.
THEOREM PromotionGateRespected == Spec => []GateRespected
<1>1. IInv => GateRespected
  BY DEF IInv, DispatchPassed, GatePassed, Dispatch, GateRespected
<1> QED BY <1>1, PromotionInvariant, PTL

\* deploy_attempted_at and deploy_outcome never claim a deploy, or a success,
\* that did not happen, whoever writes them and whatever the index refuses.
THEOREM PromotionRecordedIsReal == Spec => []RecordedIsReal
<1>1. IInv => RecordedIsReal BY DEF IInv
<1> QED BY <1>1, PromotionInvariant, PTL

-----------------------------------------------------------------------------
\* What RejectedNotDeployed and AttemptedIsTerminal say of a step.
RejectedStep == Serial => \A r \in rejected : deploys'[r] = deploys[r]
TerminalStep ==
    Serial => \A r \in attempted :
                  status'[r] = status[r] /\ deploys'[r] = deploys[r]

Statuses == {"none", "pending", "approved", "rejected", "auto_approved"}

\* With one process, a step changes the status of a row or its number of
\* deploys only before the row was attempted, and deploys none that was
\* rejected.
LEMMA StatusOrDeploys ==
    ASSUME IInv, [Next]_vars, Serial
    PROVE  \/ /\ deploys' = deploys
              /\ \/ status' = status
                 \/ \E r \in Rows, s \in Statuses :
                      /\ r \notin attempted
                      /\ status' = [status EXCEPT ![r] = s]
           \/ /\ status' = status
              /\ \E r \in Rows, n \in 0..2 :
                   /\ r \notin attempted \cup rejected
                   /\ deploys' = [deploys EXCEPT ![r] = n]
<1>1. CASE World
  BY <1>1 DEF World, Elapse, RecordCheck, CheckAges, SourceReplaced,
     RemovePolicy, rowVars, histVars, tickVars
<1>2. ASSUME NEW a \in scope.procs, Start(a)
      PROVE  status' = status /\ deploys' = deploys
  BY <1>2 DEF Start, StartFire, StartApprove, StartReject, StartTick,
     rowVars, histVars, tickVars
<1>3. ASSUME NEW a \in scope.procs, Abort(a) \/ RecordError(a)
      PROVE  status' = status /\ deploys' = deploys
  BY <1>3 DEF Abort, RecordError, rowVars, histVars, tickVars
<1>4. ASSUME NEW a \in scope.procs,
             \/ Lookup(a) \/ Decide(a) \/ Record(a) \/ RecordFail(a)
             \/ List(a) \/ Path1(a) \/ List2(a) \/ Path2(a)
      PROVE  status' = status /\ deploys' = deploys
  BY <1>4 DEF Lookup, Decide, Record, RecordFail, List, Path1, List2, Path2,
     Attempt, rowVars, histVars, tickVars
<1>5. ASSUME NEW a \in scope.procs, Create(a)
      PROVE  /\ deploys' = deploys
             /\ \/ status' = status
                \/ \E r \in Rows, s \in Statuses :
                     /\ r \notin attempted
                     /\ status' = [status EXCEPT ![r] = s]
  <2>1. FirstStatus(pol[a]) \in Statuses
    BY DEF FirstStatus, Statuses
  <2>2. attempted \subseteq Inserted
    BY DEF IInv, RowsAreInserted
  <2> QED BY <1>5, <2>1, <2>2 DEF Create, SetStatus, histVars
<1>6. ASSUME NEW a \in scope.procs, Approve(a) \/ Reject(a) \/ Flip(a)
      PROVE  /\ deploys' = deploys
             /\ \E r \in Rows, s \in Statuses :
                  /\ r \notin attempted
                  /\ status' = [status EXCEPT ![r] = s]
  <2>1. a \in Procs /\ pc[a] \in Deciding
    BY <1>6 DEF IInv, TypeOK, Approve, Reject, Flip, Deciding
  <2>2. row[a] \in Rows /\ row[a] \notin attempted
    BY <2>1 DEF IInv, OpAgrees, HoldsRow, Inserted, SerialRows
  <2> QED BY <1>6, <2>2 DEF Approve, Reject, Flip, SetStatus, Statuses,
       histVars, tickVars
<1>7. ASSUME NEW a \in scope.procs, Deploy(a)
      PROVE  /\ status' = status
             /\ \E r \in Rows, n \in 0..2 :
                  /\ r \notin attempted \cup rejected
                  /\ deploys' = [deploys EXCEPT ![r] = n]
  <2>1. a \in Procs /\ pc[a] = "deploy"
    BY <1>7 DEF IInv, TypeOK, Deploy
  <2>2. row[a] \in Rows
    BY <2>1 DEF IInv, OpAgrees, HoldsRow, Dispatch, Inserted
  <2>3. row[a] \notin attempted \cup rejected
    BY <2>1 DEF IInv, SerialRows, Dispatch
  <2>4. deploys[row[a]] \in 0..2
    BY <2>2 DEF IInv, TypeOK
  <2>5. (IF deploys[row[a]] < 2 THEN deploys[row[a]] + 1 ELSE 2) \in 0..2
    BY <2>4
  <2> QED BY <1>7, <2>2, <2>3, <2>5 DEF Deploy, rowVars
<1>8. CASE UNCHANGED vars
  BY <1>8 DEF vars, rowVars, histVars, tickVars
<1> QED
  BY <1>1, <1>2, <1>3, <1>4, <1>5, <1>6, <1>7, <1>8 DEF Next, Progress

LEMMA DecidedStep ==
    ASSUME IInv, [Next]_vars PROVE RejectedStep /\ TerminalStep
<1> SUFFICES ASSUME Serial PROVE RejectedStep /\ TerminalStep
  BY DEF RejectedStep, TerminalStep
<1>1. status \in [Rows -> Statuses] /\ deploys \in [Rows -> 0..2]
  BY DEF IInv, TypeOK, Statuses
<1>2. attempted \subseteq Rows /\ rejected \subseteq Rows
  BY DEF IInv, TypeOK
<1> QED
  BY <1>1, <1>2, StatusOrDeploys DEF RejectedStep, TerminalStep

\* 0070_promotion_policy.sql: where processes follow one another, a rejected
\* row is not deployed and an attempted one is terminal.
THEOREM PromotionDecidedIsFinal == Spec => DecidedIsFinal
<1>1. ASSUME IInv, [Next]_vars PROVE [RejectedStep]_vars /\ [TerminalStep]_vars
  BY <1>1, DecidedStep
<1>2. Spec => [][RejectedStep]_vars /\ [][TerminalStep]_vars
  BY <1>1, PromotionInvariant, PTL DEF Spec
<1> QED
  BY <1>2 DEF DecidedIsFinal, RejectedNotDeployed, AttemptedIsTerminal,
     RejectedStep, TerminalStep
=============================================================================
