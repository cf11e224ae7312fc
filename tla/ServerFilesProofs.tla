------------------------- MODULE ServerFilesProofs --------------------------
(***************************************************************************)
(* Theorems about ServerFiles, for any number of servers, starts and       *)
(* faults, any texts and any defaults: no run's log is lost but those that *)
(* overlapping starts and failed renames put at risk, the agreement is     *)
(* neither lost nor made up, and the properties say what their last author *)
(* said, or what some author has said.                                     *)
(***************************************************************************)
EXTENDS ServerFiles, CommonLemmas

\* A process is a record with the fields of Off.
Shape ==
  /\ proc = [p \in Servers |-> proc[p]]
  /\ \A p \in Servers :
       proc[p] = [at |-> proc[p].at, run |-> proc[p].run, slot |-> proc[p].slot,
                  accept |-> proc[p].accept, props |-> proc[p].props]

\* Runs are numbered from one: 0 is no run, and never a log that could be lost.  Logs are
\* rolled to names that leave no gap, also by two starts at a time.
RunsNumbered ==
  /\ starts \in Nat
  /\ latest \in Nat
  /\ rolled \in Seq(Nat)
  /\ logged \subseteq Nat \ {0}
  /\ \A p \in Servers : At(p, AtLogs) => proc[p].run \in Nat \ {0}
  /\ \A p \in Servers : At(p, {"rename"}) => proc[p].slot \in 1 .. Len(rolled) + 1

\* Where two starts are at the logs, the log there is is at risk, and so are theirs; that is
\* all the one who creates a log truncates, and all that the one who renames can replace.
AtRisk ==
  /\ \A p, q \in Servers : p # q /\ At(p, AtLogs) /\ At(q, AtLogs) =>
       latest \in risked \cup {0} /\ proc[p].run \in risked
  /\ \A p \in Servers : At(p, {"create"}) => latest \in risked \cup {0}
  /\ \A p \in Servers : At(p, {"rename"}) =>
       \A i \in DOMAIN rolled : i = proc[p].slot => rolled[i] \in risked

LogInv == Shape /\ RunsNumbered /\ AtRisk /\ LogsKept

-----------------------------------------------------------------------------

\* The free name that find looks for is the one after the last.
LEMMA FreeSlotIsNext ==
  ASSUME rolled \in Seq(Nat)
  PROVE  FreeSlot = Len(rolled) + 1
<1>1. Len(rolled) \in Nat /\ DOMAIN rolled = 1 .. Len(rolled)
  BY LenProperties
<1>2. \A i \in 1 .. Len(rolled) + 1 : i \notin DOMAIN rolled <=> i = Len(rolled) + 1
  BY <1>1
<1>3. Len(rolled) + 1 \in 1 .. Len(rolled) + 1
  BY <1>1
<1> QED
  BY <1>2, <1>3 DEF FreeSlot

\* What a step does to a process that is set to another step.
LEMMA AfterGoes ==
  ASSUME Shape, NEW p \in Servers, NEW step, Goes(p, step)
  PROVE  /\ Shape'
         /\ proc'[p].at = step
         /\ step # "off" =>
              proc'[p] = [at |-> step, run |-> proc[p].run, slot |-> proc[p].slot,
                          accept |-> proc[p].accept, props |-> proc[p].props]
         /\ step = "off" => proc'[p] = Off
         /\ \A q \in Servers \ {p} : proc'[q] = proc[q]
<1> DEFINE new == IF step = "off" THEN Off ELSE [proc[p] EXCEPT !.at = step]
<1>1. new = [at |-> new.at, run |-> new.run, slot |-> new.slot, accept |-> new.accept,
             props |-> new.props] /\ new.at = step
  <2>1. CASE step = "off"
    BY <2>1 DEF Off
  <2>2. CASE step # "off"
    <3> DEFINE r == proc[p]
    <3>1. r = [at |-> r.at, run |-> r.run, slot |-> r.slot, accept |-> r.accept,
               props |-> r.props]
      BY DEF Shape
    <3>2. [r EXCEPT !.at = step] = [at |-> step, run |-> r.run, slot |-> r.slot,
                                    accept |-> r.accept, props |-> r.props]
      <4> HIDE DEF r
      <4> QED
        BY <3>1
    <3> QED
      BY <2>2, <3>2
  <2> QED
    BY <2>1, <2>2
<1>2. step # "off" => new = [at |-> step, run |-> proc[p].run, slot |-> proc[p].slot,
                             accept |-> proc[p].accept, props |-> proc[p].props]
  <2>1. SUFFICES ASSUME step # "off"
                 PROVE  new = [at |-> step, run |-> proc[p].run, slot |-> proc[p].slot,
                               accept |-> proc[p].accept, props |-> proc[p].props]
    OBVIOUS
  <2>2. PICK r : r = proc[p]
    OBVIOUS
  <2>3. r = [at |-> r.at, run |-> r.run, slot |-> r.slot, accept |-> r.accept,
             props |-> r.props]
    BY <2>2 DEF Shape
  <2>4. [r EXCEPT !.at = step] = [at |-> step, run |-> r.run, slot |-> r.slot,
                                  accept |-> r.accept, props |-> r.props]
    BY <2>3
  <2>5. new = [r EXCEPT !.at = step]
    BY <2>1, <2>2
  <2> HIDE DEF new
  <2> QED
    BY <2>2, <2>4, <2>5
<1>11. step = "off" => new = Off
  OBVIOUS
<1>3. proc' = [proc EXCEPT ![p] = new]
  BY DEF Goes
<1> HIDE DEF new
<1>4. proc = [q \in Servers |-> proc[q]]
  BY DEF Shape
<1>5. proc'[p] = new /\ \A q \in Servers \ {p} : proc'[q] = proc[q]
  BY <1>3, <1>4
<1>6. proc' = [q \in Servers |-> proc'[q]]
  BY <1>3, <1>4
<1>7. Shape'
  BY <1>1, <1>5, <1>6 DEF Shape
<1> QED
  BY <1>1, <1>2, <1>5, <1>7, <1>11

\* A step of p makes its record that one.
Moves(p, new) == proc' = [q \in Servers |-> IF q = p THEN new ELSE proc[q]]

\* What a start leaves of its record.
LEMMA StartMoves ==
  ASSUME Shape, NEW p \in Servers, StartServer(p)
  PROVE  \E flag \in BOOLEAN : Moves(p, [at |-> IF latest = 0 THEN "create" ELSE "find",
                                         run |-> starts', slot |-> proc[p].slot,
                                         accept |-> flag, props |-> proc[p].props])
<1>0. PICK flag \in BOOLEAN :
        proc' = [proc EXCEPT ![p].at = IF latest = 0 THEN "create" ELSE "find",
                             ![p].run = starts', ![p].accept = flag]
  BY DEF StartServer
<1> DEFINE step == IF latest = 0 THEN "create" ELSE "find"
           new == [at |-> step, run |-> starts', slot |-> proc[p].slot,
                   accept |-> flag, props |-> proc[p].props]
<1>1. proc = [q \in Servers |-> proc[q]]
  BY DEF Shape
<1>2. proc[p] = [at |-> proc[p].at, run |-> proc[p].run, slot |-> proc[p].slot,
                 accept |-> proc[p].accept, props |-> proc[p].props]
  BY DEF Shape
<1>3. PICK r : r = proc[p]
  OBVIOUS
<1>4. PICK to : to = step
  OBVIOUS
<1>5. PICK run : run = starts'
  OBVIOUS
<1>6. r = [at |-> r.at, run |-> r.run, slot |-> r.slot, accept |-> r.accept,
           props |-> r.props]
  BY <1>2, <1>3
<1>7. PICK r1 : r1 = [r EXCEPT !.at = to]
  OBVIOUS
<1>8. r1 = [at |-> to, run |-> r.run, slot |-> r.slot, accept |-> r.accept,
            props |-> r.props]
  BY <1>6, <1>7
<1>9. PICK r2 : r2 = [r1 EXCEPT !.run = run]
  OBVIOUS
<1>10. r2 = [at |-> to, run |-> run, slot |-> r.slot, accept |-> r.accept,
             props |-> r.props]
  BY <1>8, <1>9
<1>11. PICK r3 : r3 = [r2 EXCEPT !.accept = flag]
  OBVIOUS
<1>12. r3 = [at |-> to, run |-> run, slot |-> r.slot, accept |-> flag, props |-> r.props]
  BY <1>10, <1>11
<1>13. proc' = [proc EXCEPT ![p] = r3]
  <2>1. r3 = [r EXCEPT !.at = to, !.run = run, !.accept = flag]
    BY <1>7, <1>9, <1>11
  <2> QED
    BY <1>0, <1>1, <1>3, <1>4, <1>5, <2>1
<1>14. new = r3
  BY <1>3, <1>4, <1>5, <1>12
<1> HIDE DEF new
<1>15. Moves(p, new)
  BY <1>1, <1>13, <1>14 DEF Moves
<1> QED
  BY <1>15 DEF new, step

\* The record of a start that has found a name for the old log.
LEMMA FindMoves ==
  ASSUME Shape, NEW p \in Servers, FindSlot(p)
  PROVE  Moves(p, [at |-> "rename", run |-> proc[p].run, slot |-> FreeSlot,
                   accept |-> proc[p].accept, props |-> proc[p].props])
<1>0. PICK slot : slot = FreeSlot
  OBVIOUS
<1> DEFINE new == [at |-> "rename", run |-> proc[p].run, slot |-> slot,
                   accept |-> proc[p].accept, props |-> proc[p].props]
<1>1. PICK r : r = proc[p]
  OBVIOUS
<1>2. r = [at |-> r.at, run |-> r.run, slot |-> r.slot, accept |-> r.accept,
           props |-> r.props]
  BY <1>1 DEF Shape
<1>3. PICK r1 : r1 = [r EXCEPT !.at = "rename"]
  OBVIOUS
<1>4. r1 = [at |-> "rename", run |-> r.run, slot |-> r.slot, accept |-> r.accept,
            props |-> r.props]
  BY <1>2, <1>3
<1>5. PICK r2 : r2 = [r1 EXCEPT !.slot = slot]
  OBVIOUS
<1>6. r2 = [at |-> "rename", run |-> r.run, slot |-> slot, accept |-> r.accept,
            props |-> r.props]
  BY <1>4, <1>5
<1>7. proc = [q \in Servers |-> proc[q]]
  BY DEF Shape
<1>8. proc' = [proc EXCEPT ![p] = r2]
  <2>1. r2 = [r EXCEPT !.at = "rename", !.slot = slot]
    BY <1>3, <1>5
  <2> QED
    BY <1>0, <1>1, <1>7, <2>1 DEF FindSlot
<1>9. new = r2
  BY <1>1, <1>6
<1> HIDE DEF new
<1> QED
  BY <1>0, <1>7, <1>8, <1>9 DEF Moves, new

\* The record of a start that has its log.
LEMMA CreateMoves ==
  ASSUME Shape, NEW p \in Servers, CreateLog(p)
  PROVE  Moves(p, [at |-> "load", run |-> 0, slot |-> 0, accept |-> proc[p].accept,
                   props |-> proc[p].props])
<1> DEFINE new == [at |-> "load", run |-> 0, slot |-> 0, accept |-> proc[p].accept,
                   props |-> proc[p].props]
<1>1. PICK r : r = proc[p]
  OBVIOUS
<1>2. r = [at |-> r.at, run |-> r.run, slot |-> r.slot, accept |-> r.accept,
           props |-> r.props]
  BY <1>1 DEF Shape
<1>3. PICK r1 : r1 = [r EXCEPT !.at = "load"]
  OBVIOUS
<1>4. r1 = [at |-> "load", run |-> r.run, slot |-> r.slot, accept |-> r.accept,
            props |-> r.props]
  BY <1>2, <1>3
<1>5. PICK r2 : r2 = [r1 EXCEPT !.run = 0]
  OBVIOUS
<1>6. r2 = [at |-> "load", run |-> 0, slot |-> r.slot, accept |-> r.accept,
            props |-> r.props]
  BY <1>4, <1>5
<1>7. PICK r3 : r3 = [r2 EXCEPT !.slot = 0]
  OBVIOUS
<1>8. r3 = [at |-> "load", run |-> 0, slot |-> 0, accept |-> r.accept, props |-> r.props]
  BY <1>6, <1>7
<1>9. proc = [q \in Servers |-> proc[q]]
  BY DEF Shape
<1>10. proc' = [proc EXCEPT ![p] = r3]
  <2>1. r3 = [r EXCEPT !.at = "load", !.run = 0, !.slot = 0]
    BY <1>3, <1>5, <1>7
  <2> QED
    BY <1>1, <1>9, <2>1 DEF CreateLog
<1>11. new = r3
  BY <1>1, <1>8
<1> HIDE DEF new
<1> QED
  BY <1>9, <1>10, <1>11 DEF Moves, new

\* The record of a start that loads or writes the properties.
LEMMA PropsMoves ==
  ASSUME Shape, NEW p \in Servers, NEW step, NEW props,
         proc' = [proc EXCEPT ![p].at = step, ![p].props = props]
  PROVE  Moves(p, [at |-> step, run |-> proc[p].run, slot |-> proc[p].slot,
                   accept |-> proc[p].accept, props |-> props])
<1>1. PICK r : r = proc[p]
  OBVIOUS
<1>2. r = [at |-> r.at, run |-> r.run, slot |-> r.slot, accept |-> r.accept,
           props |-> r.props]
  BY <1>1 DEF Shape
<1>3. PICK r1 : r1 = [r EXCEPT !.at = step]
  OBVIOUS
<1>4. r1 = [at |-> step, run |-> r.run, slot |-> r.slot, accept |-> r.accept,
            props |-> r.props]
  BY <1>2, <1>3
<1>5. PICK r2 : r2 = [r1 EXCEPT !.props = props]
  OBVIOUS
<1>6. r2 = [at |-> step, run |-> r.run, slot |-> r.slot, accept |-> r.accept,
            props |-> props]
  BY <1>4, <1>5
<1>7. proc = [q \in Servers |-> proc[q]]
  BY DEF Shape
<1>8. proc' = [proc EXCEPT ![p] = r2]
  <2>1. r2 = [r EXCEPT !.at = step, !.props = props]
    BY <1>3, <1>5
  <2> QED
    BY <1>1, <1>7, <2>1
<1>9. proc' = [q \in Servers |-> IF q = p THEN r2 ELSE proc[q]]
  BY <1>7, <1>8
<1> QED
  BY <1>1, <1>6, <1>9 DEF Moves

\* Before the first start there is no log.
LEMMA LogInvStarts == Init => LogInv
  BY EmptySeq DEF Init, LogInv, Shape, RunsNumbered, AtRisk, LogsKept, Off, At, AtLogs, Range

\* A step that leaves the logs alone, and lets no start come to them.
LEMMA Elsewhere ==
  ASSUME LogInv, Shape', UNCHANGED <<logs, logged, risked, starts>>,
         \A q \in Servers : proc'[q] = proc[q] \/ proc'[q].at \notin AtLogs
  PROVE  LogInv'
<1>1. UNCHANGED <<latest, rolled, logged, risked, starts>>
  BY DEF logs
<1>2. \A q \in Servers : proc'[q].at \in AtLogs => proc'[q] = proc[q]
  OBVIOUS
<1>3. RunsNumbered'
  BY <1>1, <1>2 DEF LogInv, RunsNumbered, At, AtLogs
<1>4. AtRisk'
  BY <1>1, <1>2 DEF LogInv, AtRisk, At, AtLogs
<1>5. LogsKept'
  BY <1>1 DEF LogInv, LogsKept, Range
<1> QED
  BY <1>3, <1>4, <1>5 DEF LogInv

\* A step to something else than the logs.
LEMMA GoesElsewhere ==
  ASSUME LogInv, NEW p \in Servers, NEW step, Goes(p, step), step \notin AtLogs,
         UNCHANGED <<logs, logged, risked, starts>>
  PROVE  LogInv'
<1>1. Shape' /\ proc'[p].at = step /\ \A q \in Servers \ {p} : proc'[q] = proc[q]
  BY AfterGoes DEF LogInv
<1> QED
  BY <1>1, Elsewhere

\* A start comes to the logs: if another is there, what the two may cost is at risk.
LEMMA StartKeepsLogs ==
  ASSUME LogInv, NEW p \in Servers, StartServer(p)
  PROVE  LogInv'
<1> DEFINE step == IF latest = 0 THEN "create" ELSE "find"
           Started(flag) == [at |-> step, run |-> starts', slot |-> proc[p].slot,
                              accept |-> flag, props |-> proc[p].props]
<1>1. PICK flag : Moves(p, Started(flag))
  BY StartMoves DEF LogInv
<1>2. starts \in Nat /\ starts' = starts + 1 /\ UNCHANGED <<latest, rolled, logged>>
  BY DEF StartServer, LogInv, RunsNumbered, logs, history
<1> DEFINE new == Started(flag)
<1>3. proc' = [q \in Servers |-> IF q = p THEN new ELSE proc[q]]
  BY <1>1 DEF Moves
<1>4. /\ proc'[p].at = step /\ proc'[p].run = starts'
      /\ \A q \in Servers \ {p} : proc'[q] = proc[q]
  BY <1>3
<1>5. Shape'
  BY <1>3 DEF LogInv, Shape
<1>6. RunsNumbered'
  BY <1>2, <1>4 DEF LogInv, RunsNumbered, At
<1>7. /\ risked \subseteq risked'
      /\ \A q \in Servers : At(q, AtLogs) => {latest, starts', proc[q].run} \subseteq risked'
  BY DEF StartServer
<1>8. \A q \in Servers : q # p /\ At(q, AtLogs)' =>
        /\ At(q, AtLogs) /\ latest' \in risked'
        /\ proc'[q].run \in risked' /\ proc'[p].run \in risked'
  BY <1>2, <1>4, <1>7 DEF At
<1>9. AtRisk'
  <2>1. ASSUME NEW q \in Servers, NEW r \in Servers, q # r, At(q, AtLogs)', At(r, AtLogs)'
        PROVE  (latest \in risked \cup {0})' /\ proc'[q].run \in risked'
    BY <1>8, <2>1
  <2>2. ASSUME NEW q \in Servers, At(q, {"create"})'
        PROVE  (latest \in risked \cup {0})'
    BY <1>2, <1>4, <1>7, <2>2 DEF LogInv, AtRisk, At
  <2>3. ASSUME NEW q \in Servers, At(q, {"rename"})', NEW i \in DOMAIN rolled', i = proc'[q].slot
        PROVE  rolled'[i] \in risked'
    <3>1. q # p /\ At(q, {"rename"}) /\ i = proc[q].slot /\ i \in DOMAIN rolled
      BY <1>2, <1>4, <2>3 DEF At
    <3> QED
      BY <1>2, <1>7, <3>1 DEF LogInv, AtRisk
  <2> QED
    BY <2>1, <2>2, <2>3 DEF AtRisk
<1>10. LogsKept'
  BY <1>2, <1>7 DEF LogInv, LogsKept, Range
<1> QED
  BY <1>5, <1>6, <1>9, <1>10 DEF LogInv

\* The name found is free.
LEMMA FindKeepsLogs ==
  ASSUME LogInv, NEW p \in Servers, FindSlot(p)
  PROVE  LogInv'
<1>1. PICK slot : slot = FreeSlot
  OBVIOUS
<1>2. slot = Len(rolled) + 1
  BY <1>1, FreeSlotIsNext DEF LogInv, RunsNumbered
<1>3. UNCHANGED <<latest, rolled, logged, risked, starts>>
  BY DEF FindSlot, logs, history, doubts, bounds
<1> DEFINE new == [at |-> "rename", run |-> proc[p].run, slot |-> slot,
                   accept |-> proc[p].accept, props |-> proc[p].props]
<1>4. proc' = [q \in Servers |-> IF q = p THEN new ELSE proc[q]]
  BY <1>1, FindMoves DEF LogInv, Moves
<1>5. /\ proc'[p].at = "rename" /\ proc'[p].run = proc[p].run /\ proc'[p].slot = slot
      /\ \A q \in Servers \ {p} : proc'[q] = proc[q]
  BY <1>4
<1>6. Shape'
  BY <1>4 DEF LogInv, Shape
<1>7. RunsNumbered'
  <2>1. Len(rolled) + 1 \in 1 .. Len(rolled) + 1
    BY LenProperties DEF LogInv, RunsNumbered
  <2> QED
    BY <1>2, <1>3, <1>5, <2>1 DEF LogInv, RunsNumbered, FindSlot, At, AtLogs
<1>8. AtRisk'
  <2>1. \A q \in Servers : /\ At(q, AtLogs)' => At(q, AtLogs) /\ proc'[q].run = proc[q].run
                           /\ At(q, {"create"})' => At(q, {"create"})
    BY <1>5 DEF FindSlot, At, AtLogs
  <2>2. ASSUME NEW q \in Servers, At(q, {"rename"})', NEW i \in DOMAIN rolled', i = proc'[q].slot
        PROVE  rolled'[i] \in risked'
    <3>1. i \in 1 .. Len(rolled) /\ Len(rolled) \in Nat
      BY <1>3, LenProperties DEF LogInv, RunsNumbered
    <3>2. q # p
      BY <1>2, <1>5, <2>2, <3>1
    <3> QED
      BY <1>3, <1>5, <2>2, <3>2 DEF LogInv, AtRisk, At
  <2> QED
    BY <1>3, <2>1, <2>2 DEF LogInv, AtRisk
<1>9. LogsKept'
  BY <1>3 DEF LogInv, LogsKept, Range
<1> QED
  BY <1>6, <1>7, <1>8, <1>9 DEF LogInv

\* The log is rolled to a name of its own, or to that of a log which is at risk.
LEMMA RenameKeepsLogs ==
  ASSUME LogInv, NEW p \in Servers, RenameLog(p)
  PROVE  LogInv'
<1>1. UNCHANGED <<logged, risked, starts>> /\ latest' = 0
  BY DEF RenameLog, history, doubts, bounds
<1>2. /\ Shape'
      /\ proc'[p].at = "create" /\ proc'[p].run = proc[p].run
      /\ \A q \in Servers \ {p} : proc'[q] = proc[q]
  <2>1. Goes(p, "create") /\ Shape
    BY DEF RenameLog, LogInv
  <2>2. /\ Shape' /\ \A q \in Servers \ {p} : proc'[q] = proc[q]
        /\ proc'[p] = [at |-> "create", run |-> proc[p].run, slot |-> proc[p].slot,
                       accept |-> proc[p].accept, props |-> proc[p].props]
    BY <2>1, AfterGoes
  <2> QED
    BY <2>2
<1>3. CASE latest = 0
  <2>1. rolled' = rolled
    BY <1>3 DEF RenameLog
  <2>2. RunsNumbered'
    <3>1. \A q \in Servers : At(q, AtLogs)' => proc'[q].run \in Nat \ {0}
      BY <1>2 DEF LogInv, RunsNumbered, RenameLog, At, AtLogs
    <3>2. \A q \in Servers : At(q, {"rename"})' => proc'[q].slot \in 1 .. Len(rolled) + 1
      BY <1>2 DEF LogInv, RunsNumbered, At
    <3> QED
      BY <1>1, <2>1, <3>1, <3>2 DEF LogInv, RunsNumbered
  <2>3. AtRisk'
    <3>1. ASSUME NEW q \in Servers, At(q, AtLogs)'
          PROVE  At(q, AtLogs) /\ proc'[q].run = proc[q].run
      BY <1>2, <3>1 DEF RenameLog, At, AtLogs
    <3>2. \A q \in Servers : At(q, {"rename"})' => At(q, {"rename"}) /\ proc'[q] = proc[q]
      BY <1>2 DEF At
    <3> QED
      BY <1>1, <2>1, <3>1, <3>2 DEF LogInv, AtRisk
  <2>4. LogsKept'
    BY <1>1, <1>3, <2>1 DEF LogInv, LogsKept, Range
  <2> QED
    BY <1>2, <2>2, <2>3, <2>4 DEF LogInv
<1>4. CASE latest # 0
  <2>1. PICK n : n = Len(rolled)
    OBVIOUS
  <2>2. PICK slot : slot = proc[p].slot
    OBVIOUS
  <2>3. n \in Nat /\ DOMAIN rolled = 1 .. n /\ rolled \in [1 .. n -> Nat]
    BY <2>1, LenProperties DEF LogInv, RunsNumbered
  <2>4. slot \in 1 .. n + 1
    BY <2>1, <2>2 DEF LogInv, RunsNumbered, RenameLog
  <2>5. rolled' = [i \in (1 .. n) \cup {slot} |-> IF i = slot THEN latest ELSE rolled[i]]
    BY <1>4, <2>2, <2>3 DEF RenameLog
  <2>6. PICK m \in {n, n + 1} : (1 .. n) \cup {slot} = 1 .. m
    <3>1. CASE slot = n + 1
      BY <2>3, <3>1
    <3>2. CASE slot # n + 1
      <4>1. slot \in 1 .. n
        BY <2>3, <2>4, <3>2
      <4> QED
        BY <4>1
    <3> QED
      BY <3>1, <3>2
  <2>7. rolled' \in [1 .. m -> Nat]
    BY <2>3, <2>5, <2>6 DEF LogInv, RunsNumbered
  <2>8. rolled' \in Seq(Nat) /\ Len(rolled)' = m
    BY <2>3, <2>7, SeqDef, LenProperties
  <2>9. RunsNumbered'
    <3>1. \A q \in Servers : At(q, {"rename"})' => q # p /\ At(q, {"rename"})
      BY <1>2 DEF At
    <3>2. \A q \in Servers : At(q, {"rename"})' => proc'[q].slot \in 1 .. m + 1
      BY <1>2, <2>1, <2>3, <2>6, <3>1 DEF LogInv, RunsNumbered
    <3>3. \A q \in Servers : At(q, AtLogs)' => proc'[q].run \in Nat \ {0}
      BY <1>2 DEF LogInv, RunsNumbered, RenameLog, At, AtLogs
    <3> QED
      BY <1>1, <2>8, <3>2, <3>3 DEF LogInv, RunsNumbered
  <2>10. AtRisk'
    <3>1. \A q \in Servers : At(q, AtLogs)' => At(q, AtLogs) /\ proc'[q].run = proc[q].run
      BY <1>2 DEF RenameLog, At, AtLogs
    <3>2. ASSUME NEW q \in Servers, At(q, {"rename"})', NEW i \in DOMAIN rolled',
                 i = proc'[q].slot
          PROVE  rolled'[i] \in risked'
      <4>1. q # p /\ At(q, {"rename"}) /\ i = proc[q].slot
        BY <1>2, <3>2 DEF At
      <4>2. CASE i = slot
        <5>1. latest \in risked
          BY <1>4, <4>1 DEF LogInv, AtRisk, RenameLog, At, AtLogs
        <5> QED
          BY <1>1, <2>5, <4>2, <5>1
      <4>3. CASE i # slot
        <5>1. i \in DOMAIN rolled /\ rolled'[i] = rolled[i]
          BY <2>3, <2>5, <3>2, <4>3
        <5> QED
          BY <1>1, <4>1, <5>1 DEF LogInv, AtRisk
      <4> QED
        BY <4>2, <4>3
    <3> QED
      BY <1>1, <3>1, <3>2 DEF LogInv, AtRisk
  <2>11. LogsKept'
    <3>1. SUFFICES ASSUME NEW run \in logged, run # 0
                   PROVE  run \in Range(rolled)' \/ run \in risked
      BY <1>1 DEF LogInv, RunsNumbered, LogsKept
    <3>2. rolled'[slot] = latest /\ DOMAIN rolled' = 1 .. n \cup {slot}
          /\ \A i \in 1 .. n : i # slot => rolled'[i] = rolled[i]
      BY <2>3, <2>5
    <3>3. run \in {latest} \cup Range(rolled) \cup risked
      BY <3>1 DEF LogInv, LogsKept
    <3>4. \A i \in 1 .. n : i = slot => rolled[i] \in risked
      BY <2>2, <2>3 DEF LogInv, AtRisk, RenameLog
    <3>5. CASE run = latest
      BY <3>2, <3>5 DEF Range
    <3>6. CASE run \in Range(rolled)
      <4>1. PICK i \in 1 .. n : run = rolled[i]
        BY <2>3, <3>6 DEF Range
      <4> QED
        BY <3>2, <3>4, <4>1 DEF Range
    <3> QED
      BY <3>3, <3>5, <3>6
  <2> QED
    BY <1>2, <2>9, <2>10, <2>11 DEF LogInv
<1> QED
  BY <1>3, <1>4

\* A log is created where there is none, or where the one there is is at risk.
LEMMA CreateKeepsLogs ==
  ASSUME LogInv, NEW p \in Servers, CreateLog(p)
  PROVE  LogInv'
<1>1. /\ UNCHANGED <<rolled, risked, starts>>
      /\ latest' = proc[p].run
      /\ logged' = logged \cup {proc[p].run}
      /\ proc[p].run \in Nat \ {0}
  BY DEF CreateLog, doubts, bounds, LogInv, RunsNumbered, At, AtLogs
<1> DEFINE new == [at |-> "load", run |-> 0, slot |-> 0, accept |-> proc[p].accept,
                   props |-> proc[p].props]
<1>2. proc' = [q \in Servers |-> IF q = p THEN new ELSE proc[q]]
  BY CreateMoves DEF LogInv, Moves
<1>3. proc'[p].at = "load" /\ \A q \in Servers \ {p} : proc'[q] = proc[q]
  BY <1>2
<1>4. Shape'
  BY <1>2 DEF LogInv, Shape
<1>5. RunsNumbered'
  BY <1>1, <1>3 DEF LogInv, RunsNumbered, At, AtLogs
<1>6. AtRisk'
  <2>1. ASSUME NEW q \in Servers, At(q, AtLogs)'
        PROVE  q # p /\ At(q, AtLogs) /\ proc'[q] = proc[q] /\ latest' \in risked
    <3>1. q # p /\ proc'[q] = proc[q] /\ At(q, AtLogs)
      BY <1>3, <2>1 DEF At, AtLogs
    <3>2. At(p, AtLogs)
      BY DEF CreateLog, At, AtLogs
    <3> QED
      BY <1>1, <3>1, <3>2 DEF LogInv, AtRisk
  <2>2. \A q \in Servers : At(q, {"create", "rename"})' => At(q, AtLogs)'
    BY DEF At, AtLogs
  <2>3. ASSUME NEW q \in Servers, At(q, {"rename"})', NEW i \in DOMAIN rolled', i = proc'[q].slot
        PROVE  rolled'[i] \in risked'
    <3>1. q # p /\ At(q, {"rename"}) /\ proc'[q] = proc[q]
      BY <1>3, <2>3 DEF At
    <3> QED
      BY <1>1, <2>3, <3>1 DEF LogInv, AtRisk
  <2>4. ASSUME NEW q \in Servers, At(q, {"create"})' PROVE latest' \in risked'
    BY <1>1, <2>1, <2>4 DEF At, AtLogs
  <2>5. ASSUME NEW q \in Servers, NEW r \in Servers, q # r, At(q, AtLogs)', At(r, AtLogs)'
        PROVE  latest' \in risked' /\ proc'[q].run \in risked'
    BY <1>1, <2>1, <2>5 DEF LogInv, AtRisk
  <2> QED
    BY <2>3, <2>4, <2>5 DEF AtRisk
<1>7. LogsKept'
  <2>1. SUFFICES ASSUME NEW run \in logged
                 PROVE  run \in Range(rolled) \cup risked
    BY <1>1 DEF LogsKept, Range
  <2>2. latest \in risked \cup {0} /\ run # 0
    BY <2>1 DEF LogInv, AtRisk, RunsNumbered, CreateLog
  <2> QED
    BY <2>1, <2>2 DEF LogInv, LogsKept
<1> QED
  BY <1>4, <1>5, <1>6, <1>7 DEF LogInv

\* The same for a step that changes the properties a start has loaded.
LEMMA SetsProps ==
  ASSUME LogInv, NEW p \in Servers, NEW step, NEW props, step \notin AtLogs,
         proc' = [proc EXCEPT ![p].at = step, ![p].props = props],
         UNCHANGED <<logs, logged, risked, starts>>
  PROVE  LogInv'
<1> DEFINE new == [at |-> step, run |-> proc[p].run, slot |-> proc[p].slot,
                   accept |-> proc[p].accept, props |-> props]
<1>1. proc' = [q \in Servers |-> IF q = p THEN new ELSE proc[q]]
  <2>1. Shape
    BY DEF LogInv
  <2>2. Moves(p, new)
    <3> HIDE DEF Shape
    <3> QED BY <2>1, PropsMoves
  <2> QED
    BY <2>2 DEF Moves
<1>2. Shape'
  BY <1>1 DEF LogInv, Shape
<1>3. proc'[p].at = step /\ \A q \in Servers \ {p} : proc'[q] = proc[q]
  BY <1>1
<1> QED
  BY <1>2, <1>3, Elsewhere

\* A rename that fails puts the log there is at risk.
LEMMA FailureKeepsLogs ==
  ASSUME LogInv, NEW p \in Servers, RenameFails(p)
  PROVE  LogInv'
<1>1. /\ Shape'
      /\ proc'[p].at = "create" /\ proc'[p].run = proc[p].run
      /\ \A q \in Servers \ {p} : proc'[q] = proc[q]
  <2>1. Goes(p, "create") /\ Shape
    BY DEF RenameFails, LogInv
  <2>2. /\ Shape' /\ \A q \in Servers \ {p} : proc'[q] = proc[q]
        /\ proc'[p] = [at |-> "create", run |-> proc[p].run, slot |-> proc[p].slot,
                       accept |-> proc[p].accept, props |-> proc[p].props]
    BY <2>1, AfterGoes
  <2> QED
    BY <2>2
<1>2. UNCHANGED <<latest, rolled, logged, starts>> /\ risked' = risked \cup {latest}
  BY DEF RenameFails, logs, history
<1>3. RunsNumbered'
  BY <1>1, <1>2 DEF LogInv, RunsNumbered, RenameFails, At, AtLogs
<1>4. AtRisk'
  <2>1. \A q \in Servers : /\ At(q, AtLogs)' => At(q, AtLogs) /\ proc'[q].run = proc[q].run
                           /\ At(q, {"rename"})' => At(q, {"rename"}) /\ proc'[q] = proc[q]
    BY <1>1 DEF RenameFails, At, AtLogs
  <2> QED
    BY <1>2, <2>1 DEF LogInv, AtRisk
<1>5. LogsKept'
  BY <1>2 DEF LogInv, LogsKept, Range
<1> QED
  BY <1>1, <1>3, <1>4, <1>5 DEF LogInv

\* The steps after the log leave the logs alone.
LEMMA OthersKeepLogs ==
  ASSUME LogInv, NEW p \in Servers,
         \/ LoadProperties(p) \/ TruncateProperties(p) \/ WriteProperties(p)
         \/ Agree(p) \/ WriteEula(p) \/ Bind(p) \/ Stop(p) \/ Kill(p)
  PROVE  LogInv'
<1>1. UNCHANGED <<logs, logged, risked, starts>>
  BY DEF LoadProperties, TruncateProperties, WriteProperties, Agree, WriteEula, Bind, Stop,
         Kill, history, doubts, bounds
<1> DEFINE Leaves(step) == step \notin AtLogs /\ Goes(p, step)
<1>2. (\E step : Leaves(step)) => LogInv'
  BY <1>1, GoesElsewhere
<1>3. CASE LoadProperties(p)
  <2>1. PICK loaded : loaded = Loaded(file)
    OBVIOUS
  <2>2. proc' = [proc EXCEPT ![p].at = "truncate", ![p].props = loaded]
    BY <1>3, <2>1 DEF LoadProperties
  <2>3. "truncate" \notin AtLogs
    BY DEF AtLogs
  <2> QED
    BY <1>1, <2>2, <2>3, SetsProps
<1>4. CASE TruncateProperties(p)
  BY <1>2, <1>4 DEF TruncateProperties, AtLogs
<1>5. CASE WriteProperties(p)
  <2>1. PICK none : none = <<>>
    OBVIOUS
  <2>2. proc' = [proc EXCEPT ![p].at = "agree", ![p].props = none]
    BY <1>5, <2>1, Zenon DEF WriteProperties
  <2>3. "agree" \notin AtLogs
    BY DEF AtLogs
  <2> QED
    BY <1>1, <2>2, <2>3, SetsProps
<1>6. CASE Agree(p)
  BY <1>2, <1>6 DEF Agree, AtLogs
<1>7. CASE WriteEula(p)
  BY <1>2, <1>7 DEF WriteEula, AtLogs
<1>8. CASE Bind(p)
  BY <1>2, <1>8 DEF Bind, Bound, AtLogs
<1>9. CASE Stop(p)
  BY <1>2, <1>9 DEF Stop, AtLogs
<1>10. CASE Kill(p)
  BY <1>2, <1>10 DEF Kill, AtLogs
<1> QED
  BY <1>3, <1>4, <1>5, <1>6, <1>7, <1>8, <1>9, <1>10

\* Every step keeps the logs, whoever takes it.
LEMMA LogInvStep == LogInv /\ [Next]_vars => LogInv'
<1> SUFFICES ASSUME LogInv, [Next]_vars PROVE LogInv'
  OBVIOUS
<1>1. CASE UNCHANGED vars
  <2>1. UNCHANGED <<proc, logs, logged, risked, starts>>
    BY <1>1 DEF vars, history, doubts, bounds
  <2> QED
    BY <2>1, Elsewhere DEF LogInv, Shape
<1>2. CASE EditProperties
  <2>1. UNCHANGED <<proc, logs, logged, risked, starts>>
    BY <1>2 DEF EditProperties
  <2> QED
    BY <2>1, Elsewhere DEF LogInv, Shape
<1>3. CASE \E p \in Servers : Proceeds(p) \/ StartServer(p) \/ RenameFails(p) \/ Stop(p) \/ Kill(p)
  BY <1>3, FindKeepsLogs, RenameKeepsLogs, CreateKeepsLogs, StartKeepsLogs,
     FailureKeepsLogs, OthersKeepLogs DEF Proceeds
<1> QED
  BY <1>1, <1>2, <1>3 DEF Next

\* However often servers are started, killed and started again, and however their starts
\* overlap, every run that opened a log still has it under some name, but for the logs that a
\* failed rename or two starts that met there put at risk (open_log_file).
THEOREM LogsKeptAlways == Spec => []LogsKept
<1>1. LogInv => LogsKept
  BY DEF LogInv
<1> QED
  BY LogInvStarts, LogInvStep, <1>1, PTL DEF Spec

-----------------------------------------------------------------------------
(* The agreement *)

\* Where the file says accepted, the agreement has been given.
AgreementInv == AgreementKept /\ (eula = "accepted" => agreed)

\* A step that leaves the agreement alone, by a start that is not about to write it and goes
\* on only if it had gone on before.
LEMMA AgreementAlone ==
  ASSUME Shape, AgreementInv, UNCHANGED <<eula, agreed>>,
         "eula" \in doubt => "eula" \in doubt',
         \A q \in Servers : At(q, {"accept"}) => proc'[q] = proc[q],
         \A q \in Servers : At(q, {"bind", "up"})' => At(q, {"bind", "up"})
  PROVE  AgreementInv'
  BY DEF AgreementInv, AgreementKept, At

\* The agreement is torn only under a start that is to give it again: it writes it, or it
\* is killed and leaves a doubt.  A start goes on once it has written it, or has read it.
LEMMA AgreementStep == Shape /\ AgreementInv /\ [Next]_vars => AgreementInv'
<1> SUFFICES ASSUME Shape, AgreementInv, [Next]_vars PROVE AgreementInv'
  OBVIOUS
<1>1. CASE UNCHANGED vars
  BY <1>1, AgreementAlone DEF vars, history, doubts, At
<1>2. CASE EditProperties
  BY <1>2, AgreementAlone DEF EditProperties, At
<1>3. ASSUME NEW p \in Servers,
             \/ FindSlot(p) \/ RenameLog(p) \/ CreateLog(p) \/ LoadProperties(p)
             \/ TruncateProperties(p) \/ WriteProperties(p) \/ Bind(p)
             \/ StartServer(p) \/ RenameFails(p) \/ Stop(p)
      PROVE  AgreementInv'
  <2>1. UNCHANGED <<eula, agreed>> /\ ("eula" \in doubt => "eula" \in doubt')
    BY <1>3 DEF FindSlot, RenameLog, CreateLog, LoadProperties, TruncateProperties,
                WriteProperties, Bind, StartServer, RenameFails, Stop, history, doubts, bounds
  <2>2. ~At(p, {"accept"})
    BY <1>3 DEF FindSlot, RenameLog, CreateLog, LoadProperties, TruncateProperties,
                WriteProperties, Bind, StartServer, RenameFails, Stop, At
  <2>3. \E new : proc' = [proc EXCEPT ![p] = new]
    BY <1>3 DEF FindSlot, RenameLog, CreateLog, LoadProperties, TruncateProperties,
                WriteProperties, Bind, StartServer, RenameFails, Stop, Goes
  <2>4. \A q \in Servers \ {p} : proc'[q] = proc[q]
    BY <2>3 DEF Shape
  <2>5. At(p, {"bind", "up"})' => At(p, {"bind", "up"})
    <3>1. CASE FindSlot(p)
      BY <3>1, FindMoves DEF Moves, At
    <3>2. CASE CreateLog(p)
      BY <3>2, CreateMoves DEF Moves, At
    <3>3. CASE StartServer(p)
      <4>1. PICK flag \in BOOLEAN :
              Moves(p, [at |-> IF latest = 0 THEN "create" ELSE "find", run |-> starts',
                        slot |-> proc[p].slot, accept |-> flag, props |-> proc[p].props])
        BY <3>3, StartMoves
      <4> QED
        BY <4>1 DEF Moves, At
    <3>4. CASE LoadProperties(p)
      <4>1. PICK loaded : loaded = Loaded(file)
        OBVIOUS
      <4>2. proc' = [proc EXCEPT ![p].at = "truncate", ![p].props = loaded]
        BY <3>4, <4>1 DEF LoadProperties
      <4>3. Moves(p, [at |-> "truncate", run |-> proc[p].run, slot |-> proc[p].slot,
                      accept |-> proc[p].accept, props |-> loaded])
        BY <4>2, PropsMoves
      <4> QED
        BY <4>3 DEF Moves, At
    <3>5. CASE WriteProperties(p)
      <4>1. PICK none : none = <<>>
        OBVIOUS
      <4>2. proc' = [proc EXCEPT ![p].at = "agree", ![p].props = none]
        BY <3>5, <4>1, Zenon DEF WriteProperties
      <4>3. Moves(p, [at |-> "agree", run |-> proc[p].run, slot |-> proc[p].slot,
                      accept |-> proc[p].accept, props |-> none])
        BY <4>2, PropsMoves
      <4> QED
        BY <4>3 DEF Moves, At
    <3>6. CASE RenameLog(p) \/ RenameFails(p) \/ TruncateProperties(p) \/ Stop(p)
      <4>1. PICK step \in {"create", "write", "off"} : Goes(p, step)
        BY <3>6 DEF RenameLog, RenameFails, TruncateProperties, Stop
      <4>2. proc'[p].at = step
        BY <4>1, AfterGoes
      <4> QED
        BY <4>2 DEF At
    <3>7. CASE Bind(p)
      BY <3>7 DEF Bind, At
    <3> QED
      BY <1>3, <3>1, <3>2, <3>3, <3>4, <3>5, <3>6, <3>7
  <2>6. \A q \in Servers : At(q, {"bind", "up"})' => At(q, {"bind", "up"})
    BY <2>4, <2>5 DEF At
  <2> QED
    BY <2>1, <2>2, <2>4, <2>6, AgreementAlone
<1>4. ASSUME NEW p \in Servers, Agree(p)
      PROVE  AgreementInv'
  <2>1. UNCHANGED <<agreed, doubt>> /\ At(p, {"agree"})
    BY <1>4 DEF Agree, history, doubts
  <2>2. CASE proc[p].accept
    <3>1. /\ proc'[p].at = "accept" /\ eula' = "torn"
          /\ \A q \in Servers \ {p} : proc'[q] = proc[q]
      BY <1>4, <2>2, AfterGoes DEF Agree
    <3> QED
      BY <2>1, <3>1 DEF AgreementInv, AgreementKept, At
  <2>3. CASE ~proc[p].accept
    <3>1. eula' = eula /\ Goes(p, IF eula = "accepted" THEN "bind" ELSE "off")
      BY <1>4, <2>3 DEF Agree
    <3>2. \A q \in Servers \ {p} : proc'[q] = proc[q]
      BY <3>1, AfterGoes
    <3>3. CASE eula = "accepted"
      <4>1. agreed /\ ~At(p, {"accept"})
        BY <2>1, <3>3 DEF AgreementInv, At
      <4> QED
        BY <2>1, <3>1, <3>3, <4>1 DEF AgreementInv, AgreementKept
    <3>4. CASE eula # "accepted"
      <4>1. Goes(p, "off")
        BY <3>1, <3>4
      <4>2. proc'[p].at = "off"
        BY <4>1, AfterGoes
      <4> QED
        BY <2>1, <3>1, <3>2, <4>2, AgreementAlone DEF At
    <3> QED
      BY <3>3, <3>4
  <2> QED
    BY <2>2, <2>3
<1>5. ASSUME NEW p \in Servers, WriteEula(p)
      PROVE  AgreementInv'
  BY <1>5 DEF WriteEula, Acceptance, AgreementInv, AgreementKept
<1>6. ASSUME NEW p \in Servers, Kill(p)
      PROVE  AgreementInv'
  <2>1. UNCHANGED <<eula, agreed>> /\ ("eula" \in doubt => "eula" \in doubt')
    BY <1>6 DEF Kill, history
  <2>2. proc'[p] = Off /\ \A q \in Servers \ {p} : proc'[q] = proc[q]
    BY <1>6, AfterGoes DEF Kill
  <2>3. \A q \in Servers : At(q, {"bind", "up"})' => At(q, {"bind", "up"})
    BY <2>2 DEF At, Off
  <2>4. CASE At(p, {"accept"})
    <3>1. "eula" \in doubt'
      BY <1>6, <2>4 DEF Kill
    <3> QED
      BY <2>1, <2>3, <3>1 DEF AgreementInv, AgreementKept
  <2>5. CASE ~At(p, {"accept"})
    BY <2>1, <2>2, <2>3, <2>5, AgreementAlone
  <2> QED
    BY <2>4, <2>5
<1> QED
  BY <1>1, <1>2, <1>3, <1>4, <1>5, <1>6 DEF Next, Proceeds

\* Once the agreement has been given it is on file, whatever starts and kills follow, except
\* where a start that was to give it again is about to write it or was killed before it
\* could; and no start goes on before one has given it in full (write_eula, eula_accepted).
THEOREM AgreementKeptAlways == Spec => []AgreementKept
<1>1. Init => Shape /\ AgreementInv
  BY LogInvStarts, TextsType DEF LogInv, Init, AgreementInv, AgreementKept, At, Off
<1>2. LogInv => Shape
  BY DEF LogInv
<1>3. AgreementInv => AgreementKept
  BY DEF AgreementInv
<1> QED
  BY LogInvStarts, LogInvStep, AgreementStep, <1>1, <1>2, <1>3, PTL DEF Spec

-----------------------------------------------------------------------------
(* Lines, keys and values *)

\* The first and the last line of a key.
LEMMA EndLines ==
  ASSUME NEW text \in Seq(Line), NEW i \in 1 .. Len(text), NEW key, text[i].key = key
  PROVE  /\ FirstLine(text, key) \in 1 .. Len(text) /\ text[FirstLine(text, key)].key = key
         /\ \A j \in 1 .. Len(text) : text[j].key = key => FirstLine(text, key) <= j
         /\ LastLine(text, key) \in 1 .. Len(text) /\ text[LastLine(text, key)].key = key
         /\ \A j \in 1 .. Len(text) : text[j].key = key => j <= LastLine(text, key)
<1>1. PICK n \in Nat : n = Len(text) /\ DOMAIN text = 1 .. n
  BY LenProperties
<1>2. PICK S : S = Lines(text, key)
  OBVIOUS
<1>3. S \in SUBSET (1 .. n) /\ i \in S /\ \A j \in 1 .. n : j \in S <=> text[j].key = key
  BY <1>1, <1>2 DEF Lines
<1>4. S \in SUBSET Int /\ S # {}
  BY <1>3
<1>8. IsFiniteSet(S)
  <2>1. IsFiniteSet(1 .. n)
    BY FS_Interval
  <2> QED
    BY <1>3, <2>1, FS_Subset
<1>5. (\E x \in S : \A y \in S : x <= y) /\ (\E x \in S : \A y \in S : y <= x)
  BY <1>4, <1>8, LeastExists, GreatestExists
<1>6. FirstLine(text, key) \in S /\ \A y \in S : FirstLine(text, key) <= y
  BY <1>2, <1>5 DEF FirstLine
<1>7. LastLine(text, key) \in S /\ \A y \in S : y <= LastLine(text, key)
  BY <1>2, <1>5 DEF LastLine
<1> QED
  BY <1>1, <1>3, <1>6, <1>7

\* No key twice.
Distinct(entries) ==
  \A i, j \in 1 .. Len(entries) : entries[i].key = entries[j].key => i = j

\* What a server may have loaded.
Entries(entries) ==
  /\ entries \in Seq(Line)
  /\ Distinct(entries)
  /\ \A i \in 1 .. Len(entries) : entries[i].key # NoKey

LEMMA KeysAre ==
  ASSUME NEW text \in Seq(Line), NEW key
  PROVE  key \in Keys(text) <=> (key # NoKey /\ \E i \in 1 .. Len(text) : text[i].key = key)
<1>1. DOMAIN text = 1 .. Len(text)
  BY LenProperties
<1> QED
  BY <1>1 DEF Keys

\* Where no key is there twice, the line found for a key is its line.
LEMMA GetIs ==
  ASSUME NEW entries, Entries(entries), NEW i \in 1 .. Len(entries)
  PROVE  /\ FirstLine(entries, entries[i].key) = i
         /\ LastLine(entries, entries[i].key) = i
         /\ Get(entries, entries[i].key) = entries[i].value
<1>1. PICK key : key = entries[i].key
  OBVIOUS
<1>2. entries \in Seq(Line) /\ Distinct(entries)
  BY DEF Entries
<1>3. /\ FirstLine(entries, key) \in 1 .. Len(entries) /\ entries[FirstLine(entries, key)].key = key
      /\ LastLine(entries, key) \in 1 .. Len(entries) /\ entries[LastLine(entries, key)].key = key
  BY <1>1, <1>2, EndLines
<1>4. FirstLine(entries, key) = i /\ LastLine(entries, key) = i
  BY <1>1, <1>2, <1>3 DEF Distinct
<1> QED
  BY <1>1, <1>4 DEF Get

-----------------------------------------------------------------------------
(* What unescape does *)

AtStart == [out |-> <<>>, escapes |-> FALSE]

LEMMA ReadsType ==
  ASSUME NEW symbol \in STRING
  PROVE  Reads(symbol) \in [Unescaping -> Unescaping]
<1>1. Backslash \in STRING
  BY EscapeType
<1>2. ASSUME NEW read \in Unescaping
      PROVE  Reads(symbol)[read] \in Unescaping
  <2>1. read.out \in Seq(STRING) /\ read.escapes \in BOOLEAN
    BY DEF Unescaping
  <2>2. PICK o \in Seq(STRING) : o = read.out
    BY <2>1
  <2>3. o \o <<symbol>> \in Seq(STRING) /\ o \o <<Backslash, symbol>> \in Seq(STRING)
        /\ Append(o, symbol) \in Seq(STRING)
    <3>1. PICK T : T = STRING
      OBVIOUS
    <3>2. o \in Seq(T) /\ symbol \in T /\ Backslash \in T
      BY <1>1, <3>1
    <3>3. Append(o, symbol) \in Seq(T) /\ Append(o, Backslash) \in Seq(T)
      BY <3>2, AppendProperties
    <3>4. <<symbol>> \in Seq(T) /\ <<Backslash, symbol>> \in Seq(T)
      <4>1. PICK a \in T, b \in T : a = symbol /\ b = Backslash
        BY <3>2
      <4>2. <<a>> \in Seq(T)
        OBVIOUS
      <4>3. <<b, a>> \in Seq(T)
        OBVIOUS
      <4> QED
        BY <4>1, <4>2, <4>3
    <3>5. o \o <<symbol>> \in Seq(T) /\ o \o <<Backslash, symbol>> \in Seq(T)
      BY <3>2, <3>4, ConcatProperties
    <3> QED
      BY <3>1, <3>3, <3>5
  <2>4. CASE read.escapes
    <3>1. Reads(symbol)[read] = [out |-> o \o (IF symbol \in Escapable THEN <<symbol>>
                                               ELSE <<Backslash, symbol>>), escapes |-> FALSE]
      BY <2>2, <2>4 DEF Reads
    <3>2. PICK x \in Seq(STRING) :
            Reads(symbol)[read] = [out |-> x, escapes |-> FALSE]
      BY <2>3, <3>1
    <3> QED
      BY <3>2 DEF Unescaping
  <2>5. CASE ~read.escapes /\ symbol = Backslash
    <3>1. Reads(symbol)[read] = [read EXCEPT !.escapes = TRUE]
      BY <2>5 DEF Reads
    <3> QED
      BY <3>1 DEF Unescaping
  <2>6. CASE ~read.escapes /\ symbol # Backslash
    <3>1. Reads(symbol)[read] = [read EXCEPT !.out = Append(read.out, symbol)]
      BY <2>6 DEF Reads
    <3> QED
      BY <2>2, <2>3, <3>1 DEF Unescaping
  <2> QED
    BY <2>1, <2>4, <2>5, <2>6
<1>3. Reads(symbol) = [read \in Unescaping |-> Reads(symbol)[read]]
  BY DEF Reads
<1> QED
  BY <1>2, <1>3

\* The symbols of a value are read one after the other.
ReadSteps(value, read) ==
  /\ read \in [0 .. Len(value) -> Unescaping]
  /\ read[0] = AtStart
  /\ \A i \in 1 .. Len(value) : read[i] = Reads(value[i])[read[i - 1]]

LEMMA UnescapeSteps ==
  ASSUME NEW value \in Seq(STRING)
  PROVE  \E read : /\ ReadSteps(value, read)
                   /\ Unescape(value) = IF read[Len(value)].escapes
                                        THEN Append(read[Len(value)].out, Backslash)
                                        ELSE read[Len(value)].out
<1> DEFINE step == [i \in 1 .. Len(value) |-> Reads(value[i])]
           Unfolds(g) == g = [i \in 0 .. Len(value) |->
                              IF i = 0 THEN [out |-> <<>>, escapes |-> FALSE]
                              ELSE Reads(value[i])[g[i - 1]]]
<1>1. Len(value) \in Nat /\ \A i \in 1 .. Len(value) : value[i] \in STRING
  BY ElementOfSeq, LenProperties
<1>2. step \in [1 .. Len(value) -> [Unescaping -> Unescaping]]
  BY <1>1, ReadsType
<1>3. AtStart \in Unescaping
  BY DEF AtStart, Unescaping
<1>4. ASSUME NEW g PROVE ByRecursion(g, AtStart, Len(value), step) <=> Unfolds(g)
  <2>1. \A i \in 1 .. Len(value) : step[i] = Reads(value[i])
    OBVIOUS
  <2> HIDE DEF step
  <2>2. [i \in 0 .. Len(value) |-> IF i = 0 THEN AtStart ELSE step[i][g[i - 1]]]
        = [i \in 0 .. Len(value) |-> IF i = 0 THEN AtStart ELSE Reads(value[i])[g[i - 1]]]
    BY <1>1, <2>1
  <2> QED
    BY <2>2 DEF ByRecursion, AtStart
<1>5. PICK c : c = (CHOOSE g : Unfolds(g)) /\ Unfolds(c)
  <2>1. \E g : Unfolds(g)
    <3> HIDE DEF step, Unfolds
    <3> QED BY <1>1, <1>2, <1>3, <1>4, RecursionSteps
  <2> QED BY <2>1
<1>6. Stepping(c, Unescaping, AtStart, Len(value), step)
  <2> HIDE DEF step, Unfolds
  <2> QED BY <1>1, <1>2, <1>3, <1>4, <1>5, RecursionSteps
<1>7. ReadSteps(value, c)
  BY <1>6 DEF Stepping, ReadSteps
<1>8. Unescape(value) = IF c[Len(value)].escapes THEN Append(c[Len(value)].out, Backslash)
                        ELSE c[Len(value)].out
  <2>1. PICK d : d = (CHOOSE g : Unfolds(g))
    OBVIOUS
  <2>2. Unescape(value) = IF d[Len(value)].escapes THEN Append(d[Len(value)].out, Backslash)
                          ELSE d[Len(value)].out
    BY <2>1 DEF Unescape
  <2> QED
    BY <1>5, <2>1, <2>2
<1> QED
  BY <1>7, <1>8

LEMMA UnescapeType ==
  ASSUME NEW value \in Seq(STRING)
  PROVE  Unescape(value) \in Seq(STRING)
<1>1. PICK read : /\ ReadSteps(value, read)
                  /\ Unescape(value) = IF read[Len(value)].escapes
                                       THEN Append(read[Len(value)].out, Backslash)
                                       ELSE read[Len(value)].out
  BY UnescapeSteps
<1>2. PICK end \in Unescaping : end = read[Len(value)]
  BY <1>1, LenProperties DEF ReadSteps
<1>3. PICK o \in Seq(STRING) : o = end.out
  BY DEF Unescaping
<1>4. Append(o, Backslash) \in Seq(STRING)
  BY EscapeType, AppendProperties
<1> QED
  BY <1>1, <1>2, <1>3, <1>4

\* The symbols read up to there.
UpTo(value, i) == SubSeq(value, 1, i)

LEMMA UpToSteps ==
  ASSUME NEW T, NEW value \in Seq(T)
  PROVE  /\ UpTo(value, 0) = <<>>
         /\ UpTo(value, Len(value)) = value
         /\ \A i \in 0 .. Len(value) : UpTo(value, i) \in Seq(T)
         /\ \A i \in 1 .. Len(value) : UpTo(value, i) = Append(UpTo(value, i - 1), value[i])
<1>1. PICK n \in Nat : n = Len(value)
  BY LenProperties
<1>2. ASSUME NEW i \in 0 .. n
      PROVE  /\ UpTo(value, i) \in Seq(T) /\ Len(UpTo(value, i)) = i
             /\ \A j \in 1 .. i : UpTo(value, i)[j] = value[j]
  BY <1>1, SubSeqProperties DEF UpTo
<1>3. ASSUME NEW i \in 1 .. n
      PROVE  UpTo(value, i) = Append(UpTo(value, i - 1), value[i])
  <2>1. PICK k \in 0 .. n : k = i - 1 /\ k + 1 = i
    OBVIOUS
  <2>2. PICK f \in Seq(T), g \in Seq(T) : f = UpTo(value, k) /\ g = UpTo(value, i)
    BY <1>2
  <2>3. Len(f) = k /\ Len(g) = i /\ (\A j \in 1 .. k : f[j] = value[j]) /\ \A j \in 1 .. i : g[j] = value[j]
    BY <1>2, <2>1, <2>2
  <2>4. value[i] \in T
    BY <1>1, ElementOfSeq
  <2>5. PICK h \in Seq(T) : h = Append(f, value[i])
    BY <2>4, AppendProperties
  <2>6. Len(h) = i /\ (\A j \in 1 .. k : h[j] = f[j]) /\ h[i] = value[i]
    BY <2>1, <2>3, <2>4, <2>5, AppendProperties
  <2>7. \A j \in 1 .. i : h[j] = g[j]
    BY <2>1, <2>3, <2>6
  <2>8. h = g
    BY <2>3, <2>6, <2>7, SeqEqual
  <2> QED
    BY <2>1, <2>2, <2>5, <2>8
<1>4. UpTo(value, 0) = <<>>
  BY <1>2, EmptySeq
<1>5. UpTo(value, n) = value
  BY <1>1, <1>2, SeqEqual
<1> QED
  BY <1>1, <1>2, <1>3, <1>4, <1>5

\* What would be put out if the value ended here.
SoFar(read) == IF read.escapes THEN Append(read.out, Backslash) ELSE read.out

\* A value without anything to unescape stays as it is.
LEMMA StableStays ==
  ASSUME NEW value \in Seq(STRING), Stable(value)
  PROVE  Unescape(value) = value
<1>0. PICK T : T = STRING
  OBVIOUS
<1>1. PICK n \in Nat : n = Len(value) /\ T = STRING
  BY <1>0, LenProperties
<1>2. PICK read : ReadSteps(value, read) /\ Unescape(value) = SoFar(read[n])
  BY <1>1, UnescapeSteps DEF SoFar
<1>3. Backslash \in T /\ value \in Seq(T) /\ \A i \in 1 .. n : value[i] \in T
  BY <1>1, EscapeType, ElementOfSeq
<1> DEFINE A == {i \in 0 .. n : /\ SoFar(read[i]) = UpTo(value, i)
                                /\ read[i].escapes => i \in 1 .. n /\ value[i] = Backslash}
<1>4. 0 \in A
  BY <1>1, <1>2, UpToSteps DEF ReadSteps, AtStart, SoFar
<1>5. ASSUME NEW k \in 0 .. n - 1, k \in A PROVE k + 1 \in A
  <2>1. PICK m \in 1 .. n : m = k + 1 /\ m - 1 = k
    OBVIOUS
  <2>2. PICK r : r = read[k]
    OBVIOUS
  <2>3. r \in Unescaping /\ read[m] = Reads(value[m])[r]
    BY <1>1, <1>2, <2>1, <2>2 DEF ReadSteps
  <2>4. PICK o \in Seq(T) : o = r.out
    BY <1>1, <2>3 DEF Unescaping
  <2>5. PICK f : f = UpTo(value, k) /\ UpTo(value, m) = Append(f, value[m]) /\ SoFar(r) = f
    <3>1. UpTo(value, m) = Append(UpTo(value, k), value[m])
      <4>1. \A i \in 1 .. Len(value) : UpTo(value, i) = Append(UpTo(value, i - 1), value[i])
        BY <1>3, UpToSteps
      <4> QED BY <1>1, <2>1, <4>1
    <3>2. SoFar(r) = UpTo(value, k)
      BY <1>5, <2>2
    <3> QED BY <3>1, <3>2
  <2>6. PICK symbol \in T : symbol = value[m]
    BY <1>3
  <2>7. CASE r.escapes
    <3>1. k \in 1 .. n /\ value[k] = Backslash
      BY <1>5, <2>2, <2>7
    <3>2. symbol \notin Escapable
      BY <1>1, <2>1, <2>6, <3>1 DEF Stable
    <3>3. read[m] = [out |-> o \o <<Backslash, symbol>>, escapes |-> FALSE]
      BY <2>3, <2>4, <2>6, <2>7, <3>2 DEF Reads
    <3>4. f = Append(o, Backslash)
      BY <2>4, <2>5, <2>7 DEF SoFar
    <3>5. o \o <<Backslash, symbol>> = Append(Append(o, Backslash), symbol)
      BY <1>3
    <3>6. SoFar(read[m]) = UpTo(value, m)
      BY <2>5, <2>6, <3>3, <3>4, <3>5 DEF SoFar
    <3> QED
      BY <2>1, <3>3, <3>6
  <2>8. CASE ~r.escapes /\ symbol = Backslash
    <3>1. read[m] = [r EXCEPT !.escapes = TRUE]
      BY <2>3, <2>6, <2>8 DEF Reads
    <3>2. read[m].escapes = TRUE /\ read[m].out = o
      BY <2>3, <2>4, <3>1 DEF Unescaping
    <3>3. SoFar(read[m]) = UpTo(value, m)
      BY <2>4, <2>5, <2>6, <2>8, <3>2 DEF SoFar
    <3>4. value[m] = Backslash /\ m \in 0 .. n
      BY <2>1, <2>6, <2>8
    <3> QED
      BY <2>1, <3>3, <3>4
  <2>9. CASE ~r.escapes /\ symbol # Backslash
    <3>1. read[m] = [r EXCEPT !.out = Append(r.out, symbol)]
      BY <2>3, <2>6, <2>9 DEF Reads
    <3>2. read[m].escapes = r.escapes /\ read[m].out = Append(o, symbol)
      BY <2>3, <2>4, <3>1 DEF Unescaping
    <3>3. SoFar(read[m]) = UpTo(value, m)
      BY <2>4, <2>5, <2>6, <2>9, <3>2 DEF SoFar
    <3> QED
      BY <2>1, <2>9, <3>2, <3>3
  <2>10. r.escapes \in BOOLEAN
    BY <2>3 DEF Unescaping
  <2> QED
    BY <2>7, <2>8, <2>9, <2>10
<1>6. n \in A
  <2>1. \A i \in 0 .. n : i \in A
    <3> HIDE DEF A
    <3> QED BY <1>4, <1>5, InductionTo
  <2> QED BY <2>1
<1>7. UpTo(value, n) = value
  BY <1>1, <1>3, UpToSteps
<1> QED
  BY <1>2, <1>6, <1>7

-----------------------------------------------------------------------------
(* What a load makes of a text *)

\* Entries give a key that value.
Binds(entries, key, value) ==
  \E i \in 1 .. Len(entries) : entries[i].key = key /\ entries[i].value = value

LEMMA GetBinds ==
  ASSUME NEW entries, Entries(entries), NEW key, NEW value, Binds(entries, key, value)
  PROVE  Get(entries, key) = value
BY GetIs DEF Binds

LEMMA BindsKey ==
  ASSUME NEW entries, Entries(entries), NEW key, key \in Keys(entries)
  PROVE  Binds(entries, key, Get(entries, key))
<1>1. entries \in Seq(Line)
  BY DEF Entries
<1>2. PICK i \in 1 .. Len(entries) : entries[i].key = key
  BY <1>1, KeysAre
<1>3. Get(entries, key) = entries[i].value
  BY <1>2, GetIs
<1> QED
  BY <1>2, <1>3 DEF Binds

LEMMA PairIsLine ==
  ASSUME NEW key \in STRING, NEW value \in Seq(STRING)
  PROVE  /\ Pair(key, value) \in Line
         /\ Pair(key, value).key = key /\ Pair(key, value).value = value
BY DEF Pair, Line

LEMMA LineIsPair ==
  ASSUME NEW line \in Line
  PROVE  /\ line = Pair(line.key, line.value)
         /\ line.key \in STRING /\ line.value \in Seq(STRING)
BY DEF Pair, Line

\* A line whose key is not there yet goes to the end.
LEMMA AppendEntry ==
  ASSUME NEW e, Entries(e), NEW line \in Line, line.key # NoKey, line.key \notin Keys(e)
  PROVE  /\ Entries(Append(e, line))
         /\ Binds(Append(e, line), line.key, line.value)
         /\ \A k : k \in Keys(Append(e, line)) <=> (k \in Keys(e) \/ k = line.key)
         /\ \A k, v : Binds(e, k, v) => Binds(Append(e, line), k, v)
<1>1. PICK n \in Nat : n = Len(e) /\ e \in Seq(Line)
  BY LenProperties DEF Entries
<1>2. PICK r \in Seq(Line) : r = Append(e, line)
  BY <1>1, AppendProperties
<1>3. Len(r) = n + 1 /\ (\A i \in 1 .. n : r[i] = e[i]) /\ r[n + 1] = line
  BY <1>1, <1>2, AppendProperties
<1>4. \A i \in 1 .. n : e[i].key # line.key
  BY <1>1, KeysAre
<1>5. \A i \in 1 .. n + 1 : i \in 1 .. n \/ i = n + 1
  BY <1>1
<1>6. Entries(r)
  <2>1. Distinct(r)
    <3>1. SUFFICES ASSUME NEW i \in 1 .. n + 1, NEW j \in 1 .. n + 1, r[i].key = r[j].key
                   PROVE  i = j
      BY <1>3 DEF Distinct
    <3>2. CASE i \in 1 .. n /\ j \in 1 .. n
      BY <1>1, <1>3, <3>1, <3>2 DEF Entries, Distinct
    <3> QED
      BY <1>3, <1>4, <1>5, <3>1, <3>2
  <2>2. \A i \in 1 .. n + 1 : r[i].key # NoKey
    BY <1>1, <1>3, <1>5 DEF Entries
  <2> QED
    BY <1>3, <2>1, <2>2 DEF Entries
<1>7. Binds(r, line.key, line.value)
  BY <1>1, <1>3 DEF Binds
<1>8. ASSUME NEW k PROVE k \in Keys(r) <=> (k \in Keys(e) \/ k = line.key)
  <2>1. k \in Keys(r) <=> (k # NoKey /\ \E i \in 1 .. n + 1 : r[i].key = k)
    BY <1>3, KeysAre
  <2>2. k \in Keys(e) <=> (k # NoKey /\ \E i \in 1 .. n : e[i].key = k)
    BY <1>1, KeysAre
  <2>3. (\E i \in 1 .. n + 1 : r[i].key = k) <=> ((\E i \in 1 .. n : e[i].key = k) \/ k = line.key)
    BY <1>1, <1>3, <1>5
  <2> QED
    BY <2>1, <2>2, <2>3
<1>9. ASSUME NEW k, NEW v, Binds(e, k, v) PROVE Binds(r, k, v)
  <2>1. PICK i \in 1 .. n : e[i].key = k /\ e[i].value = v
    BY <1>1, <1>9 DEF Binds
  <2>2. i \in 1 .. n + 1 /\ r[i] = e[i]
    BY <1>1, <1>3
  <2> QED
    BY <1>3, <2>1, <2>2 DEF Binds
<1> QED
  BY <1>2, <1>6, <1>7, <1>8, <1>9

\* A key that is there gets the new value, and the others keep theirs.
LEMMA ReplaceEntry ==
  ASSUME NEW e, Entries(e), NEW line \in Line, line.key \in Keys(e),
         NEW r, r = [e EXCEPT ![FirstLine(e, line.key)] = line]
  PROVE  /\ Entries(r)
         /\ Binds(r, line.key, line.value)
         /\ Keys(r) = Keys(e)
         /\ \A k, v : k # line.key /\ Binds(e, k, v) => Binds(r, k, v)
<1>1. PICK n \in Nat : n = Len(e) /\ e \in Seq(Line) /\ DOMAIN e = 1 .. n
  BY LenProperties DEF Entries
<1>2. PICK f : f = FirstLine(e, line.key)
  OBVIOUS
<1>3. f \in 1 .. n /\ e[f].key = line.key
  <2>1. PICK i \in 1 .. n : e[i].key = line.key
    BY <1>1, KeysAre
  <2> QED
    BY <1>1, <1>2, <2>1, EndLines
<1>4. r = [e EXCEPT ![f] = line]
  BY <1>2
<1>5. r \in Seq(Line) /\ Len(r) = n /\ DOMAIN r = 1 .. n
  <2>1. f \in 1 .. Len(e)
    BY <1>1, <1>3
  <2>2. [e EXCEPT ![f] = line] \in Seq(Line) /\ Len([e EXCEPT ![f] = line]) = Len(e)
    BY <1>1, <2>1, ExceptSeq
  <2>3. r \in Seq(Line) /\ Len(r) = n
    BY <1>1, <1>4, <2>2
  <2> QED
    BY <2>3, LenProperties
<1>6. \A i \in 1 .. n : r[i] = IF i = f THEN line ELSE e[i]
  BY <1>1, <1>4
<1>7. \A i \in 1 .. n : r[i].key = e[i].key
  BY <1>3, <1>6
<1>8. Entries(r)
  <2>1. Distinct(r)
    BY <1>1, <1>5, <1>7 DEF Entries, Distinct
  <2> QED
    BY <1>1, <1>5, <1>7, <2>1 DEF Entries
<1>9. Binds(r, line.key, line.value)
  BY <1>3, <1>5, <1>6 DEF Binds
<1>10. Keys(r) = Keys(e)
  BY <1>1, <1>5, <1>7 DEF Keys
<1>11. ASSUME NEW k, NEW v, k # line.key, Binds(e, k, v) PROVE Binds(r, k, v)
  <2>1. PICK i \in 1 .. n : e[i].key = k /\ e[i].value = v
    BY <1>1, <1>11 DEF Binds
  <2>2. i # f
    BY <1>3, <1>11, <2>1
  <2> QED
    BY <1>5, <1>6, <2>1, <2>2 DEF Binds
<1> QED
  BY <1>8, <1>9, <1>10, <1>11

\* insert, for a key that is there and for one that is not.
LEMMA InsertedEntry ==
  ASSUME NEW e, Entries(e), NEW key \in STRING, key # NoKey, NEW value \in Seq(STRING),
         NEW r, r = Inserted(key, value)[e]
  PROVE  /\ Entries(r)
         /\ Binds(r, key, value)
         /\ \A k : k \in Keys(r) <=> (k \in Keys(e) \/ k = key)
         /\ \A k, v : k # key /\ Binds(e, k, v) => Binds(r, k, v)
         /\ key \notin Keys(e) => r = Append(e, Pair(key, value))
<1>1. PICK line \in Line : line = Pair(key, value) /\ line.key = key /\ line.value = value
  BY PairIsLine
<1>2. e \in Seq(Line)
  BY DEF Entries
<1>3. r = IF key \in Keys(e) THEN [e EXCEPT ![FirstLine(e, key)] = line] ELSE Append(e, line)
  BY <1>1, <1>2 DEF Inserted
<1>4. CASE key \in Keys(e)
  <2>1. r = [e EXCEPT ![FirstLine(e, line.key)] = line] /\ line.key \in Keys(e)
    BY <1>1, <1>3, <1>4
  <2>2. Entries(r) /\ Binds(r, line.key, line.value) /\ Keys(r) = Keys(e)
        /\ \A k, v : k # line.key /\ Binds(e, k, v) => Binds(r, k, v)
    BY <2>1, ReplaceEntry
  <2> QED
    BY <1>1, <1>4, <2>2
<1>5. CASE key \notin Keys(e)
  <2>1. r = Append(e, line) /\ line.key \notin Keys(e) /\ line.key # NoKey
    BY <1>1, <1>3, <1>5
  <2>2. /\ Entries(r) /\ Binds(r, line.key, line.value)
        /\ \A k : k \in Keys(r) <=> (k \in Keys(e) \/ k = line.key)
        /\ \A k, v : Binds(e, k, v) => Binds(r, k, v)
    BY <2>1, AppendEntry
  <2> QED
    BY <1>1, <2>1, <2>2
<1> QED
  BY <1>4, <1>5

LEMMA InsertedType ==
  ASSUME NEW key \in STRING, NEW value \in Seq(STRING)
  PROVE  Inserted(key, value) \in [Seq(Line) -> Seq(Line)]
<1>1. PICK line \in Line : line = Pair(key, value) /\ line.key = key
  BY PairIsLine
<1>2. ASSUME NEW e \in Seq(Line)
      PROVE  (IF key \in Keys(e) THEN [e EXCEPT ![FirstLine(e, key)] = line]
              ELSE Append(e, line)) \in Seq(Line)
  <2>1. Append(e, line) \in Seq(Line)
    BY AppendProperties
  <2>2. ASSUME key \in Keys(e) PROVE [e EXCEPT ![FirstLine(e, key)] = line] \in Seq(Line)
    <3>1. PICK i \in 1 .. Len(e) : e[i].key = key
      BY <2>2, KeysAre
    <3>2. FirstLine(e, key) \in 1 .. Len(e)
      BY <3>1, EndLines
    <3> QED
      BY <3>2, ExceptSeq
  <2> QED
    BY <2>1, <2>2
<1> QED
  BY <1>1, <1>2 DEF Inserted

LEMMA LineTakenType ==
  ASSUME NEW line \in Line
  PROVE  LineTaken(line) \in [Seq(Line) -> Seq(Line)]
<1>1. line.key \in STRING /\ Unescape(line.value) \in Seq(STRING)
  BY LineIsPair, UnescapeType
<1>2. Inserted(line.key, Unescape(line.value)) \in [Seq(Line) -> Seq(Line)]
  BY <1>1, InsertedType
<1>3. [entries \in Seq(Line) |-> entries] \in [Seq(Line) -> Seq(Line)]
  OBVIOUS
<1> QED
  BY <1>2, <1>3 DEF LineTaken

\* The lines of a text are taken one after the other.
ParseSteps(text, e) ==
  /\ e \in [0 .. Len(text) -> Seq(Line)]
  /\ e[0] = <<>>
  /\ \A i \in 1 .. Len(text) : e[i] = LineTaken(text[i])[e[i - 1]]
  /\ Parsed(text) = e[Len(text)]

LEMMA ParsedSteps ==
  ASSUME NEW text \in Seq(Line)
  PROVE  \E e : ParseSteps(text, e)
<1> DEFINE step == [i \in 1 .. Len(text) |-> LineTaken(text[i])]
           Unfolds(g) == g = [i \in 0 .. Len(text) |->
                                IF i = 0 THEN <<>> ELSE LineTaken(text[i])[g[i - 1]]]
<1>1. Len(text) \in Nat /\ \A i \in 1 .. Len(text) : text[i] \in Line
  BY ElementOfSeq, LenProperties
<1>2. step \in [1 .. Len(text) -> [Seq(Line) -> Seq(Line)]]
  BY <1>1, LineTakenType
<1>3. PICK b \in Seq(Line) : b = <<>>
  BY EmptySeq
<1>4. ASSUME NEW g PROVE ByRecursion(g, b, Len(text), step) <=> Unfolds(g)
  <2>1. \A i \in 1 .. Len(text) : step[i] = LineTaken(text[i])
    OBVIOUS
  <2> HIDE DEF step
  <2>2. [i \in 0 .. Len(text) |-> IF i = 0 THEN b ELSE step[i][g[i - 1]]]
        = [i \in 0 .. Len(text) |-> IF i = 0 THEN b ELSE LineTaken(text[i])[g[i - 1]]]
    BY <1>1, <2>1
  <2> QED
    BY <1>3, <2>2 DEF ByRecursion
<1>5. PICK c : c = (CHOOSE g : Unfolds(g)) /\ Unfolds(c)
  <2>1. \E g : Unfolds(g)
    <3> HIDE DEF step, Unfolds
    <3> QED BY <1>1, <1>2, <1>3, <1>4, RecursionSteps
  <2> QED BY <2>1
<1>6. Stepping(c, Seq(Line), b, Len(text), step)
  <2> HIDE DEF step, Unfolds
  <2> QED BY <1>1, <1>2, <1>3, <1>4, <1>5, RecursionSteps
<1>7. Parsed(text) = c[Len(text)]
  BY <1>5 DEF Parsed
<1> QED
  BY <1>3, <1>6, <1>7 DEF Stepping, ParseSteps

LEMMA AddedType ==
  ASSUME NEW line \in Line
  PROVE  AddedIfMissing(line) \in [Seq(Line) -> Seq(Line)]
BY AppendProperties DEF AddedIfMissing

\* The defaults are added one after the other.
CompleteSteps(entries, e) ==
  /\ e \in [0 .. Len(Defaults) -> Seq(Line)]
  /\ e[0] = entries
  /\ \A i \in 1 .. Len(Defaults) : e[i] = AddedIfMissing(Defaults[i])[e[i - 1]]
  /\ Completed(entries) = e[Len(Defaults)]

LEMMA CompletedSteps ==
  ASSUME NEW entries \in Seq(Line)
  PROVE  \E e : CompleteSteps(entries, e)
<1> DEFINE step == [i \in 1 .. Len(Defaults) |-> AddedIfMissing(Defaults[i])]
           Unfolds(g) == g = [i \in 0 .. Len(Defaults) |->
                                IF i = 0 THEN entries ELSE AddedIfMissing(Defaults[i])[g[i - 1]]]
<1>0. Defaults \in Seq(Line)
  BY DefaultsType
<1>1. Len(Defaults) \in Nat /\ \A i \in 1 .. Len(Defaults) : Defaults[i] \in Line
  BY <1>0, ElementOfSeq, LenProperties
<1>2. step \in [1 .. Len(Defaults) -> [Seq(Line) -> Seq(Line)]]
  BY <1>1, AddedType
<1>4. ASSUME NEW g PROVE ByRecursion(g, entries, Len(Defaults), step) <=> Unfolds(g)
  <2>1. \A i \in 1 .. Len(Defaults) : step[i] = AddedIfMissing(Defaults[i])
    OBVIOUS
  <2> HIDE DEF step
  <2>2. [i \in 0 .. Len(Defaults) |-> IF i = 0 THEN entries ELSE step[i][g[i - 1]]]
        = [i \in 0 .. Len(Defaults) |->
             IF i = 0 THEN entries ELSE AddedIfMissing(Defaults[i])[g[i - 1]]]
    BY <1>1, <2>1
  <2> QED
    BY <2>2 DEF ByRecursion
<1>5. PICK c : c = (CHOOSE g : Unfolds(g)) /\ Unfolds(c)
  <2>1. \E g : Unfolds(g)
    <3> HIDE DEF step, Unfolds
    <3> QED BY <1>1, <1>2, <1>4, RecursionSteps
  <2> QED BY <2>1
<1>6. Stepping(c, Seq(Line), entries, Len(Defaults), step)
  <2> HIDE DEF step, Unfolds
  <2> QED BY <1>1, <1>2, <1>4, <1>5, RecursionSteps
<1>7. Completed(entries) = c[Len(Defaults)]
  BY <1>5 DEF Completed
<1> QED
  BY <1>6, <1>7 DEF Stepping, CompleteSteps

\* What the entries are after so many lines of a text: one for each key so far, with the
\* value of its last line so far.
ReadThrough(text, i, e) ==
  /\ Entries(e)
  /\ \A k : k \in Keys(e) <=> (k # NoKey /\ \E j \in 1 .. i : text[j].key = k)
  /\ \A j \in 1 .. i :
       text[j].key # NoKey /\ (\A l \in 1 .. i : text[l].key = text[j].key => l <= j)
         => Binds(e, text[j].key, Unescape(text[j].value))

LEMMA NextLine ==
  ASSUME NEW text \in Seq(Line), NEW m \in 1 .. Len(text), NEW e, ReadThrough(text, m - 1, e),
         NEW r, r = LineTaken(text[m])[e]
  PROVE  ReadThrough(text, m, r)
<1>1. PICK i \in Nat : i = m - 1 /\ i + 1 = m
  BY LenProperties
<1>2. \A j \in 1 .. m : j \in 1 .. i \/ j = m
  BY <1>1
<1>3. \A j \in 1 .. i : j \in 1 .. m /\ j # m /\ j < m
  BY <1>1
<1>4. PICK key \in STRING, value \in Seq(STRING) :
        key = text[m].key /\ value = Unescape(text[m].value)
  <2>1. text[m] \in Line
    BY ElementOfSeq
  <2> QED
    BY <2>1, LineIsPair, UnescapeType
<1>5. /\ Entries(e)
      /\ \A k : k \in Keys(e) <=> (k # NoKey /\ \E j \in 1 .. i : text[j].key = k)
      /\ \A j \in 1 .. i :
           text[j].key # NoKey /\ (\A l \in 1 .. i : text[l].key = text[j].key => l <= j)
             => Binds(e, text[j].key, Unescape(text[j].value))
  BY <1>1 DEF ReadThrough
<1>6. CASE key = NoKey
  <2>1. r = e
    BY <1>4, <1>5, <1>6 DEF LineTaken, Entries
  <2>2. ASSUME NEW k PROVE k \in Keys(e) <=> (k # NoKey /\ \E j \in 1 .. m : text[j].key = k)
    BY <1>2, <1>3, <1>4, <1>5, <1>6
  <2>3. ASSUME NEW j \in 1 .. m, text[j].key # NoKey,
               \A l \in 1 .. m : text[l].key = text[j].key => l <= j
        PROVE  Binds(e, text[j].key, Unescape(text[j].value))
    <3>1. j \in 1 .. i
      BY <1>2, <1>4, <1>6, <2>3
    <3>2. \A l \in 1 .. i : text[l].key = text[j].key => l <= j
      BY <1>3, <2>3
    <3> QED
      BY <1>5, <2>3, <3>1, <3>2
  <2> QED
    BY <1>5, <2>1, <2>2, <2>3 DEF ReadThrough
<1>7. CASE key # NoKey
  <2>1. r = Inserted(key, value)[e]
    BY <1>4, <1>7 DEF LineTaken
  <2>2. /\ Entries(r) /\ Binds(r, key, value)
        /\ \A k : k \in Keys(r) <=> (k \in Keys(e) \/ k = key)
        /\ \A k, v : k # key /\ Binds(e, k, v) => Binds(r, k, v)
    BY <1>5, <1>7, <2>1, InsertedEntry
  <2>3. ASSUME NEW k PROVE k \in Keys(r) <=> (k # NoKey /\ \E j \in 1 .. m : text[j].key = k)
    <3>1. k \in Keys(r) <=> ((k # NoKey /\ \E j \in 1 .. i : text[j].key = k) \/ k = key)
      BY <1>5, <2>2
    <3>2. (\E j \in 1 .. m : text[j].key = k) <=> ((\E j \in 1 .. i : text[j].key = k) \/ k = key)
      BY <1>2, <1>3, <1>4
    <3> QED
      BY <1>7, <3>1, <3>2
  <2>4. ASSUME NEW j \in 1 .. m, text[j].key # NoKey,
               \A l \in 1 .. m : text[l].key = text[j].key => l <= j
        PROVE  Binds(r, text[j].key, Unescape(text[j].value))
    <3>1. CASE j = m
      BY <1>4, <2>2, <3>1
    <3>2. CASE j # m
      <4>1. j \in 1 .. i /\ ~(m <= j)
        BY <1>1, <1>2, <3>2
      <4>2. text[j].key # key
        BY <1>4, <2>4, <4>1
      <4>3. \A l \in 1 .. i : text[l].key = text[j].key => l <= j
        BY <1>3, <2>4
      <4>4. Binds(e, text[j].key, Unescape(text[j].value))
        BY <1>5, <2>4, <4>1, <4>3
      <4> QED
        BY <2>2, <4>2, <4>4
    <3> QED
      BY <3>1, <3>2
  <2> QED
    BY <2>2, <2>3, <2>4 DEF ReadThrough
<1> QED
  BY <1>6, <1>7

\* Reading line after line, the last line of a key counts.
LEMMA ParsedMeans ==
  ASSUME NEW text \in Seq(Line)
  PROVE  /\ Entries(Parsed(text))
         /\ Keys(Parsed(text)) = Keys(text)
         /\ \A key \in Keys(text) :
              Get(Parsed(text), key) = Unescape(text[LastLine(text, key)].value)
<1>1. PICK n \in Nat : n = Len(text)
  BY LenProperties
<1>2. PICK e : ParseSteps(text, e)
  BY ParsedSteps
<1> DEFINE A == {i \in 0 .. n : ReadThrough(text, i, e[i])}
<1>3. 0 \in A
  <2>1. PICK none \in Seq(Line) : none = <<>> /\ Len(none) = 0
    BY EmptySeq
  <2>2. ASSUME NEW j PROVE j \notin 1 .. Len(none) /\ j \notin 1 .. 0
    BY <2>1
  <2>3. Entries(none)
    BY <2>2 DEF Entries, Distinct
  <2>4. ASSUME NEW k PROVE k \notin Keys(none)
    BY <2>2, KeysAre
  <2>5. ReadThrough(text, 0, none)
    BY <2>2, <2>3, <2>4 DEF ReadThrough
  <2> QED
    BY <1>1, <1>2, <2>1, <2>5 DEF ParseSteps
<1>4. ASSUME NEW k \in 0 .. n - 1, k \in A PROVE k + 1 \in A
  <2>1. PICK m \in 1 .. n : m = k + 1 /\ m - 1 = k
    OBVIOUS
  <2>2. ReadThrough(text, m - 1, e[k])
    BY <1>4, <2>1
  <2>3. e[m] = LineTaken(text[m])[e[k]]
    BY <1>1, <1>2, <2>1 DEF ParseSteps
  <2>4. m \in 1 .. Len(text)
    BY <1>1
  <2>5. ReadThrough(text, m, e[m])
    BY <2>2, <2>3, <2>4, NextLine
  <2> QED
    BY <2>1, <2>5
<1>5. n \in A
  <2>1. \A i \in 0 .. n : i \in A
    <3> HIDE DEF A
    <3> QED BY <1>3, <1>4, InductionTo
  <2> QED BY <2>1
<1>6. PICK r : r = Parsed(text) /\ ReadThrough(text, n, r)
  BY <1>1, <1>2, <1>5 DEF ParseSteps
<1>7. Entries(r)
  BY <1>6 DEF ReadThrough
<1>8. Keys(r) = Keys(text)
  <2>1. ASSUME NEW k PROVE k \in Keys(r) <=> k \in Keys(text)
    BY <1>1, <1>6, KeysAre DEF ReadThrough
  <2> QED
    BY <2>1
<1>9. ASSUME NEW key \in Keys(text)
      PROVE  Get(r, key) = Unescape(text[LastLine(text, key)].value)
  <2>1. PICK i \in 1 .. n : key # NoKey /\ text[i].key = key
    BY <1>1, KeysAre
  <2>2. PICK l : l = LastLine(text, key)
    OBVIOUS
  <2>3. l \in 1 .. n /\ text[l].key = key /\ \A j \in 1 .. n : text[j].key = key => j <= l
    BY <1>1, <2>1, <2>2, EndLines
  <2>4. Binds(r, key, Unescape(text[l].value))
    BY <1>6, <2>1, <2>3 DEF ReadThrough
  <2> QED
    BY <1>7, <2>2, <2>4, GetBinds
<1> QED
  BY <1>6, <1>7, <1>8, <1>9

\* The defaults are entries: IsInjective is what DefaultsType says of their keys.
LEMMA DefaultsAre == Entries(Defaults)
<1>1. PICK n \in Nat : n = Len(Defaults) /\ Defaults \in Seq(Line) /\ DOMAIN Defaults = 1 .. n
  BY DefaultsType, LenProperties
<1>2. \A i \in 1 .. n : Defaults[i].key # NoKey
  BY <1>1, DefaultsType
<1>3. \A i, j \in 1 .. n : Defaults[i].key = Defaults[j].key => i = j
  BY <1>1, DefaultsType DEF IsInjective
<1> QED
  BY <1>1, <1>2, <1>3 DEF Entries, Distinct

\* What the entries are once so many defaults have been looked at.
AddedThrough(entries, i, e) ==
  /\ Entries(e)
  /\ \A k : k \in Keys(e) <=> (k \in Keys(entries) \/ \E j \in 1 .. i : Defaults[j].key = k)
  /\ \A k, v : Binds(entries, k, v) => Binds(e, k, v)
  /\ \A j \in 1 .. i : Defaults[j].key \notin Keys(entries)
                         => Binds(e, Defaults[j].key, Defaults[j].value)
  /\ (Keys(Defaults) \subseteq Keys(entries)) => e = entries

LEMMA NextDefault ==
  ASSUME NEW entries, Entries(entries), NEW m \in 1 .. Len(Defaults),
         NEW e, AddedThrough(entries, m - 1, e),
         NEW r, r = AddedIfMissing(Defaults[m])[e]
  PROVE  AddedThrough(entries, m, r)
<1>1. PICK i \in Nat : i = m - 1 /\ i + 1 = m
  BY DefaultsType, LenProperties
<1>2. /\ \A j \in 1 .. m : j \in 1 .. i \/ j = m
      /\ \A j \in 1 .. i : j \in 1 .. m /\ j # m
  BY <1>1
<1>3. PICK line \in Line : line = Defaults[m] /\ line.key # NoKey /\ line.key \in Keys(Defaults)
  <2>1. Defaults \in Seq(Line) /\ Defaults[m] \in Line /\ Defaults[m].key # NoKey
    BY DefaultsAre, ElementOfSeq DEF Entries
  <2> QED
    BY <2>1, KeysAre
<1>4. /\ Entries(e)
      /\ \A k : k \in Keys(e) <=> (k \in Keys(entries) \/ \E j \in 1 .. i : Defaults[j].key = k)
      /\ \A k, v : Binds(entries, k, v) => Binds(e, k, v)
      /\ \A j \in 1 .. i : Defaults[j].key \notin Keys(entries)
                             => Binds(e, Defaults[j].key, Defaults[j].value)
      /\ (Keys(Defaults) \subseteq Keys(entries)) => e = entries
  BY <1>1 DEF AddedThrough
<1>5. r = IF line.key \in Keys(e) THEN e ELSE Append(e, line)
  BY <1>3, <1>4 DEF AddedIfMissing, Entries
<1>6. \A j \in 1 .. i : Defaults[j].key # line.key
  <2>1. \A j \in 1 .. i : j \in 1 .. Len(Defaults)
    BY <1>1, DefaultsType, LenProperties
  <2> QED
    BY <1>2, <1>3, <2>1, DefaultsAre DEF Entries, Distinct
<1>7. CASE line.key \in Keys(e)
  <2>1. r = e /\ line.key \in Keys(entries)
    BY <1>4, <1>5, <1>6, <1>7
  <2>2. ASSUME NEW k
        PROVE  k \in Keys(e) <=> (k \in Keys(entries) \/ \E j \in 1 .. m : Defaults[j].key = k)
    BY <1>2, <1>3, <1>4, <2>1
  <2>3. \A j \in 1 .. m : Defaults[j].key \notin Keys(entries)
                            => Binds(e, Defaults[j].key, Defaults[j].value)
    BY <1>2, <1>3, <1>4, <2>1
  <2> QED
    BY <1>4, <2>1, <2>2, <2>3 DEF AddedThrough
<1>8. CASE line.key \notin Keys(e)
  <2>1. r = Append(e, line)
    BY <1>5, <1>8
  <2>2. /\ Entries(r) /\ Binds(r, line.key, line.value)
        /\ \A k : k \in Keys(r) <=> (k \in Keys(e) \/ k = line.key)
        /\ \A k, v : Binds(e, k, v) => Binds(r, k, v)
    BY <1>3, <1>4, <1>8, <2>1, AppendEntry
  <2>3. ASSUME NEW k
        PROVE  k \in Keys(r) <=> (k \in Keys(entries) \/ \E j \in 1 .. m : Defaults[j].key = k)
    <3>1. (\E j \in 1 .. m : Defaults[j].key = k)
            <=> ((\E j \in 1 .. i : Defaults[j].key = k) \/ k = line.key)
      BY <1>1, <1>2, <1>3
    <3> QED
      BY <1>4, <2>2, <3>1
  <2>4. \A j \in 1 .. m : Defaults[j].key \notin Keys(entries)
                            => Binds(r, Defaults[j].key, Defaults[j].value)
    BY <1>2, <1>3, <1>4, <2>2
  <2>5. ~(Keys(Defaults) \subseteq Keys(entries))
    BY <1>3, <1>4, <1>8
  <2>6. \A k, v : Binds(entries, k, v) => Binds(r, k, v)
    BY <1>4, <2>2
  <2> QED
    BY <2>2, <2>3, <2>4, <2>5, <2>6 DEF AddedThrough
<1> QED
  BY <1>7, <1>8

\* The defaults complete what a text has, and take nothing from it.
LEMMA CompletedMeans ==
  ASSUME NEW entries, Entries(entries), NEW r, r = Completed(entries)
  PROVE  AddedThrough(entries, Len(Defaults), r)
<1>1. PICK n \in Nat : n = Len(Defaults)
  BY DefaultsType, LenProperties
<1>2. PICK e : CompleteSteps(entries, e)
  BY CompletedSteps DEF Entries
<1> DEFINE A == {i \in 0 .. n : AddedThrough(entries, i, e[i])}
<1>3. 0 \in A
  <2>1. AddedThrough(entries, 0, entries)
    <3>1. \A j : j \notin 1 .. 0
      OBVIOUS
    <3> QED
      BY <3>1 DEF AddedThrough
  <2> QED
    BY <1>1, <1>2, <2>1 DEF CompleteSteps
<1>4. ASSUME NEW k \in 0 .. n - 1, k \in A PROVE k + 1 \in A
  <2>1. PICK m \in 1 .. n : m = k + 1 /\ m - 1 = k
    OBVIOUS
  <2>2. AddedThrough(entries, m - 1, e[k])
    BY <1>4, <2>1
  <2>3. e[m] = AddedIfMissing(Defaults[m])[e[k]]
    BY <1>1, <1>2, <2>1 DEF CompleteSteps
  <2>4. m \in 1 .. Len(Defaults)
    BY <1>1
  <2>5. AddedThrough(entries, m, e[m])
    BY <2>2, <2>3, <2>4, NextDefault
  <2> QED
    BY <2>1, <2>5
<1>5. n \in A
  <2>1. \A i \in 0 .. n : i \in A
    <3> HIDE DEF A
    <3> QED BY <1>3, <1>4, InductionTo
  <2> QED BY <2>1
<1> QED
  BY <1>1, <1>2, <1>5 DEF CompleteSteps

\* What a server may hold once it has loaded its properties: every vanilla key is there.
Props(props) == Entries(props) /\ Keys(Defaults) \subseteq Keys(props)

\* What properties say, key by key.
Gives(props) == [key \in Keys(props) |-> Get(props, key)]

\* The text of the file; no file counts as an empty one.
TextOf(f) == IF f = NoFile THEN <<>> ELSE f

LEMMA NothingSaid == <<>> \in Seq(Line) /\ Keys(<<>>) = {}
<1>1. PICK none \in Seq(Line) : none = <<>> /\ Len(none) = 0
  BY EmptySeq
<1>2. ASSUME NEW k PROVE k \notin Keys(none)
  <2>1. \A j : j \notin 1 .. Len(none)
    BY <1>1
  <2> QED
    BY <2>1, KeysAre
<1> QED
  BY <1>1, <1>2

\* A load makes of a text what the text means, with a default for every key it lacks.
LEMMA LoadedMeans ==
  ASSUME NEW f, f = NoFile \/ f \in Seq(Line), NEW r, r = Loaded(f)
  PROVE  Props(r) /\ Gives(r) = Meaning(TextOf(f))
<1>1. CASE f = NoFile
  <2>1. r = Defaults /\ TextOf(f) = <<>>
    BY <1>1 DEF Loaded, TextOf
  <2>2. Meaning(<<>>) = Gives(Defaults)
    BY NothingSaid DEF Meaning, Gives
  <2> QED
    BY <2>1, <2>2, DefaultsAre DEF Props
<1>2. CASE f \in Seq(Line)
  <2>1. f # NoFile /\ r = Completed(Parsed(f)) /\ TextOf(f) = f
    BY <1>2, TextsType DEF Loaded, TextOf
  <2>2. PICK e : e = Parsed(f)
    OBVIOUS
  <2>3. Entries(e) /\ Keys(e) = Keys(f)
        /\ \A key \in Keys(f) : Get(e, key) = Unescape(f[LastLine(f, key)].value)
    BY <1>2, <2>2, ParsedMeans
  <2>4. AddedThrough(e, Len(Defaults), r)
    BY <2>1, <2>2, <2>3, CompletedMeans
  <2>5. Entries(r) /\ Defaults \in Seq(Line)
    BY <2>4, DefaultsType DEF AddedThrough
  <2>6. ASSUME NEW k PROVE k \in Keys(r) <=> (k \in Keys(Defaults) \/ k \in Keys(f))
    <3>1. k \in Keys(r) <=> (k \in Keys(e) \/ \E j \in 1 .. Len(Defaults) : Defaults[j].key = k)
      BY <2>4 DEF AddedThrough
    <3>2. k \in Keys(Defaults) <=> \E j \in 1 .. Len(Defaults) : Defaults[j].key = k
      BY <2>5, KeysAre, DefaultsAre DEF Entries
    <3> QED
      BY <2>3, <3>1, <3>2
  <2>7. ASSUME NEW key \in Keys(f)
        PROVE  Get(r, key) = Unescape(f[LastLine(f, key)].value)
    <3>1. Binds(e, key, Get(e, key))
      BY <2>3, BindsKey
    <3>2. Binds(r, key, Get(e, key))
      BY <2>4, <3>1 DEF AddedThrough
    <3> QED
      BY <2>3, <2>5, <3>2, GetBinds
  <2>8. ASSUME NEW key \in Keys(Defaults), key \notin Keys(f)
        PROVE  Get(r, key) = Get(Defaults, key)
    <3>1. PICK j \in 1 .. Len(Defaults) : Defaults[j].key = key
      BY <2>5, KeysAre
    <3>2. Binds(r, key, Defaults[j].value)
      BY <2>3, <2>4, <2>8, <3>1 DEF AddedThrough
    <3>3. Get(Defaults, key) = Defaults[j].value
      BY <3>1, GetIs, DefaultsAre
    <3> QED
      BY <2>5, <3>2, <3>3, GetBinds
  <2>9. Keys(r) = Keys(Defaults) \cup Keys(f)
    BY <2>6
  <2>10. Gives(r) = Meaning(f)
    BY <2>7, <2>8, <2>9 DEF Gives, Meaning
  <2> QED
    BY <2>1, <2>5, <2>9, <2>10 DEF Props
<1> QED
  BY <1>1, <1>2

-----------------------------------------------------------------------------
(* What a save leaves for the next load *)

LEMMA RenderedLines ==
  ASSUME NEW props \in Seq(Line), NEW t, t = Rendered(props)
  PROVE  /\ t \in Seq(Line) /\ Len(t) = Len(props) + 2
         /\ t[1].key = NoKey /\ t[2].key = NoKey
         /\ \A i \in 1 .. Len(props) : t[i + 2] = props[i]
<1>1. PICK c \in Line : c = Pair(NoKey, <<>>) /\ c.key = NoKey
  <2>1. <<>> \in Seq(STRING) /\ NoKey \in STRING
    BY TextsType, EmptySeq
  <2> QED
    BY <2>1, PairIsLine
<1>2. PICK s \in Seq(Line) : s = <<c, c>> /\ Len(s) = 2 /\ s[1] = c /\ s[2] = c
  <2>1. PICK T : T = Line
    OBVIOUS
  <2>2. PICK x \in T : x = c
    BY <2>1
  <2>3. PICK s : s = <<x, x>>
    OBVIOUS
  <2>4. s \in Seq(T) /\ Len(s) = 2 /\ s[1] = x /\ s[2] = x
    BY <2>3
  <2> QED
    BY <2>1, <2>2, <2>3, <2>4
<1>3. PICK n \in Nat : n = Len(props)
  BY LenProperties
<1>4. t = s \o props
  BY <1>1, <1>2 DEF Rendered
<1>5. t \in Seq(Line) /\ Len(t) = n + 2
  BY <1>2, <1>3, <1>4, ConcatProperties
<1>6. t[1] = s[1] /\ t[2] = s[2]
  BY <1>2, <1>3, <1>4, ConcatProperties
<1>7. ASSUME NEW i \in 1 .. n PROVE t[i + 2] = props[i]
  <2>1. PICK j \in 3 .. n + 2 : j = i + 2 /\ j - 2 = i
    BY <1>3
  <2>2. t[j] = props[j - 2]
    BY <1>2, <1>3, <1>4, <2>1, ConcatProperties
  <2> QED
    BY <2>1, <2>2
<1> QED
  BY <1>1, <1>2, <1>3, <1>5, <1>6, <1>7

\* A line that is read back.
ReadBack(line) == Pair(line.key, Unescape(line.value))

LEMMA ReadBackIs ==
  ASSUME NEW line \in Line
  PROVE  /\ ReadBack(line) \in Line
         /\ ReadBack(line).key = line.key
         /\ ReadBack(line).value = Unescape(line.value)
         /\ Stable(line.value) => ReadBack(line) = line
<1>1. line.key \in STRING /\ line.value \in Seq(STRING) /\ line = Pair(line.key, line.value)
  BY LineIsPair
<1>2. Unescape(line.value) \in Seq(STRING)
  BY <1>1, UnescapeType
<1>3. ReadBack(line) \in Line /\ ReadBack(line).key = line.key
      /\ ReadBack(line).value = Unescape(line.value)
  BY <1>1, <1>2, PairIsLine DEF ReadBack
<1>4. ASSUME Stable(line.value) PROVE ReadBack(line) = line
  <2>1. Unescape(line.value) = line.value
    BY <1>1, <1>4, StableStays
  <2> QED
    BY <1>1, <2>1 DEF ReadBack
<1> QED
  BY <1>3, <1>4

\* The first so many lines of a save, read back.
BackThrough(props, i, e) ==
  /\ e \in Seq(Line) /\ Len(e) = i
  /\ \A j \in 1 .. i : e[j] = ReadBack(props[j])

LEMMA NextBack ==
  ASSUME NEW props, Entries(props), NEW m \in 1 .. Len(props), NEW k \in Nat, m = k + 1,
         NEW e, BackThrough(props, k, e), NEW r, r = LineTaken(props[m])[e]
  PROVE  BackThrough(props, m, r)
<1>1. PICK n \in Nat : n = Len(props) /\ props \in Seq(Line)
  BY LenProperties DEF Entries
<1>2. \A j \in 1 .. m : j \in 1 .. n /\ props[j] \in Line /\ props[j].key # NoKey
  BY <1>1, ElementOfSeq DEF Entries
<1>3. PICK line \in Line : line = props[m] /\ line.key # NoKey
  BY <1>1, <1>2
<1>4. PICK key \in STRING, value \in Seq(STRING) : key = line.key /\ value = Unescape(line.value)
  BY LineIsPair, UnescapeType
<1>5. e \in Seq(Line) /\ Len(e) = k /\ \A j \in 1 .. k : e[j] = ReadBack(props[j])
  BY DEF BackThrough
<1>6. \A j \in 1 .. k : e[j].key = props[j].key /\ props[j].key # key
  <2>1. ASSUME NEW j \in 1 .. k PROVE e[j].key = props[j].key /\ props[j].key # key
    <3>1. j \in 1 .. n /\ j # m /\ props[j] \in Line
      BY <1>1, <1>2
    <3>2. e[j].key = props[j].key
      BY <1>5, <3>1, ReadBackIs
    <3>3. props[j].key # props[m].key
      BY <1>1, <3>1 DEF Entries, Distinct
    <3> QED
      BY <1>3, <1>4, <3>2, <3>3
  <2> QED
    BY <2>1
<1>7. key \notin Keys(e)
  BY <1>5, <1>6, KeysAre
<1>8. r = Append(e, Pair(key, value))
  <2>1. r = Inserted(key, value)[e]
    BY <1>3, <1>4 DEF LineTaken
  <2> QED
    BY <1>5, <1>7, <2>1 DEF Inserted
<1>9. PICK last \in Line : last = Pair(key, value) /\ last = ReadBack(props[m])
  BY <1>3, <1>4, PairIsLine DEF ReadBack
<1>10. /\ r \in Seq(Line) /\ Len(r) = m /\ r[m] = last
       /\ \A j \in 1 .. k : r[j] = e[j]
  BY <1>5, <1>8, <1>9, AppendProperties
<1>11. \A j \in 1 .. m : j \in 1 .. k \/ j = m
  OBVIOUS
<1> QED
  BY <1>5, <1>9, <1>10, <1>11 DEF BackThrough

\* A load reads a save back line for line: it skips the comment, and no key comes twice.
LEMMA SaveReadBack ==
  ASSUME NEW props, Entries(props), NEW r, r = Parsed(Rendered(props))
  PROVE  BackThrough(props, Len(props), r)
<1>1. PICK n \in Nat : n = Len(props) /\ props \in Seq(Line)
  BY LenProperties DEF Entries
<1>2. PICK t \in Seq(Line) :
        /\ t = Rendered(props) /\ Len(t) = n + 2
        /\ t[1].key = NoKey /\ t[2].key = NoKey
        /\ \A i \in 1 .. n : t[i + 2] = props[i]
  BY <1>1, RenderedLines
<1>3. PICK e : ParseSteps(t, e)
  BY ParsedSteps
<1>4. \A i \in 1 .. n + 2 : e[i] = LineTaken(t[i])[e[i - 1]]
  BY <1>2, <1>3 DEF ParseSteps
<1> DEFINE A == {i \in 0 .. n : BackThrough(props, i, e[i + 2])}
<1>5. 0 \in A
  <2>1. PICK none \in Seq(Line) : none = <<>> /\ Len(none) = 0
    BY EmptySeq
  <2>2. LineTaken(t[1])[none] = none /\ LineTaken(t[2])[none] = none
    BY <1>2 DEF LineTaken
  <2>3. e[0] = none
    BY <1>3, <2>1 DEF ParseSteps
  <2>4. e[1] = LineTaken(t[1])[e[0]] /\ e[2] = LineTaken(t[2])[e[1]]
    <3>1. 1 \in 1 .. n + 2 /\ 2 \in 1 .. n + 2 /\ 1 - 1 = 0 /\ 2 - 1 = 1
      BY <1>1
    <3> QED
      BY <1>4, <3>1
  <2>5. e[2] = none
    BY <2>2, <2>3, <2>4
  <2>6. BackThrough(props, 0, none)
    BY <2>1 DEF BackThrough
  <2>7. 0 + 2 = 2 /\ 0 \in 0 .. n
    BY <1>1
  <2> QED
    BY <2>5, <2>6, <2>7
<1>6. ASSUME NEW k \in 0 .. n - 1, k \in A PROVE k + 1 \in A
  <2>1. PICK m \in 1 .. n : m = k + 1
    OBVIOUS
  <2>2. PICK x \in 1 .. n + 2 : x = m + 2 /\ x - 1 = k + 2
    BY <1>1, <2>1
  <2>3. e[x] = LineTaken(props[m])[e[k + 2]]
    BY <1>2, <1>4, <2>2
  <2>4. BackThrough(props, k, e[k + 2])
    BY <1>6
  <2>5. m \in 1 .. Len(props) /\ k \in Nat
    BY <1>1
  <2>6. BackThrough(props, m, e[x])
    BY <2>1, <2>3, <2>4, <2>5, NextBack
  <2> QED
    BY <2>1, <2>2, <2>6
<1>7. n \in A
  <2>1. \A i \in 0 .. n : i \in A
    <3> HIDE DEF A
    <3> QED BY <1>5, <1>6, InductionTo
  <2> QED BY <2>1
<1> QED
  BY <1>1, <1>2, <1>3, <1>7 DEF ParseSteps

\* What the next load makes of a save.
LEMMA LoadedSave ==
  ASSUME NEW props, Props(props), NEW r, r = Loaded(Rendered(props))
  PROVE  /\ BackThrough(props, Len(props), r)
         /\ Gives(r) = Meaning(Rendered(props))
         /\ Props(r) /\ Keys(r) = Keys(props)
<1>1. Entries(props) /\ props \in Seq(Line) /\ Keys(Defaults) \subseteq Keys(props)
  BY DEF Props, Entries
<1>2. PICK t \in Seq(Line) : t = Rendered(props)
  BY <1>1, RenderedLines
<1>3. PICK e : e = Parsed(t)
  OBVIOUS
<1>4. BackThrough(props, Len(props), e) /\ Entries(e)
  BY <1>1, <1>2, <1>3, SaveReadBack, ParsedMeans
<1>5. Keys(e) = Keys(props)
  <2>1. ASSUME NEW i \in 1 .. Len(props) PROVE e[i].key = props[i].key
    <3>1. props[i] \in Line
      BY <1>1, ElementOfSeq
    <3> QED
      BY <1>4, <3>1, ReadBackIs DEF BackThrough
  <2>2. e \in Seq(Line) /\ Len(e) = Len(props)
    BY <1>4 DEF BackThrough
  <2>3. ASSUME NEW k PROVE k \in Keys(e) <=> k \in Keys(props)
    BY <1>1, <2>1, <2>2, KeysAre
  <2> QED
    BY <2>3
<1>6. r = e
  <2>1. t # NoFile
    BY <1>2, TextsType
  <2>2. r = Completed(e)
    BY <1>2, <1>3, <2>1 DEF Loaded
  <2>3. AddedThrough(e, Len(Defaults), r)
    BY <1>4, <2>2, CompletedMeans
  <2> QED
    BY <1>1, <1>5, <2>3 DEF AddedThrough
<1>7. TextOf(t) = t
  BY <1>2, TextsType DEF TextOf
<1>8. Props(r) /\ Gives(r) = Meaning(t)
  BY <1>2, <1>7, LoadedMeans
<1> QED
  BY <1>2, <1>4, <1>5, <1>6, <1>8

\* Line for line, and each as it was unless there is something in it to unescape.
LEMMA SaveSettles ==
  ASSUME NEW props, Props(props), NEW r, r = Loaded(Rendered(props))
  PROVE  /\ Len(r) = Len(props)
         /\ \A i \in 1 .. Len(props) : Stable(props[i].value) => r[i] = props[i]
<1>1. props \in Seq(Line)
  BY DEF Props, Entries
<1>2. Len(r) = Len(props) /\ \A i \in 1 .. Len(props) : r[i] = ReadBack(props[i])
  BY LoadedSave DEF BackThrough
<1>3. \A i \in 1 .. Len(props) : props[i] \in Line
  BY <1>1, ElementOfSeq
<1> QED
  BY <1>2, <1>3, ReadBackIs

\* A save says what the properties say: to a load, and to whoever reads it.
LEMMA SaveSays ==
  ASSUME NEW props, Props(props), Says(Gives(props))
  PROVE  Says(Meaning(Rendered(props)))
<1>1. PICK r : r = Loaded(Rendered(props))
  OBVIOUS
<1>2. Gives(r) = Meaning(Rendered(props)) /\ Entries(r) /\ Keys(r) = Keys(props)
  BY <1>1, LoadedSave DEF Props
<1>3. Len(r) = Len(props) /\ \A i \in 1 .. Len(props) : Stable(props[i].value) => r[i] = props[i]
  BY <1>1, SaveSettles
<1>4. Entries(props) /\ props \in Seq(Line)
  BY DEF Props, Entries
<1>5. DOMAIN wanted = Keys(props)
  BY DEF Says, Gives
<1>6. ASSUME NEW key \in Keys(props), Stable(wanted[key])
      PROVE  Get(r, key) = wanted[key]
  <2>1. PICK i \in 1 .. Len(props) : props[i].key = key
    BY <1>4, KeysAre
  <2>2. Get(props, key) = wanted[key]
    BY <1>5, <1>6 DEF Says, Gives
  <2>3. Get(props, key) = props[i].value
    BY <1>4, <2>1, GetIs
  <2>4. r[i] = props[i]
    BY <1>3, <1>6, <2>2, <2>3
  <2>5. Get(r, r[i].key) = r[i].value
    BY <1>2, <1>3, GetIs
  <2> QED
    BY <2>1, <2>2, <2>3, <2>4, <2>5
<1> QED
  BY <1>2, <1>5, <1>6 DEF Says, Gives

\* A text that has the first lines of another one, each as far as its value goes.
Begins(text, whole) ==
  /\ text \in Seq(Line) /\ Len(text) <= Len(whole)
  /\ \A j \in 1 .. Len(text) :
       /\ text[j].key = whole[j].key
       /\ \E k \in 0 .. Len(whole[j].value) : text[j].value = SubSeq(whole[j].value, 1, k)

LEMMA FrontIs ==
  ASSUME NEW T, NEW s \in Seq(T), NEW k \in 0 .. Len(s)
  PROVE  /\ SubSeq(s, 1, k) \in Seq(T) /\ Len(SubSeq(s, 1, k)) = k
         /\ \A i \in 1 .. k : SubSeq(s, 1, k)[i] = s[i]
<1>1. PICK n \in Nat : n = Len(s)
  BY LenProperties
<1> QED
  BY <1>1, SubSeqProperties

LEMMA WholeBegins ==
  ASSUME NEW whole \in Seq(Line)
  PROVE  Begins(whole, whole)
<1>1. ASSUME NEW j \in 1 .. Len(whole)
      PROVE  \E k \in 0 .. Len(whole[j].value) : whole[j].value = SubSeq(whole[j].value, 1, k)
  <2>1. PICK v \in Seq(STRING) : v = whole[j].value
    BY ElementOfSeq, LineIsPair
  <2>2. Len(v) \in 0 .. Len(v) /\ v = SubSeq(v, 1, Len(v))
    BY LenProperties, UpToSteps DEF UpTo
  <2> QED
    BY <2>1, <2>2
<1> QED
  BY <1>1, LenProperties DEF Begins

\* What a write that is cut short leaves begins what it was to write.
LEMMA TornBegins ==
  ASSUME NEW whole \in Seq(Line), NEW text \in Torn(whole)
  PROVE  Begins(text, whole)
<1>1. CASE text = <<>>
  <2>1. text \in Seq(Line) /\ Len(text) = 0
    BY <1>1, EmptySeq
  <2>2. \A j : j \notin 1 .. Len(text)
    BY <2>1
  <2> QED
    BY <2>1, <2>2, LenProperties DEF Begins
<1>2. CASE text # <<>>
  <2>1. PICK n \in 1 .. Len(whole) :
          \E k \in 0 .. Len(whole[n].value) :
            text = Append(SubSeq(whole, 1, n - 1),
                          Pair(whole[n].key, SubSeq(whole[n].value, 1, k)))
    BY <1>2 DEF Torn
  <2>2. PICK k \in 0 .. Len(whole[n].value) :
          text = Append(SubSeq(whole, 1, n - 1), Pair(whole[n].key, SubSeq(whole[n].value, 1, k)))
    BY <2>1
  <2>3. PICK m \in 0 .. Len(whole) : m = n - 1 /\ m + 1 = n
    BY LenProperties
  <2>4. PICK front : front = SubSeq(whole, 1, m)
    OBVIOUS
  <2>5. front \in Seq(Line) /\ Len(front) = m /\ \A j \in 1 .. m : front[j] = whole[j]
    BY <2>4, FrontIs
  <2>6. PICK key \in STRING, value \in Seq(STRING) : key = whole[n].key /\ value = whole[n].value
    BY ElementOfSeq, LineIsPair
  <2>7. PICK cut : cut = SubSeq(value, 1, k) /\ cut \in Seq(STRING)
    <3>1. PICK T : T = STRING
      OBVIOUS
    <3>2. value \in Seq(T) /\ k \in 0 .. Len(value)
      BY <2>2, <2>6, <3>1
    <3> QED
      BY <3>1, <3>2, FrontIs
  <2>8. PICK last \in Line : last = Pair(key, cut) /\ last.key = key /\ last.value = cut
    BY <2>6, <2>7, PairIsLine
  <2>9. text = Append(front, last)
    BY <2>2, <2>3, <2>4, <2>6, <2>7, <2>8
  <2>10. /\ text \in Seq(Line) /\ Len(text) = n /\ text[n] = last
         /\ \A j \in 1 .. m : text[j] = whole[j]
    BY <2>3, <2>5, <2>9, AppendProperties
  <2>11. Begins(whole, whole)
    BY WholeBegins
  <2>12. ASSUME NEW j \in 1 .. n
         PROVE  /\ text[j].key = whole[j].key
                /\ \E i \in 0 .. Len(whole[j].value) : text[j].value = SubSeq(whole[j].value, 1, i)
    <3>1. CASE j = n
      BY <2>6, <2>7, <2>8, <2>10, <3>1
    <3>2. CASE j # n
      <4>1. j \in 1 .. m /\ j \in 1 .. Len(whole)
        BY <2>3, <3>2
      <4> QED
        BY <2>10, <2>11, <4>1 DEF Begins
    <3> QED
      BY <3>1, <3>2
  <2>13. n <= Len(whole)
    BY LenProperties
  <2> QED
    BY <2>10, <2>12, <2>13 DEF Begins
<1> QED
  BY <1>1, <1>2

\* The beginning of the beginning of a value with nothing to unescape is the beginning of it,
\* and has nothing to unescape.
LEMMA StableBegins ==
  ASSUME NEW whole \in Seq(STRING), Stable(whole), NEW k \in 0 .. Len(whole),
         NEW j \in 0 .. Len(SubSeq(whole, 1, k))
  PROVE  /\ Stable(SubSeq(SubSeq(whole, 1, k), 1, j))
         /\ SubSeq(SubSeq(whole, 1, k), 1, j) = SubSeq(whole, 1, j)
         /\ j \in 0 .. Len(whole)
<1>0. PICK part, cut : part = SubSeq(whole, 1, k) /\ cut = SubSeq(part, 1, j)
  OBVIOUS
<1>1. PICK T : T = STRING
  OBVIOUS
<1>2. PICK n \in Nat : n = Len(whole) /\ whole \in Seq(T)
  BY <1>1, LenProperties
<1>3. part \in Seq(T) /\ Len(part) = k /\ \A i \in 1 .. k : part[i] = whole[i]
  BY <1>0, <1>2, SubSeqProperties
<1>4. cut \in Seq(T) /\ Len(cut) = j /\ \A i \in 1 .. j : cut[i] = part[i]
  BY <1>0, <1>3, SubSeqProperties
<1>5. PICK other \in Seq(T) : other = SubSeq(whole, 1, j)
  BY <1>0, <1>2, <1>3, SubSeqProperties
<1>6. Len(other) = j /\ \A i \in 1 .. j : other[i] = whole[i]
  BY <1>0, <1>2, <1>3, <1>5, SubSeqProperties
<1>7. \A i \in 1 .. j : cut[i] = whole[i]
  BY <1>3, <1>4
<1>8. cut = other
  BY <1>4, <1>6, <1>7, SeqEqual
<1>9. Stable(cut)
  <2>1. ASSUME NEW i \in 1 .. j - 1, cut[i] = Backslash PROVE cut[i + 1] \notin Escapable
    <3>1. i \in 1 .. n - 1 /\ i \in 1 .. j /\ i + 1 \in 1 .. j
      BY <1>0, <1>2, <1>3, <2>1
    <3> QED
      BY <1>2, <1>7, <2>1, <3>1 DEF Stable
  <2> QED
    BY <1>4, <2>1 DEF Stable
<1>10. j \in 0 .. n
  BY <1>0, <1>2, <1>3
<1> QED
  BY <1>0, <1>2, <1>5, <1>8, <1>9, <1>10

\* No key has a value that none of those has given it.
HeardIn(meaning, those) ==
  \A key \in DOMAIN meaning :
    \E m \in those :
      /\ key \in DOMAIN m
      /\ Stable(m[key]) => \E k \in 0 .. Len(m[key]) : meaning[key] = SubSeq(m[key], 1, k)

Values(meaning) == \A key \in DOMAIN meaning : meaning[key] \in Seq(STRING)

LEMMA MeaningValues ==
  ASSUME NEW text \in Seq(Line)
  PROVE  Values(Meaning(text))
<1>1. PICK r : r = Loaded(text)
  OBVIOUS
<1>2. TextOf(text) = text
  BY TextsType DEF TextOf
<1>3. Entries(r) /\ Gives(r) = Meaning(text)
  BY <1>1, <1>2, LoadedMeans DEF Props
<1>4. ASSUME NEW key \in Keys(r) PROVE Get(r, key) \in Seq(STRING)
  <2>1. PICK i \in 1 .. Len(r) : r[i].key = key /\ r[i] \in Line
    BY <1>3, KeysAre, ElementOfSeq DEF Entries
  <2>2. Get(r, key) = r[i].value
    BY <1>3, <2>1, GetIs
  <2> QED
    BY <2>1, <2>2, LineIsPair
<1> QED
  BY <1>3, <1>4 DEF Values, Gives

LEMMA HeardThat ==
  ASSUME NEW m, NEW those, m \in those, Values(m)
  PROVE  HeardIn(m, those)
<1>1. ASSUME NEW key \in DOMAIN m
      PROVE  \E k \in 0 .. Len(m[key]) : m[key] = SubSeq(m[key], 1, k)
  <2>1. PICK v \in Seq(STRING) : v = m[key]
    BY DEF Values
  <2>2. Len(v) \in 0 .. Len(v) /\ v = SubSeq(v, 1, Len(v))
    BY LenProperties, UpToSteps DEF UpTo
  <2> QED
    BY <2>1, <2>2
<1> QED
  BY <1>1 DEF HeardIn

\* A save of what has been heard, also one that is cut short, says what has been heard.
LEMMA SaveHeard ==
  ASSUME NEW props, Props(props), NEW those, HeardIn(Gives(props), those),
         Meaning(<<>>) \in those, \A m \in those : Values(m),
         NEW text, Begins(text, Rendered(props))
  PROVE  HeardIn(Meaning(text), those)
<1>1. Entries(props) /\ props \in Seq(Line) /\ Len(props) \in Nat
  BY LenProperties DEF Props, Entries
<1>2. PICK t \in Seq(Line) :
        /\ t = Rendered(props) /\ Len(t) = Len(props) + 2
        /\ t[1].key = NoKey /\ t[2].key = NoKey
        /\ \A i \in 1 .. Len(props) : t[i + 2] = props[i]
  BY <1>1, RenderedLines
<1>3. /\ text \in Seq(Line) /\ Len(text) <= Len(t) /\ Len(text) \in Nat
      /\ \A j \in 1 .. Len(text) :
           /\ text[j].key = t[j].key
           /\ \E k \in 0 .. Len(t[j].value) : text[j].value = SubSeq(t[j].value, 1, k)
  BY <1>2, LenProperties DEF Begins
<1>4. ASSUME NEW key \in Keys(text)
      PROVE  \E m \in those :
               /\ key \in DOMAIN m
               /\ Stable(m[key]) => \E k \in 0 .. Len(m[key]) :
                                      Unescape(text[LastLine(text, key)].value) = SubSeq(m[key], 1, k)
  <2>1. PICK l : l = LastLine(text, key)
    OBVIOUS
  <2>2. key # NoKey /\ l \in 1 .. Len(text) /\ text[l].key = key
    <3>1. PICK j \in 1 .. Len(text) : text[j].key = key /\ key # NoKey
      BY <1>3, KeysAre
    <3> QED
      BY <1>3, <2>1, <3>1, EndLines
  <2>3. t[l].key = key /\ l \in 1 .. Len(t)
    BY <1>1, <1>2, <1>3, <2>2
  <2>4. PICK i \in 1 .. Len(props) : i + 2 = l
    <3>1. l # 1 /\ l # 2
      BY <1>2, <2>2, <2>3
    <3>2. l - 2 \in 1 .. Len(props) /\ (l - 2) + 2 = l
      BY <1>1, <1>2, <2>3, <3>1
    <3> QED
      BY <3>2
  <2>5. t[l] = props[i] /\ props[i].key = key
    BY <1>2, <2>3, <2>4
  <2>6. PICK value : value = props[i].value /\ Get(props, key) = value
    BY <1>1, <2>5, GetIs
  <2>7. PICK j \in 0 .. Len(value) : text[l].value = SubSeq(value, 1, j)
    BY <1>3, <2>2, <2>5, <2>6
  <2>8. key \in Keys(props)
    BY <1>1, <2>2, <2>5, KeysAre
  <2>9. PICK m \in those :
          /\ key \in DOMAIN m
          /\ Stable(m[key]) => \E k \in 0 .. Len(m[key]) : value = SubSeq(m[key], 1, k)
    BY <2>6, <2>8 DEF HeardIn, Gives
  <2>10. PICK before \in Seq(STRING) : before = m[key]
    BY <2>9 DEF Values
  <2>11. PICK cut : cut = SubSeq(value, 1, j) /\ cut = text[l].value
    BY <2>7
  <2>12. ASSUME Stable(before)
         PROVE  \E k \in 0 .. Len(before) : Unescape(cut) = SubSeq(before, 1, k)
    <3>1. PICK k \in 0 .. Len(before) : value = SubSeq(before, 1, k)
      BY <2>9, <2>10, <2>12
    <3>2. cut = SubSeq(value, 1, j)
      BY <2>11
    <3>3. Stable(cut) /\ cut = SubSeq(before, 1, j) /\ j \in 0 .. Len(before)
      <4>1. j \in 0 .. Len(SubSeq(before, 1, k)) /\ cut = SubSeq(SubSeq(before, 1, k), 1, j)
        BY <3>1, <3>2
      <4> QED
        BY <2>12, <4>1, StableBegins
    <3>4. cut \in Seq(STRING)
      <4>1. text[l] \in Line
        BY <1>3, <2>2, ElementOfSeq
      <4> QED
        BY <2>11, <4>1, LineIsPair
    <3>5. Unescape(cut) = cut
      BY <3>3, <3>4, StableStays
    <3> QED
      BY <3>3, <3>5
  <2> QED
    BY <2>1, <2>9, <2>10, <2>11, <2>12
<1>5. ASSUME NEW key \in Keys(Defaults)
      PROVE  \E m \in those :
               /\ key \in DOMAIN m
               /\ Stable(m[key]) => \E k \in 0 .. Len(m[key]) :
                                      Get(Defaults, key) = SubSeq(m[key], 1, k)
  <2>1. PICK none : none = Meaning(<<>>)
    OBVIOUS
  <2>2. none = [k \in Keys(Defaults) |-> Get(Defaults, k)]
    BY <2>1, NothingSaid DEF Meaning
  <2>3. HeardIn(none, those)
    BY <2>1, HeardThat
  <2> QED
    BY <2>2, <2>3 DEF HeardIn
<1> DEFINE meaning == [key \in Keys(Defaults) \cup Keys(text) |->
                         IF key \in Keys(text) THEN Unescape(text[LastLine(text, key)].value)
                         ELSE Get(Defaults, key)]
<1>6. Meaning(text) = meaning
  BY DEF Meaning
<1>7. ASSUME NEW key \in DOMAIN meaning
      PROVE  \E m \in those :
               /\ key \in DOMAIN m
               /\ Stable(m[key]) => \E k \in 0 .. Len(m[key]) : meaning[key] = SubSeq(m[key], 1, k)
  <2>1. CASE key \in Keys(text)
    <3>1. meaning[key] = Unescape(text[LastLine(text, key)].value)
      BY <2>1
    <3> HIDE DEF meaning
    <3> QED
      BY <1>4, <2>1, <3>1
  <2>2. CASE key \notin Keys(text)
    <3>1. meaning[key] = Get(Defaults, key) /\ key \in Keys(Defaults)
      BY <2>2
    <3> HIDE DEF meaning
    <3> QED
      BY <1>5, <3>1
  <2> QED
    BY <2>1, <2>2
<1> HIDE DEF meaning
<1> QED
  BY <1>6, <1>7 DEF HeardIn

-----------------------------------------------------------------------------
(* The properties, start after start *)

\* Who has loaded properties has every vanilla key once; what is on file is lines; it is
\* there once a start has truncated it.  Without a doubt, what a start has loaded says what
\* the last author said, and so does the file unless one is in the middle of its write.
PropsInv ==
  /\ file = NoFile \/ file \in Seq(Line)
  /\ \A p \in Servers : At(p, {"truncate", "write"}) => Props(proc[p].props)
  /\ \A p \in Servers : At(p, {"write", "agree"}) => file # NoFile
  /\ "properties" \notin doubt =>
       /\ \A p \in Servers : At(p, {"truncate", "write"}) => Says(Gives(proc[p].props))
       /\ (\A p \in Servers : ~At(p, {"write"})) => Says(Meaning(TextOf(file)))

LEMMA PropsInvStarts == Init => PropsInv
<1> SUFFICES ASSUME Init PROVE PropsInv
  OBVIOUS
<1>1. \A p \in Servers : ~At(p, {"truncate", "write", "agree"})
  BY DEF Init, At, Off
<1>2. file = NoFile /\ wanted = Meaning(TextOf(file))
  BY DEF Init, TextOf
<1>3. Says(Meaning(TextOf(file)))
  <2>1. PICK m : m = Meaning(TextOf(file))
    OBVIOUS
  <2> QED
    BY <1>2, <2>1 DEF Says
<1> QED
  BY <1>1, <1>2, <1>3 DEF PropsInv, At

LEMMA SaysStill ==
  ASSUME NEW m, Says(m), wanted' = wanted, NEW n, n = m
  PROVE  /\ DOMAIN n = DOMAIN wanted'
         /\ \A key \in DOMAIN wanted' : Stable(wanted'[key]) => n[key] = wanted'[key]
  BY DEF Says

\* A step away from the properties.
LEMMA PropsElsewhere ==
  ASSUME PropsInv, UNCHANGED <<file, wanted>>,
         "properties" \in doubt => "properties" \in doubt',
         \A q \in Servers : proc'[q].at \in {"truncate", "write", "agree"}
                              => proc'[q].at = proc[q].at /\ proc'[q].props = proc[q].props,
         \A q \in Servers : proc[q].at = "write" => proc'[q].at = "write"
  PROVE  PropsInv'
<1>1. file' = NoFile \/ file' \in Seq(Line)
  BY DEF PropsInv
<1>2. ASSUME NEW q \in Servers, At(q, {"truncate", "write"})' PROVE Props(proc[q].props)'
  <2>1. At(q, {"truncate", "write"}) /\ proc'[q].props = proc[q].props
    BY <1>2 DEF At
  <2> QED
    BY <2>1 DEF PropsInv
<1>3. ASSUME NEW q \in Servers, At(q, {"write", "agree"})' PROVE file' # NoFile
  BY <1>3 DEF PropsInv, At
<1>4. ASSUME "properties" \notin doubt', NEW q \in Servers, At(q, {"truncate", "write"})'
      PROVE  Says(Gives(proc[q].props))'
  <2>1. At(q, {"truncate", "write"}) /\ proc'[q].props = proc[q].props
    BY <1>4 DEF At
  <2>2. PICK m : m = Gives(proc[q].props) /\ m = Gives(proc'[q].props)
    BY <2>1
  <2>3. Says(m)
    BY <1>4, <2>1, <2>2 DEF PropsInv
  <2> QED
    BY <2>2, <2>3, SaysStill DEF Says
<1>5. ASSUME "properties" \notin doubt', \A q \in Servers : ~At(q, {"write"})'
      PROVE  Says(Meaning(TextOf(file)))'
  <2>1. PICK m : m = Meaning(TextOf(file)) /\ m = Meaning(TextOf(file'))
    OBVIOUS
  <2>2. \A q \in Servers : ~At(q, {"write"})
    BY <1>5 DEF At
  <2>3. Says(m)
    BY <1>5, <2>1, <2>2 DEF PropsInv
  <2> QED
    BY <2>1, <2>3, SaysStill DEF Says
<1> QED
  BY <1>1, <1>2, <1>3, <1>4, <1>5 DEF PropsInv

\* The operator's word is the file's, unless a start is about to write over it.
LEMMA EditKeepsProps == PropsInv /\ EditProperties => PropsInv'
<1> SUFFICES ASSUME PropsInv, EditProperties PROVE PropsInv'
  OBVIOUS
<1>1. PICK text \in Texts : file' = text /\ wanted' = MeaningOf[text]
  BY DEF EditProperties
<1>2. text \in Seq(Line) /\ text # NoFile
  BY TextsType
<1>3. PICK m : m = Meaning(text)
  OBVIOUS
<1>4. wanted' = m /\ m = Meaning(TextOf(file'))
  BY <1>1, <1>2, <1>3 DEF MeaningOf, TextOf
<1>5. Says(Meaning(TextOf(file)))'
  BY <1>4 DEF Says
<1>6. proc' = proc
  BY DEF EditProperties
<1>7. "properties" \notin doubt' => \A p \in Servers : ~At(p, {"truncate", "write"})
  BY DEF EditProperties
<1> QED
  BY <1>1, <1>2, <1>5, <1>6, <1>7 DEF PropsInv, At

\* A load takes what the file says, unless one is in the middle of its write.
LEMMA LoadKeepsProps ==
  ASSUME Shape, PropsInv, NEW p \in Servers, LoadProperties(p)
  PROVE  PropsInv'
<1>1. PICK loaded : loaded = Loaded(file)
  OBVIOUS
<1>2. Moves(p, [at |-> "truncate", run |-> proc[p].run, slot |-> proc[p].slot,
                accept |-> proc[p].accept, props |-> loaded])
  <2>1. proc' = [proc EXCEPT ![p].at = "truncate", ![p].props = loaded]
    BY <1>1 DEF LoadProperties
  <2> QED
    BY <2>1, PropsMoves
<1>3. /\ proc'[p].at = "truncate" /\ proc'[p].props = loaded
      /\ \A q \in Servers \ {p} : proc'[q] = proc[q]
  BY <1>2 DEF Moves
<1>4. file' = file /\ wanted' = wanted /\ At(p, {"load"})
  BY DEF LoadProperties, history
<1>5. Props(loaded) /\ Gives(loaded) = Meaning(TextOf(file))
  BY <1>1, LoadedMeans DEF PropsInv
<1>6. ASSUME NEW q \in Servers, At(q, {"truncate", "write"})' PROVE Props(proc[q].props)'
  BY <1>3, <1>5, <1>6 DEF PropsInv, At
<1>7. ASSUME NEW q \in Servers, At(q, {"write", "agree"})' PROVE file' # NoFile
  BY <1>3, <1>4, <1>7 DEF PropsInv, At
<1>8. ASSUME "properties" \notin doubt'
      PROVE  "properties" \notin doubt /\ \A q \in Servers : ~At(q, {"write"})
  BY <1>8 DEF LoadProperties
<1>9. PICK m : m = Meaning(TextOf(file)) /\ m = Meaning(TextOf(file')) /\ m = Gives(loaded)
  BY <1>4, <1>5
<1>10. ASSUME "properties" \notin doubt', NEW q \in Servers, At(q, {"truncate", "write"})'
       PROVE  Says(Gives(proc[q].props))'
  <2>1. CASE q = p
    <3>1. Says(m) /\ Gives(proc'[q].props) = m
      BY <1>3, <1>8, <1>9, <1>10, <2>1 DEF PropsInv
    <3> QED
      BY <1>4, <3>1, SaysStill DEF Says
  <2>2. CASE q # p
    <3>1. proc'[q] = proc[q] /\ At(q, {"truncate", "write"})
      BY <1>3, <1>10, <2>2 DEF At
    <3>2. PICK o : o = Gives(proc[q].props) /\ o = Gives(proc'[q].props)
      BY <3>1
    <3>3. Says(o)
      BY <1>8, <1>10, <3>1, <3>2 DEF PropsInv
    <3> QED
      BY <1>4, <3>2, <3>3, SaysStill DEF Says
  <2> QED
    BY <2>1, <2>2
<1>11. ASSUME "properties" \notin doubt' PROVE Says(Meaning(TextOf(file)))'
  <2>1. Says(m)
    BY <1>8, <1>9, <1>11 DEF PropsInv
  <2> QED
    BY <1>4, <1>9, <2>1, SaysStill DEF Says
<1> QED
  BY <1>4, <1>6, <1>7, <1>10, <1>11 DEF PropsInv

\* An empty file says nothing yet, but who emptied it is at its write.
LEMMA TruncateKeepsProps ==
  ASSUME Shape, PropsInv, NEW p \in Servers, TruncateProperties(p)
  PROVE  PropsInv'
<1>1. Goes(p, "write") /\ At(p, {"truncate"}) /\ file' = <<>> /\ wanted' = wanted /\ doubt' = doubt
  BY DEF TruncateProperties, history, doubts
<1>2. /\ proc'[p].at = "write" /\ proc'[p].props = proc[p].props
      /\ \A q \in Servers \ {p} : proc'[q] = proc[q]
  <2>1. Goes(p, "write")
    BY <1>1
  <2>2. /\ proc'[p] = [at |-> "write", run |-> proc[p].run, slot |-> proc[p].slot,
                       accept |-> proc[p].accept, props |-> proc[p].props]
        /\ \A q \in Servers \ {p} : proc'[q] = proc[q]
    BY <2>1, AfterGoes
  <2> QED
    BY <2>2
<1>3. file' \in Seq(Line) /\ file' # NoFile
  BY <1>1, NothingSaid, TextsType
<1>4. ASSUME NEW q \in Servers, At(q, {"truncate", "write"})'
      PROVE  At(q, {"truncate", "write"}) /\ proc'[q].props = proc[q].props
  BY <1>1, <1>2, <1>4 DEF At
<1>5. ASSUME NEW q \in Servers, At(q, {"truncate", "write"})' PROVE Props(proc[q].props)'
  BY <1>4, <1>5 DEF PropsInv
<1>6. ASSUME "properties" \notin doubt', NEW q \in Servers, At(q, {"truncate", "write"})'
      PROVE  Says(Gives(proc[q].props))'
  <2>1. PICK o : o = Gives(proc[q].props) /\ o = Gives(proc'[q].props)
    BY <1>4, <1>6
  <2>2. Says(o)
    BY <1>1, <1>4, <1>6, <2>1 DEF PropsInv
  <2> QED
    BY <1>1, <2>1, <2>2, SaysStill DEF Says
<1>7. At(p, {"write"})'
  BY <1>2 DEF At
<1> QED
  BY <1>3, <1>5, <1>6, <1>7 DEF PropsInv

\* The file says again what the start has loaded.
LEMMA WriteKeepsProps ==
  ASSUME Shape, PropsInv, NEW p \in Servers, WriteProperties(p)
  PROVE  PropsInv'
<1>1. PICK none : none = <<>>
  OBVIOUS
<1>2. Moves(p, [at |-> "agree", run |-> proc[p].run, slot |-> proc[p].slot,
                accept |-> proc[p].accept, props |-> none])
  <2>1. proc' = [proc EXCEPT ![p].at = "agree", ![p].props = none]
    BY <1>1 DEF WriteProperties
  <2> QED
    BY <2>1, PropsMoves
<1>3. proc'[p].at = "agree" /\ \A q \in Servers \ {p} : proc'[q] = proc[q]
  BY <1>2 DEF Moves
<1>4. PICK props : props = proc[p].props
  OBVIOUS
<1>5. file' = Rendered(props) /\ At(p, {"write"}) /\ wanted' = wanted /\ doubt' = doubt
  BY <1>4 DEF WriteProperties, history, doubts
<1>6. Props(props)
  BY <1>4, <1>5 DEF PropsInv, At
<1>7. file' \in Seq(Line) /\ file' # NoFile
  BY <1>5, <1>6, RenderedLines, TextsType DEF Props, Entries
<1>8. ASSUME NEW q \in Servers, At(q, {"truncate", "write"})'
      PROVE  At(q, {"truncate", "write"}) /\ proc'[q] = proc[q]
  BY <1>3, <1>8 DEF At
<1>9. ASSUME NEW q \in Servers, At(q, {"truncate", "write"})' PROVE Props(proc[q].props)'
  BY <1>8, <1>9 DEF PropsInv
<1>10. ASSUME "properties" \notin doubt', NEW q \in Servers, At(q, {"truncate", "write"})'
       PROVE  Says(Gives(proc[q].props))'
  <2>1. PICK o : o = Gives(proc[q].props) /\ o = Gives(proc'[q].props)
    BY <1>8, <1>10
  <2>2. Says(o)
    BY <1>5, <1>8, <1>10, <2>1 DEF PropsInv
  <2> QED
    BY <1>5, <2>1, <2>2, SaysStill DEF Says
<1>11. ASSUME "properties" \notin doubt' PROVE Says(Meaning(TextOf(file)))'
  <2>1. Says(Gives(props))
    BY <1>4, <1>5, <1>11 DEF PropsInv, At
  <2>2. PICK m : m = Meaning(Rendered(props)) /\ Says(m)
    BY <1>6, <2>1, SaveSays
  <2>3. Meaning(TextOf(file')) = m
    BY <1>5, <1>7, <2>2 DEF TextOf
  <2> QED
    BY <1>5, <2>2, <2>3, SaysStill DEF Says
<1> QED
  BY <1>7, <1>9, <1>10, <1>11 DEF PropsInv

\* A kill leaves what is written so far, and a doubt.
LEMMA KillKeepsProps ==
  ASSUME Shape, PropsInv, NEW p \in Servers, Kill(p)
  PROVE  PropsInv'
<1>1. /\ proc'[p] = Off /\ proc'[p].at = "off"
      /\ \A q \in Servers \ {p} : proc'[q] = proc[q]
  BY AfterGoes DEF Kill
<1>2. wanted' = wanted /\ ("properties" \in doubt => "properties" \in doubt')
  BY DEF Kill, history
<1>3. CASE ~At(p, {"write"})
  <2>1. file' = file
    BY <1>3 DEF Kill
  <2> QED
    BY <1>1, <1>2, <1>3, <2>1, PropsElsewhere DEF At
<1>4. CASE At(p, {"write"})
  <2>1. "properties" \in doubt'
    BY <1>4 DEF Kill
  <2>2. PICK whole : whole = Rendered(proc[p].props)
    OBVIOUS
  <2>3. whole \in Seq(Line)
    BY <1>4, <2>2, RenderedLines DEF PropsInv, Props, Entries, At
  <2>4. file' \in Torn(whole)
    BY <1>4, <2>2 DEF Kill
  <2>5. file' \in Seq(Line) /\ file' # NoFile
    BY <2>3, <2>4, TornBegins, TextsType DEF Begins
  <2>6. \A q \in Servers : At(q, {"truncate", "write"})' =>
          At(q, {"truncate", "write"}) /\ proc'[q] = proc[q]
    BY <1>1 DEF At
  <2>7. \A q \in Servers : At(q, {"truncate", "write"})' => Props(proc[q].props)'
    BY <2>6 DEF PropsInv
  <2> QED
    BY <2>1, <2>5, <2>7 DEF PropsInv
<1> QED
  BY <1>3, <1>4

\* Every other step is elsewhere.
LEMMA OthersGoElsewhere ==
  ASSUME Shape, NEW p \in Servers,
         \/ FindSlot(p) \/ RenameLog(p) \/ CreateLog(p) \/ Agree(p) \/ WriteEula(p) \/ Bind(p)
         \/ StartServer(p) \/ RenameFails(p) \/ Stop(p)
  PROVE  /\ \A q \in Servers \ {p} : proc'[q] = proc[q]
         /\ proc'[p].at \notin {"truncate", "write", "agree"}
<1>1. \E new : proc' = [proc EXCEPT ![p] = new]
  BY DEF FindSlot, RenameLog, CreateLog, Agree, WriteEula, Bind, StartServer, RenameFails, Stop, Goes
<1>2. \A q \in Servers \ {p} : proc'[q] = proc[q]
  BY <1>1 DEF Shape
<1>3. proc'[p].at \notin {"truncate", "write", "agree"}
  <2>1. CASE FindSlot(p)
    BY <2>1, FindMoves DEF Moves
  <2>2. CASE CreateLog(p)
    BY <2>2, CreateMoves DEF Moves
  <2>3. CASE StartServer(p)
    <3>1. PICK flag \in BOOLEAN :
            Moves(p, [at |-> IF latest = 0 THEN "create" ELSE "find", run |-> starts',
                      slot |-> proc[p].slot, accept |-> flag, props |-> proc[p].props])
      BY <2>3, StartMoves
    <3> QED
      BY <3>1 DEF Moves
  <2>4. CASE RenameLog(p) \/ RenameFails(p)
    <3>1. Goes(p, "create")
      BY <2>4 DEF RenameLog, RenameFails
    <3>2. proc'[p].at = "create"
      BY <3>1, AfterGoes
    <3> QED
      BY <3>2
  <2>5. CASE Agree(p)
    <3>1. PICK step \in {"accept", "bind", "off"} : Goes(p, step)
      BY <2>5 DEF Agree
    <3>2. proc'[p].at = step
      BY <3>1, AfterGoes
    <3> QED
      BY <3>2
  <2>6. CASE WriteEula(p) \/ Stop(p)
    <3>1. PICK step \in {"bind", "off"} : Goes(p, step)
      BY <2>6 DEF WriteEula, Stop
    <3>2. proc'[p].at = step
      BY <3>1, AfterGoes
    <3> QED
      BY <3>2
  <2>7. CASE Bind(p)
    <3>1. PICK step \in {"up", "off"} : Goes(p, step)
      BY <2>7 DEF Bind, Bound
    <3>2. proc'[p].at = step
      BY <3>1, AfterGoes
    <3> QED
      BY <3>2
  <2> QED
    BY <2>1, <2>2, <2>3, <2>4, <2>5, <2>6, <2>7
<1> QED
  BY <1>2, <1>3

LEMMA OthersKeepProps ==
  ASSUME Shape, PropsInv, NEW p \in Servers,
         \/ FindSlot(p) \/ RenameLog(p) \/ CreateLog(p) \/ Agree(p) \/ WriteEula(p) \/ Bind(p)
         \/ StartServer(p) \/ RenameFails(p) \/ Stop(p)
  PROVE  PropsInv'
<1>1. UNCHANGED <<file, wanted>> /\ ("properties" \in doubt => "properties" \in doubt')
  BY DEF FindSlot, RenameLog, CreateLog, Agree, WriteEula, Bind, StartServer, RenameFails, Stop,
         history, doubts, bounds
<1>2. proc[p].at # "write"
  BY DEF FindSlot, RenameLog, CreateLog, Agree, WriteEula, Bind, StartServer, RenameFails, Stop, At
<1>3. /\ \A q \in Servers \ {p} : proc'[q] = proc[q]
      /\ proc'[p].at \notin {"truncate", "write", "agree"}
  BY OthersGoElsewhere
<1> QED
  BY <1>1, <1>2, <1>3, PropsElsewhere

LEMMA PropsInvStep == Shape /\ PropsInv /\ [Next]_vars => PropsInv'
<1> SUFFICES ASSUME Shape, PropsInv, [Next]_vars PROVE PropsInv'
  OBVIOUS
<1>1. CASE UNCHANGED vars
  BY <1>1, PropsElsewhere DEF vars, history, doubts
<1>2. CASE EditProperties
  BY <1>2, EditKeepsProps
<1>3. CASE \E p \in Servers : Proceeds(p) \/ StartServer(p) \/ RenameFails(p) \/ Stop(p) \/ Kill(p)
  BY <1>3, LoadKeepsProps, TruncateKeepsProps, WriteKeepsProps, KillKeepsProps, OthersKeepProps
     DEF Proceeds
<1> QED
  BY <1>1, <1>2, <1>3 DEF Next

\* What starts have loaded, and what is on file, has been heard, at any time.
HeardInv ==
  /\ Meaning(<<>>) \in given
  /\ \A m \in given : Values(m)
  /\ \A p \in Servers : At(p, {"truncate", "write"}) => HeardIn(Gives(proc[p].props), given)
  /\ HeardIn(Meaning(TextOf(file)), given)

LEMMA HeardInvStarts == Init => HeardInv
<1> SUFFICES ASSUME Init PROVE HeardInv
  OBVIOUS
<1>1. PICK none : none = Meaning(<<>>) /\ Values(none)
  BY NothingSaid, MeaningValues
<1>2. given = {none} /\ TextOf(file) = <<>>
  BY <1>1 DEF Init, TextOf
<1>3. HeardIn(none, given)
  BY <1>1, <1>2, HeardThat
<1>4. \A p \in Servers : ~At(p, {"truncate", "write"})
  BY DEF Init, At, Off
<1> QED
  BY <1>1, <1>2, <1>3, <1>4 DEF HeardInv

\* A step that leaves what starts have loaded, and on file only what has been heard.
LEMMA HeardStep ==
  ASSUME HeardInv, given \subseteq given', \A m \in given' : Values(m),
         HeardIn(Meaning(TextOf(file')), given'),
         \A q \in Servers : At(q, {"truncate", "write"})' =>
           \/ At(q, {"truncate", "write"}) /\ proc'[q].props = proc[q].props
           \/ HeardIn(Gives(proc'[q].props), given')
  PROVE  HeardInv'
<1>1. ASSUME NEW q \in Servers, At(q, {"truncate", "write"})'
      PROVE  HeardIn(Gives(proc'[q].props), given')
  <2>1. CASE At(q, {"truncate", "write"}) /\ proc'[q].props = proc[q].props
    <3>1. PICK m : m = Gives(proc[q].props) /\ m = Gives(proc'[q].props)
      BY <2>1
    <3>2. HeardIn(m, given)
      BY <2>1, <3>1 DEF HeardInv
    <3>3. HeardIn(m, given')
      BY <3>2 DEF HeardIn
    <3> QED
      BY <3>1, <3>3
  <2> QED
    BY <1>1, <2>1
<1> QED
  BY <1>1 DEF HeardInv

LEMMA HeardInvStep == Shape /\ PropsInv /\ HeardInv /\ [Next]_vars => HeardInv'
<1> SUFFICES ASSUME Shape, PropsInv, HeardInv, [Next]_vars PROVE HeardInv'
  OBVIOUS
<1>1. /\ Meaning(<<>>) \in given /\ \A m \in given : Values(m)
      /\ HeardIn(Meaning(TextOf(file)), given)
  BY DEF HeardInv
<1>2. CASE UNCHANGED vars
  <2>1. UNCHANGED <<proc, file, given>>
    BY <1>2 DEF vars, history
  <2> QED
    BY <1>1, <2>1, HeardStep DEF At
<1>3. CASE EditProperties
  <2>1. PICK text \in Texts : file' = text /\ wanted' = MeaningOf[text]
    BY <1>3 DEF EditProperties
  <2>2. text \in Seq(Line) /\ text # NoFile
    BY TextsType
  <2>3. PICK m : m = Meaning(text) /\ Values(m)
    BY <2>2, MeaningValues
  <2>4. wanted' = m /\ Meaning(TextOf(file')) = m
    BY <2>1, <2>2, <2>3 DEF MeaningOf, TextOf
  <2>5. given' = given \cup {m} /\ proc' = proc
    BY <1>3, <2>4 DEF EditProperties
  <2>6. HeardIn(m, given')
    BY <2>3, <2>5, HeardThat
  <2> QED
    BY <1>1, <2>3, <2>4, <2>5, <2>6, HeardStep DEF At
<1>4. ASSUME NEW p \in Servers, LoadProperties(p)
      PROVE  HeardInv'
  <2>1. PICK loaded : loaded = Loaded(file)
    OBVIOUS
  <2>2. proc' = [proc EXCEPT ![p].at = "truncate", ![p].props = loaded]
    BY <1>4, <2>1 DEF LoadProperties
  <2>3. Moves(p, [at |-> "truncate", run |-> proc[p].run, slot |-> proc[p].slot,
                  accept |-> proc[p].accept, props |-> loaded])
    BY <2>2, PropsMoves
  <2>4. proc'[p].props = loaded /\ \A q \in Servers \ {p} : proc'[q] = proc[q]
    BY <2>3 DEF Moves
  <2>5. UNCHANGED <<file, given>>
    BY <1>4 DEF LoadProperties, history
  <2>6. Gives(loaded) = Meaning(TextOf(file))
    BY <2>1, LoadedMeans DEF PropsInv
  <2> QED
    BY <1>1, <2>4, <2>5, <2>6, HeardStep DEF At
<1>5. ASSUME NEW p \in Servers, TruncateProperties(p)
      PROVE  HeardInv'
  <2>1. Goes(p, "write") /\ At(p, {"truncate"}) /\ file' = <<>> /\ UNCHANGED given
    BY <1>5 DEF TruncateProperties, history
  <2>2. /\ proc'[p] = [at |-> "write", run |-> proc[p].run, slot |-> proc[p].slot,
                       accept |-> proc[p].accept, props |-> proc[p].props]
        /\ \A q \in Servers \ {p} : proc'[q] = proc[q]
    BY <2>1, AfterGoes
  <2>3. proc'[p].props = proc[p].props /\ At(p, {"truncate", "write"})
    BY <2>1, <2>2 DEF At
  <2>4. TextOf(file') = <<>>
    BY <2>1, NothingSaid, TextsType DEF TextOf
  <2>5. HeardIn(Meaning(<<>>), given)
    BY <1>1, HeardThat
  <2> QED
    BY <1>1, <2>1, <2>2, <2>3, <2>4, <2>5, HeardStep DEF At
<1>6. ASSUME NEW p \in Servers, NEW text, At(p, {"write"}), Begins(text, Rendered(proc[p].props))
      PROVE  HeardIn(Meaning(TextOf(text)), given)
  <2>1. PICK props : props = proc[p].props
    OBVIOUS
  <2>2. Props(props) /\ HeardIn(Gives(props), given)
    BY <1>6, <2>1 DEF PropsInv, HeardInv, At
  <2>3. TextOf(text) = text
    BY <1>6, TextsType DEF Begins, TextOf
  <2> QED
    BY <1>1, <1>6, <2>1, <2>2, <2>3, SaveHeard
<1>7. ASSUME NEW p \in Servers, WriteProperties(p)
      PROVE  HeardInv'
  <2>1. PICK none : none = <<>>
    OBVIOUS
  <2>2. proc' = [proc EXCEPT ![p].at = "agree", ![p].props = none]
    BY <1>7, <2>1, Zenon DEF WriteProperties
  <2>3. Moves(p, [at |-> "agree", run |-> proc[p].run, slot |-> proc[p].slot,
                  accept |-> proc[p].accept, props |-> none])
    BY <2>2, PropsMoves
  <2>4. proc'[p].at = "agree" /\ \A q \in Servers \ {p} : proc'[q] = proc[q]
    BY <2>3 DEF Moves
  <2>5. PICK whole : whole = Rendered(proc[p].props)
    OBVIOUS
  <2>6. file' = whole /\ At(p, {"write"}) /\ UNCHANGED given
    BY <1>7, <2>5 DEF WriteProperties, history
  <2>7. whole \in Seq(Line)
    BY <2>5, <2>6, RenderedLines DEF PropsInv, Props, Entries, At
  <2>8. HeardIn(Meaning(TextOf(file')), given')
    BY <1>6, <2>5, <2>6, <2>7, WholeBegins
  <2> QED
    BY <1>1, <2>4, <2>6, <2>8, HeardStep DEF At
<1>8. ASSUME NEW p \in Servers, Kill(p)
      PROVE  HeardInv'
  <2>1. proc'[p] = Off /\ \A q \in Servers \ {p} : proc'[q] = proc[q]
    BY <1>8, AfterGoes DEF Kill
  <2>2. UNCHANGED given /\ ~At(p, {"truncate", "write"})'
    BY <1>8, <2>1 DEF Kill, history, At, Off
  <2>3. HeardIn(Meaning(TextOf(file')), given')
    <3>1. CASE ~At(p, {"write"})
      <4>1. file' = file
        BY <1>8, <3>1 DEF Kill
      <4> QED
        BY <1>1, <2>2, <4>1
    <3>2. CASE At(p, {"write"})
      <4>1. PICK whole : whole = Rendered(proc[p].props)
        OBVIOUS
      <4>2. whole \in Seq(Line)
        BY <3>2, <4>1, RenderedLines DEF PropsInv, Props, Entries, At
      <4>3. file' \in Torn(whole)
        BY <1>8, <3>2, <4>1 DEF Kill
      <4>4. Begins(file', whole)
        BY <4>2, <4>3, TornBegins
      <4> QED
        BY <1>6, <2>2, <3>2, <4>1, <4>4
    <3> QED
      BY <3>1, <3>2
  <2> QED
    BY <1>1, <2>1, <2>2, <2>3, HeardStep DEF At
<1>9. ASSUME NEW p \in Servers,
             \/ FindSlot(p) \/ RenameLog(p) \/ CreateLog(p) \/ Agree(p) \/ WriteEula(p) \/ Bind(p)
             \/ StartServer(p) \/ RenameFails(p) \/ Stop(p)
      PROVE  HeardInv'
  <2>1. UNCHANGED <<file, given>>
    BY <1>9 DEF FindSlot, RenameLog, CreateLog, Agree, WriteEula, Bind, StartServer, RenameFails,
                Stop, history
  <2>2. /\ \A q \in Servers \ {p} : proc'[q] = proc[q]
        /\ proc'[p].at \notin {"truncate", "write", "agree"}
    BY <1>9, OthersGoElsewhere
  <2> QED
    BY <1>1, <2>1, <2>2, HeardStep DEF At
<1> QED
  BY <1>2, <1>3, <1>4, <1>5, <1>7, <1>8, <1>9 DEF Next, Proceeds

\* Whatever starts, edits and kills come in whatever order, the properties say what their
\* last author said, as far as PropertiesKept claims it; and what starts that overlap and
\* kills in the middle of a write make of a key is still what some author said of it, its
\* default, or the beginning of one of these (ServerProperties::load, save).
THEOREM PropertiesKeptAlways == Spec => []PropertiesKept
<1>1. LogInv => Shape
  BY DEF LogInv
<1>2. PropsInv /\ HeardInv => PropertiesKept
  <2> SUFFICES ASSUME PropsInv, HeardInv PROVE PropertiesKept
    OBVIOUS
  <2>1. ASSUME "properties" \notin doubt,
               NEW p \in Servers, At(p, {"write"}), NEW props, props = proc[p].props
        PROVE  Says([key \in Keys(props) |-> Get(props, key)])
    <3>1. Says(Gives(props))
      BY <2>1 DEF PropsInv, At
    <3> QED
      BY <3>1 DEF Gives
  <2>2. ASSUME "properties" \notin doubt,
               NEW p \in Servers, At(p, {"agree"}), \A q \in Servers : ~At(q, {"write"})
        PROVE  Says(Meaning(file))
    <3>1. file # NoFile
      BY <2>2 DEF PropsInv, At
    <3> QED
      BY <2>2, <3>1 DEF PropsInv, TextOf
  <2>3. ASSUME NEW p \in Servers, At(p, {"write"}), NEW props, props = proc[p].props
        PROVE  Heard([key \in Keys(props) |-> Get(props, key)])
    <3>1. HeardIn(Gives(props), given)
      BY <2>3 DEF HeardInv, At
    <3> QED
      BY <3>1 DEF Gives, HeardIn, Heard
  <2>4. ASSUME file # NoFile PROVE Heard(Meaning(file))
    <3>1. HeardIn(Meaning(file), given)
      BY <2>4 DEF HeardInv, TextOf
    <3> QED
      BY <3>1 DEF HeardIn, Heard
  <2> QED
    BY <2>1, <2>2, <2>3, <2>4 DEF PropertiesKept
<1> QED
  BY LogInvStarts, LogInvStep, PropsInvStarts, PropsInvStep, HeardInvStarts, HeardInvStep,
     <1>1, <1>2, PTL DEF Spec

\* A file that a start has written settles: the next load finds every line of it, in its
\* order, and changes none but those that hold an escape (save does not escape).
THEOREM SettledAlways == Spec => []Settled
<1>1. LogInv => Shape
  BY DEF LogInv
<1>2. PropsInv => Settled
  <2> SUFFICES ASSUME PropsInv, NEW p \in Servers, At(p, {"write"}), NEW props,
                      props = proc[p].props, NEW again, again = Loaded(Rendered(props))
               PROVE  /\ Len(again) = Len(props)
                      /\ \A i \in DOMAIN props : Stable(props[i].value) => again[i] = props[i]
    BY DEF Settled
  <2>1. Props(props)
    BY DEF PropsInv, At
  <2>2. DOMAIN props = 1 .. Len(props)
    BY <2>1, LenProperties DEF Props, Entries
  <2> QED
    BY <2>1, <2>2, SaveSettles
<1> QED
  BY LogInvStarts, LogInvStep, PropsInvStarts, PropsInvStep, <1>1, <1>2, PTL DEF Spec

-----------------------------------------------------------------------------
(* Types, and how many logs there are *)

Busy == {p \in Servers : At(p, AtLogs)}

\* Every start makes at most one log: those rolled aside, the latest, and those that the
\* starts at their logs are still to make are no more than the starts there were.
Counted ==
  /\ IsFiniteSet(Busy)
  /\ Len(rolled) + (IF latest = 0 THEN 0 ELSE 1) + Cardinality(Busy) <= starts

Typed(r) ==
  /\ r.at \in Steps /\ r.accept \in BOOLEAN
  /\ r.run \in 0 .. MaxStarts /\ r.slot \in 0 .. MaxStarts

Types ==
  /\ \A p \in Servers : Typed(proc[p])
  /\ starts \in 0 .. MaxStarts /\ latest \in 0 .. MaxStarts
  /\ eula \in {NoFile, "torn", "accepted"}
  /\ risked \subseteq 0 .. MaxStarts
  /\ doubt \subseteq {"properties", "eula"}

TypeInv == Types /\ Counted

LEMMA TypeInvStarts == Init => TypeInv
<1> SUFFICES ASSUME Init PROVE TypeInv
  OBVIOUS
<1>1. MaxStarts \in Nat
  BY BoundsType
<1>2. \A p \in Servers : proc[p] = Off
  BY DEF Init
<1>3. Typed(Off)
  BY <1>1 DEF Typed, Off, Steps
<1>4. Types
  BY <1>1, <1>2, <1>3 DEF Init, Types
<1>5. Busy = {}
  BY <1>2 DEF Busy, At, AtLogs, Off
<1>6. IsFiniteSet({}) /\ Cardinality({}) = 0
  BY FS_EmptySet
<1>7. Len(rolled) = 0 /\ latest = 0 /\ starts = 0
  BY EmptySeq DEF Init
<1> QED
  BY <1>4, <1>5, <1>6, <1>7 DEF TypeInv, Counted

\* A step that brings no start to the logs, and makes none.
LEMMA CountedStill ==
  ASSUME RunsNumbered, Counted, UNCHANGED <<latest, rolled, starts>>, Busy' \in SUBSET Busy
  PROVE  Counted'
<1>1. PICK S, T : S = Busy /\ T = Busy' /\ T \in SUBSET S
  OBVIOUS
<1>2. IsFiniteSet(T) /\ Cardinality(T) <= Cardinality(S) /\ IsFiniteSet(S)
  BY <1>1, FS_Subset DEF Counted
<1>3. Cardinality(S) \in Nat /\ Cardinality(T) \in Nat /\ Len(rolled) \in Nat /\ starts \in Nat
  BY <1>2, FS_CardinalityType, LenProperties DEF RunsNumbered
<1>4. Len(rolled) + (IF latest = 0 THEN 0 ELSE 1) + Cardinality(T) <= starts
  BY <1>1, <1>2, <1>3 DEF Counted
<1> QED
  BY <1>1, <1>2, <1>4 DEF Counted

\* A step of p that leaves the logs and the starts alone.
LEMMA TypedStep ==
  ASSUME RunsNumbered, TypeInv, NEW p \in Servers, Typed(proc'[p]),
         \A q \in Servers \ {p} : proc'[q] = proc[q],
         At(p, AtLogs)' => At(p, AtLogs),
         UNCHANGED <<latest, rolled, starts>>,
         eula' \in {NoFile, "torn", "accepted"},
         risked' \subseteq 0 .. MaxStarts,
         doubt' \subseteq {"properties", "eula"}
  PROVE  TypeInv'
<1>1. \A q \in Servers : Typed(proc'[q])
  BY DEF TypeInv, Types
<1>2. Types'
  BY <1>1 DEF TypeInv, Types, Typed
<1>3. Busy' \in SUBSET Busy
  BY DEF Busy, At
<1> QED
  BY <1>2, <1>3, CountedStill DEF TypeInv

\* A process that goes to another step keeps what it had.
LEMMA TypedGoes ==
  ASSUME Shape, TypeInv, NEW p \in Servers, NEW step \in Steps, Goes(p, step)
  PROVE  /\ Typed(proc'[p]) /\ proc'[p].at = step
         /\ \A q \in Servers \ {p} : proc'[q] = proc[q]
<1>1. /\ Shape' /\ proc'[p].at = step
      /\ step # "off" =>
           proc'[p] = [at |-> step, run |-> proc[p].run, slot |-> proc[p].slot,
                       accept |-> proc[p].accept, props |-> proc[p].props]
      /\ step = "off" => proc'[p] = Off
      /\ \A q \in Servers \ {p} : proc'[q] = proc[q]
  BY AfterGoes
<1>2. Typed(proc[p])
  BY DEF TypeInv, Types
<1>3. CASE step = "off"
  <2>1. MaxStarts \in Nat
    BY BoundsType
  <2>2. Typed(Off)
    BY <2>1 DEF Typed, Off, Steps
  <2> QED
    BY <1>1, <1>3, <2>2
<1>4. CASE step # "off"
  <2>1. PICK r : r = proc'[p]
    OBVIOUS
  <2>2. r.at = step /\ r.run = proc[p].run /\ r.slot = proc[p].slot /\ r.accept = proc[p].accept
    BY <1>1, <1>4, <2>1
  <2>3. Typed(r)
    BY <1>2, <2>2 DEF Typed
  <2> QED
    BY <1>1, <2>1, <2>3
<1> QED
  BY <1>3, <1>4

\* A start comes to its logs: one start more, and one log more to make.
LEMMA StartCounts ==
  ASSUME LogInv, TypeInv, NEW p \in Servers, StartServer(p)
  PROVE  TypeInv'
<1>1. PICK flag \in BOOLEAN, step \in {"create", "find"} :
        Moves(p, [at |-> step, run |-> starts', slot |-> proc[p].slot,
                  accept |-> flag, props |-> proc[p].props])
  <2>1. Shape
    BY DEF LogInv
  <2>2. PICK flag \in BOOLEAN :
          Moves(p, [at |-> IF latest = 0 THEN "create" ELSE "find", run |-> starts',
                    slot |-> proc[p].slot, accept |-> flag, props |-> proc[p].props])
    BY <2>1, StartMoves
  <2>3. PICK step \in {"create", "find"} : step = IF latest = 0 THEN "create" ELSE "find"
    OBVIOUS
  <2> QED
    BY <2>2, <2>3
<1>2. /\ proc'[p].at = step /\ proc'[p].run = starts' /\ proc'[p].slot = proc[p].slot
      /\ proc'[p].accept = flag
      /\ \A q \in Servers \ {p} : proc'[q] = proc[q]
  BY <1>1 DEF Moves
<1>3. /\ starts' = starts + 1 /\ starts < MaxStarts /\ UNCHANGED <<latest, rolled, eula>>
      /\ ~At(p, AtLogs) /\ UNCHANGED doubt
      /\ risked' \subseteq 0 .. MaxStarts
  <2>1. \A q \in Servers : proc[q].run \in 0 .. MaxStarts
    BY DEF TypeInv, Types, Typed
  <2>2. latest \in 0 .. MaxStarts /\ risked \subseteq 0 .. MaxStarts
        /\ starts \in 0 .. MaxStarts /\ MaxStarts \in Nat
    BY BoundsType DEF TypeInv, Types
  <2>3. starts' \in 0 .. MaxStarts
    BY <2>2 DEF StartServer
  <2> QED
    BY <2>1, <2>2, <2>3 DEF StartServer, logs, At, AtLogs
<1>4. starts \in 0 .. MaxStarts /\ starts' \in 0 .. MaxStarts /\ MaxStarts \in Nat
  BY <1>3, BoundsType DEF TypeInv, Types
<1>5. Typed(proc'[p])
  BY <1>2, <1>4 DEF TypeInv, Types, Typed, Steps
<1>6. \A q \in Servers : Typed(proc'[q])
  BY <1>2, <1>5 DEF TypeInv, Types
<1>7. Types'
  BY <1>3, <1>4, <1>6 DEF TypeInv, Types, Typed
<1>8. PICK S, T : S = Busy /\ T = Busy' /\ T = S \cup {p} /\ p \notin S
  <2>1. Busy' = Busy \cup {p}
    BY <1>2, <1>3 DEF Busy, At, AtLogs
  <2>2. p \notin Busy
    BY <1>3 DEF Busy
  <2> QED
    BY <2>1, <2>2
<1>9. IsFiniteSet(S) /\ Len(rolled) + (IF latest = 0 THEN 0 ELSE 1) + Cardinality(S) <= starts
  BY <1>8 DEF TypeInv, Counted
<1>10. IsFiniteSet(T) /\ Cardinality(T) = Cardinality(S) + 1
  BY <1>8, <1>9, FS_AddElement
<1>11. Cardinality(S) \in Nat /\ Len(rolled) \in Nat
  BY <1>9, FS_CardinalityType, LenProperties DEF LogInv, RunsNumbered
<1>12. Len(rolled) + (IF latest = 0 THEN 0 ELSE 1) + Cardinality(T) <= starts + 1
  BY <1>4, <1>9, <1>10, <1>11
<1>13. Counted'
  BY <1>3, <1>8, <1>10, <1>12 DEF Counted
<1> QED
  BY <1>7, <1>13 DEF TypeInv

\* The names that are taken are fewer than the starts, and the next one is there for p.
LEMMA FindCounts ==
  ASSUME LogInv, TypeInv, NEW p \in Servers, FindSlot(p)
  PROVE  TypeInv'
<1>1. PICK slot : slot = FreeSlot /\ slot = Len(rolled) + 1
  BY FreeSlotIsNext DEF LogInv, RunsNumbered
<1>2. /\ proc'[p].at = "rename" /\ proc'[p].run = proc[p].run /\ proc'[p].slot = slot
      /\ proc'[p].accept = proc[p].accept
      /\ \A q \in Servers \ {p} : proc'[q] = proc[q]
  BY <1>1, FindMoves DEF LogInv, Moves
<1>3. UNCHANGED <<latest, rolled, starts, eula, risked, doubt>> /\ At(p, AtLogs)
  BY DEF FindSlot, logs, history, doubts, bounds, At, AtLogs
<1>4. PICK S : S = Busy /\ p \in S /\ IsFiniteSet(S)
  BY <1>3 DEF Busy, TypeInv, Counted
<1>5. Cardinality(S) \in Nat /\ Cardinality(S) # 0
  BY <1>4, FS_CardinalityType, FS_EmptySet
<1>6. Len(rolled) \in Nat /\ starts \in 0 .. MaxStarts
  BY LenProperties DEF LogInv, RunsNumbered, TypeInv, Types
<1>7. slot \in 0 .. MaxStarts
  <2>1. Len(rolled) + (IF latest = 0 THEN 0 ELSE 1) + Cardinality(S) <= starts
    BY <1>4 DEF TypeInv, Counted
  <2>2. MaxStarts \in Nat
    BY BoundsType
  <2> QED
    BY <1>1, <1>5, <1>6, <2>1, <2>2
<1>8. Typed(proc'[p])
  BY <1>2, <1>7 DEF TypeInv, Types, Typed, Steps
<1>9. RunsNumbered /\ eula' \in {NoFile, "torn", "accepted"}
      /\ risked' \subseteq 0 .. MaxStarts /\ doubt' \subseteq {"properties", "eula"}
  BY <1>3 DEF LogInv, TypeInv, Types
<1> QED
  BY <1>2, <1>3, <1>8, <1>9, TypedStep

\* A log that is rolled aside is no longer the latest.
LEMMA RenameCounts ==
  ASSUME LogInv, TypeInv, NEW p \in Servers, RenameLog(p)
  PROVE  TypeInv'
<1>1. Goes(p, "create") /\ Shape /\ "create" \in Steps /\ RunsNumbered
  BY DEF RenameLog, LogInv, Steps
<1>2. /\ Typed(proc'[p]) /\ proc'[p].at = "create"
      /\ \A q \in Servers \ {p} : proc'[q] = proc[q]
  BY <1>1, TypedGoes
<1>3. UNCHANGED <<starts, eula, risked, doubt>> /\ latest' = 0 /\ At(p, AtLogs)
      /\ At(p, {"rename"})
  BY DEF RenameLog, doubts, bounds, At, AtLogs
<1>4. \A q \in Servers : Typed(proc'[q])
  BY <1>2 DEF TypeInv, Types
<1>5. Types'
  BY <1>3, <1>4, BoundsType DEF TypeInv, Types, Typed
<1>6. PICK S : S = Busy /\ S = Busy' /\ IsFiniteSet(S)
  <2>1. Busy' = Busy
    BY <1>2, <1>3 DEF Busy, At, AtLogs
  <2> QED
    BY <2>1 DEF TypeInv, Counted
<1>7. PICK n \in Nat : n = Len(rolled) /\ DOMAIN rolled = 1 .. n /\ rolled \in Seq(Nat)
  BY <1>1, LenProperties DEF RunsNumbered
<1>8. Cardinality(S) \in Nat /\ starts \in Nat
        /\ n + (IF latest = 0 THEN 0 ELSE 1) + Cardinality(S) <= starts
  BY <1>1, <1>6, <1>7, FS_CardinalityType DEF TypeInv, Counted, RunsNumbered
<1>9. CASE latest = 0
  <2>1. rolled' = rolled
    BY <1>9 DEF RenameLog
  <2> QED
    BY <1>3, <1>5, <1>6, <1>7, <1>8, <1>9, <2>1 DEF TypeInv, Counted
<1>10. CASE latest # 0
  <2>1. PICK slot : slot = proc[p].slot /\ slot \in 1 .. n + 1
    BY <1>1, <1>3, <1>7 DEF RunsNumbered
  <2>2. PICK m \in Nat : 1 .. m = 1 .. n \cup {slot} /\ m <= n + 1
    <3>1. CASE slot = n + 1
      BY <3>1
    <3>2. CASE slot \in 1 .. n
      BY <3>2
    <3> QED
      BY <2>1, <3>1, <3>2
  <2>3. DOMAIN rolled' = 1 .. m
    BY <1>7, <1>10, <2>1, <2>2 DEF RenameLog
  <2>4. Len(rolled') = m
    <3>1. RunsNumbered'
      BY RenameKeepsLogs DEF LogInv
    <3>2. Len(rolled') \in Nat /\ DOMAIN rolled' = 1 .. Len(rolled')
      BY <3>1, LenProperties DEF RunsNumbered
    <3> QED
      BY <2>3, <3>2
  <2>5. m + 0 + Cardinality(S) <= starts
    BY <1>8, <1>10, <2>2
  <2> QED
    BY <1>3, <1>5, <1>6, <2>4, <2>5 DEF TypeInv, Counted
<1> QED
  BY <1>9, <1>10

\* A start that has made its log is no longer at the logs.
LEMMA CreateCounts ==
  ASSUME LogInv, TypeInv, NEW p \in Servers, CreateLog(p)
  PROVE  TypeInv'
<1>1. /\ proc'[p].at = "load" /\ proc'[p].run = 0 /\ proc'[p].slot = 0
      /\ proc'[p].accept = proc[p].accept
      /\ \A q \in Servers \ {p} : proc'[q] = proc[q]
  BY CreateMoves DEF LogInv, Moves
<1>2. /\ UNCHANGED <<starts, eula, risked, doubt, rolled>> /\ latest' = proc[p].run
      /\ At(p, AtLogs)
  BY DEF CreateLog, doubts, bounds, At, AtLogs
<1>3. MaxStarts \in Nat /\ Typed(proc[p])
  BY BoundsType DEF TypeInv, Types
<1>4. Typed(proc'[p])
  BY <1>1, <1>3 DEF Typed, Steps
<1>5. \A q \in Servers : Typed(proc'[q])
  BY <1>1, <1>4 DEF TypeInv, Types
<1>6. latest' \in 0 .. MaxStarts
  BY <1>2, <1>3 DEF Typed
<1>7. Types'
  BY <1>2, <1>5, <1>6 DEF TypeInv, Types, Typed
<1>8. PICK S, T : S = Busy /\ T = Busy' /\ T = S \ {p} /\ p \in S
  <2>1. Busy' = Busy \ {p}
    BY <1>1 DEF Busy, At, AtLogs
  <2>2. p \in Busy
    BY <1>2 DEF Busy
  <2> QED
    BY <2>1, <2>2
<1>9. IsFiniteSet(S) /\ Len(rolled) + (IF latest = 0 THEN 0 ELSE 1) + Cardinality(S) <= starts
  BY <1>8 DEF TypeInv, Counted
<1>10. IsFiniteSet(T) /\ Cardinality(T) = Cardinality(S) - 1
  BY <1>8, <1>9, FS_RemoveElement
<1>11. Cardinality(S) \in Nat /\ Len(rolled) \in Nat /\ starts \in Nat
  BY <1>9, FS_CardinalityType, LenProperties DEF LogInv, RunsNumbered
<1>12. Len(rolled) + 1 + Cardinality(T) <= starts
  BY <1>9, <1>10, <1>11
<1>13. Len(rolled) + 0 + Cardinality(T) <= starts
  BY <1>9, <1>10, <1>11
<1>14. Counted'
  BY <1>2, <1>8, <1>10, <1>12, <1>13 DEF Counted
<1> QED
  BY <1>7, <1>14 DEF TypeInv

\* The steps away from the logs, and a rename that fails.
LEMMA OthersCount ==
  ASSUME LogInv, TypeInv, NEW p \in Servers,
         \/ LoadProperties(p) \/ TruncateProperties(p) \/ WriteProperties(p)
         \/ Agree(p) \/ WriteEula(p) \/ Bind(p)
         \/ RenameFails(p) \/ Stop(p) \/ Kill(p)
  PROVE  TypeInv'
<1>1. Shape /\ RunsNumbered
  BY DEF LogInv
<1>2. UNCHANGED <<latest, rolled, starts>>
  BY DEF LoadProperties, TruncateProperties, WriteProperties, Agree, WriteEula, Bind, RenameFails,
         Stop, Kill, logs, bounds
<1>3. risked' \subseteq 0 .. MaxStarts /\ doubt' \subseteq {"properties", "eula"}
  <2>1. doubt \subseteq {"properties", "eula"} /\ risked \cup {latest} \subseteq 0 .. MaxStarts
    BY DEF TypeInv, Types
  <2>2. doubt' \subseteq doubt \cup {"properties", "eula"} /\ risked' \subseteq risked \cup {latest}
    BY DEF LoadProperties, TruncateProperties, WriteProperties, Agree, WriteEula, Bind, RenameFails,
           Stop, Kill, doubts
  <2> QED
    BY <2>1, <2>2
<1>4. eula' \in {NoFile, "torn", "accepted"}
  <2>1. eula' \in {eula, "torn", "accepted"}
    BY DEF LoadProperties, TruncateProperties, WriteProperties, Agree, WriteEula, Acceptance, Bind,
           RenameFails, Stop, Kill
  <2> QED
    BY <2>1 DEF TypeInv, Types
<1>5. CASE LoadProperties(p) \/ WriteProperties(p)
  <2>1. PICK step \in {"truncate", "agree"} :
          \E props : proc' = [proc EXCEPT ![p].at = step, ![p].props = props]
    <3>1. PICK loaded, none : loaded = Loaded(file) /\ none = <<>>
      OBVIOUS
    <3>2. CASE LoadProperties(p)
      <4>1. proc' = [proc EXCEPT ![p].at = "truncate", ![p].props = loaded]
        BY <3>1, <3>2 DEF LoadProperties
      <4> QED
        BY <4>1
    <3>3. CASE WriteProperties(p)
      <4>1. proc' = [proc EXCEPT ![p].at = "agree", ![p].props = none]
        BY <3>1, <3>3 DEF WriteProperties
      <4> QED
        BY <4>1
    <3> QED
      BY <1>5, <3>2, <3>3
  <2>2. PICK props : Moves(p, [at |-> step, run |-> proc[p].run, slot |-> proc[p].slot,
                               accept |-> proc[p].accept, props |-> props])
    BY <1>1, <2>1, PropsMoves
  <2>3. /\ proc'[p].at = step /\ proc'[p].run = proc[p].run /\ proc'[p].slot = proc[p].slot
        /\ proc'[p].accept = proc[p].accept
        /\ \A q \in Servers \ {p} : proc'[q] = proc[q]
    BY <2>2 DEF Moves
  <2>4. Typed(proc'[p])
    BY <2>3 DEF TypeInv, Types, Typed, Steps
  <2>5. ~At(p, AtLogs)'
    BY <2>3 DEF At, AtLogs
  <2> QED
    BY <1>1, <1>2, <1>3, <1>4, <2>3, <2>4, <2>5, TypedStep
<1>6. CASE ~(LoadProperties(p) \/ WriteProperties(p))
  <2>1. PICK step \in Steps : Goes(p, step) /\ (step \in AtLogs => At(p, AtLogs))
    <3>1. CASE TruncateProperties(p)
      BY <3>1 DEF TruncateProperties, Steps, AtLogs
    <3>2. CASE Agree(p)
      BY <3>2 DEF Agree, Steps, AtLogs
    <3>3. CASE WriteEula(p) \/ Stop(p) \/ Kill(p)
      BY <3>3 DEF WriteEula, Stop, Kill, Steps, AtLogs
    <3>4. CASE Bind(p)
      BY <3>4 DEF Bind, Bound, Steps, AtLogs
    <3>5. CASE RenameFails(p)
      BY <3>5 DEF RenameFails, Steps, AtLogs, At
    <3> QED
      BY <1>6, <3>1, <3>2, <3>3, <3>4, <3>5
  <2>2. /\ Typed(proc'[p]) /\ proc'[p].at = step
        /\ \A q \in Servers \ {p} : proc'[q] = proc[q]
    BY <1>1, <2>1, TypedGoes
  <2>3. At(p, AtLogs)' => At(p, AtLogs)
    BY <2>1, <2>2 DEF At
  <2> QED
    BY <1>1, <1>2, <1>3, <1>4, <2>2, <2>3, TypedStep
<1> QED
  BY <1>5, <1>6

LEMMA TypeInvStep == LogInv /\ TypeInv /\ [Next]_vars => TypeInv'
<1> SUFFICES ASSUME LogInv, TypeInv, [Next]_vars PROVE TypeInv'
  OBVIOUS
<1>1. CASE UNCHANGED vars
  <2>1. UNCHANGED <<proc, latest, rolled, eula, risked, doubt, starts>>
    BY <1>1 DEF vars, logs, doubts, bounds
  <2> QED
    BY <2>1 DEF TypeInv, Types, Typed, Counted, Busy, At
<1>2. CASE EditProperties
  <2>1. UNCHANGED <<proc, latest, rolled, eula, risked, starts>> /\ doubt' \subseteq doubt \cup {"properties"}
    BY <1>2 DEF EditProperties, logs
  <2>2. Types'
    BY <2>1 DEF TypeInv, Types, Typed
  <2>3. Counted'
    BY <2>1 DEF TypeInv, Counted, Busy, At
  <2> QED
    BY <2>2, <2>3 DEF TypeInv
<1>3. CASE \E p \in Servers : Proceeds(p) \/ StartServer(p) \/ RenameFails(p) \/ Stop(p) \/ Kill(p)
  BY <1>3, StartCounts, FindCounts, RenameCounts, CreateCounts, OthersCount DEF Proceeds
<1> QED
  BY <1>1, <1>2, <1>3 DEF Next

\* Every key has one line, and every line a key.
LEMMA KeyPerLine ==
  ASSUME NEW entries, Entries(entries)
  PROVE  Cardinality(Keys(entries)) = Len(entries)
<1>1. PICK n \in Nat : n = Len(entries) /\ entries \in Seq(Line)
  BY LenProperties DEF Entries
<1>2. PICK S : S = Keys(entries)
  OBVIOUS
<1>3. \A k : k \in S <=> (k # NoKey /\ \E i \in 1 .. n : entries[i].key = k)
  BY <1>1, <1>2, KeysAre
<1> DEFINE key == [i \in 1 .. n |-> entries[i].key]
<1>4. key \in [1 .. n -> S]
  BY <1>1, <1>3 DEF Entries
<1>5. \A i, j \in 1 .. n : key[i] = key[j] => i = j
  BY <1>1 DEF Entries, Distinct
<1>6. \A k \in S : \E i \in 1 .. n : key[i] = k
  BY <1>3
<1>7. ExistsBijection(1 .. n, S)
  <2> HIDE DEF key
  <2>1. key \in Injection(1 .. n, S) /\ key \in Surjection(1 .. n, S)
    BY <1>4, <1>5, <1>6 DEF Injection, Surjection, IsInjective
  <2> QED
    BY <2>1 DEF ExistsBijection, Bijection
<1> QED
  BY <1>1, <1>2, <1>7, FS_CountingElements

\* The shape of the state: no start finds or makes a log beyond the number of starts there
\* were, and what a server has loaded names every key once, a vanilla key always
\* (open_log_file; insert and the defaults of ServerProperties::load).
THEOREM TypeCorrect == Spec => []TypeOK
<1>1. LogInv /\ PropsInv /\ TypeInv => TypeOK
  <2> SUFFICES ASSUME LogInv, PropsInv, TypeInv PROVE TypeOK
    OBVIOUS
  <2>1. DOMAIN proc = Servers
    BY DEF LogInv, Shape
  <2>2. ASSUME NEW p \in Servers
        PROVE  /\ proc[p].at \in Steps /\ proc[p].accept \in BOOLEAN
               /\ {proc[p].run, proc[p].slot} \subseteq 0 .. MaxStarts
    BY DEF TypeInv, Types, Typed
  <2>3. ASSUME NEW p \in Servers, At(p, {"truncate", "write"})
        PROVE  /\ Keys(Defaults) \subseteq Keys(proc[p].props)
               /\ Cardinality(Keys(proc[p].props)) = Len(proc[p].props)
    <3>1. PICK props : props = proc[p].props /\ Props(props)
      BY <2>3 DEF PropsInv
    <3> QED
      BY <3>1, KeyPerLine DEF Props
  <2>4. DOMAIN rolled \subseteq 1 .. MaxStarts
    <3>1. PICK n \in Nat : n = Len(rolled) /\ DOMAIN rolled = 1 .. n
      BY LenProperties DEF LogInv, RunsNumbered
    <3>2. Cardinality(Busy) \in Nat
      BY FS_CardinalityType DEF TypeInv, Counted
    <3>3. n <= starts
      BY <3>1, <3>2 DEF TypeInv, Counted, LogInv, RunsNumbered
    <3>4. starts \in 0 .. MaxStarts /\ MaxStarts \in Nat
      BY BoundsType DEF TypeInv, Types
    <3> QED
      BY <3>1, <3>3, <3>4
  <2> QED
    BY <2>1, <2>2, <2>3, <2>4 DEF TypeOK, TypeInv, Types
<1>2. LogInv => Shape
  BY DEF LogInv
<1> QED
  BY LogInvStarts, LogInvStep, PropsInvStarts, PropsInvStep, TypeInvStarts, TypeInvStep,
     <1>1, <1>2, PTL DEF Spec
=============================================================================
