-------------------------- MODULE ProjectPlansProofs --------------------------
(***************************************************************************)
(* What a receipt of the MCP path says is so, and no link is left that the *)
(* list does not name, but where the code gives one up, for any number of  *)
(* plans, keys, threads and Skills.  Both rest on the project lock: a      *)
(* thread past Check owns it, so what the check saw of its plan and what   *)
(* SaveNames saved stand at the end, unless the project is removed.        *)
(***************************************************************************)
EXTENDS ProjectPlans, TLAPS

\* Where a thread may be.
Steps == {"none", "approval", "temp", "rename", "lock", "check", "classify", "link",
          "undo", "receipt"}

\* What a thread knows.
Runs == [step : Steps, plan : Plans \cup {Absent}, key : Keys \cup {Absent},
         source : Sources \cup {"none"}, timely : BOOLEAN,
         known : SUBSET Skills, todo : SUBSET Skills, made : SUBSET Skills, cut : BOOLEAN]

\* What a plan file holds.
PlanFiles == UNION {[skills : {S}, creates : SUBSET S, registers : BOOLEAN,
                     content : [S -> Contents \cup {Absent}]] : S \in SUBSET Skills}

\* The types, of what each thread knows too: one past the start has a plan.
Threaded == /\ TypeOK
            /\ plans \in [Plans -> PlanFiles \cup {Absent}]
            /\ run \in [Procs -> Runs]
            /\ \A p \in Procs : ~At(p, "none") => run[p].plan \in Plans

\* An apply past its check works on a plan that is approved; once it has saved
\* the list, the list has every Skill of the plan, unless it was removed.
Committed ==
    \A p \in Procs :
        /\ run[p].step \in {"classify", "link", "receipt"} =>
             plans[run[p].plan] # Absent /\ approvals[run[p].plan] # "none"
        /\ At(p, "receipt") /\ ~run[p].cut => plans[run[p].plan].skills \subseteq listed

\* A thread at rest knows nothing.
LEMMA IdleRun == Idle \in Runs /\ Idle.step = "none" /\ Idle.todo = {} /\ Idle.made = {}
                 /\ Idle.known = {}
  BY DEF Idle, Runs, Steps

\* A plan file holds Skills.
LEMMA PlanSkills ==
    ASSUME NEW f \in PlanFiles
    PROVE  f.skills \subseteq Skills
  BY DEF PlanFiles

\* A plan just written is a plan file.
LEMMA NewPlan ==
    ASSUME Threaded, NEW S \in SUBSET Skills, NEW C \in SUBSET S, NEW r \in BOOLEAN
    PROVE  PlanOf(S, C, r) \in PlanFiles
  <1>1. [n \in S |-> hub[n]] \in [S -> Contents \cup {Absent}]
    BY DEF Threaded, TypeOK
  <1> QED
    BY <1>1 DEF PlanOf, PlanFiles

\* At the start nobody has a plan.
LEMMA InitThreaded == Init => Threaded /\ Committed
  <1> SUFFICES ASSUME Init PROVE Threaded /\ Committed
    OBVIOUS
  <1>1. \A p \in Procs : run[p] = Idle /\ plock # p
    BY AbsentAssumption DEF Init
  <1>2. run \in [Procs -> Runs]
    BY IdleRun DEF Init
  <1>3. hub \in [Skills -> Contents \cup {Absent}]
    BY DEF Init
  <1>4. \A p \in Procs : ~Applying(p) /\ run[p].todo \cup run[p].made \cup run[p].known \subseteq Skills
    BY <1>1, IdleRun DEF Applying, At
  <1>5. TypeOK
    <2>1. \A p \in Procs : /\ run[p].todo \cup run[p].made \cup run[p].known \subseteq Skills
                           /\ (plock = p) <=> Applying(p)
      BY <1>1, <1>4
    <2>2. entry \in [Skills -> Free]
      BY DEF Init, Free
    <2>3. events \in 0 .. MaxEvents
      BY EventsAssumption DEF Init
    <2>4. /\ expired \subseteq Plans /\ plock \in Procs \cup {Nobody}
          /\ approvals \in [Plans -> Sources \cup {"none"}]
          /\ temp \in [Plans -> Sources \cup {"none"}]
          /\ receipts \in [Keys -> Plans \cup {Absent}]
      BY DEF Init
    <2> QED
      BY <1>3, <2>1, <2>2, <2>3, <2>4 DEF Init, TypeOK
  <1> QED
    BY <1>1, <1>2, <1>5, IdleRun DEF Init, Threaded, Committed, At

\* The thread p goes on, or returns.
LEMMA RunKeeps ==
    ASSUME Threaded, NEW p \in Procs, NEW r \in Runs, run' = [run EXCEPT ![p] = r],
           r.step # "none" => r.plan \in Plans,
           \/ /\ plock' = plock
              /\ r.step \in {"check", "classify", "link", "undo", "receipt"} <=> Applying(p)
           \/ /\ plock' = p /\ plock = Nobody
              /\ r.step \in {"check", "classify", "link", "undo", "receipt"}
           \/ /\ plock' = IF plock = p THEN Nobody ELSE plock
              /\ r.step \notin {"check", "classify", "link", "undo", "receipt"}
    PROVE  /\ run' \in [Procs -> Runs] /\ plock' \in Procs \cup {Nobody}
           /\ \A q \in Procs : /\ ~At(q, "none")' => run'[q].plan \in Plans
                               /\ run'[q].todo \cup run'[q].made \cup run'[q].known \subseteq Skills
                               /\ (plock' = q) <=> Applying(q)'
  <1>1. run' \in [Procs -> Runs] /\ run'[p] = r
    BY DEF Threaded
  <1>2. \A q \in Procs \ {p} : run'[q] = run[q]
    BY DEF Threaded
  <1>3. \A q \in Procs : (plock = q) <=> Applying(q)
    BY DEF Threaded, TypeOK
  <1>4. ASSUME NEW q \in Procs PROVE (plock' = q) <=> Applying(q)'
    BY <1>1, <1>2, <1>3, AbsentAssumption DEF Applying, At
  <1>5. ASSUME NEW q \in Procs PROVE run'[q].todo \cup run'[q].made \cup run'[q].known \subseteq Skills
    <2>1. run'[q] \in Runs
      BY <1>1
    <2> QED
      BY <2>1 DEF Runs
  <1>6. ASSUME NEW q \in Procs, ~At(q, "none")' PROVE run'[q].plan \in Plans
    BY <1>1, <1>2, <1>6 DEF At, Threaded
  <1> QED
    BY <1>1, <1>4, <1>5, <1>6, AbsentAssumption DEF Threaded, TypeOK

\* A thread that goes on keeps what it knows.
LEMMA GoesRun ==
    ASSUME Threaded, NEW p \in Procs, NEW s \in Steps, Goes(p, s)
    PROVE  \E r \in Runs : /\ run' = [run EXCEPT ![p] = r]
                           /\ r.step = s /\ r.plan = run[p].plan
  <1> DEFINE r == [run[p] EXCEPT !.step = s]
  <1>1. run[p] \in Runs
    BY DEF Threaded
  <1>2. r \in Runs /\ r.step = s /\ r.plan = run[p].plan
    BY <1>1 DEF Runs
  <1>3. run' = [run EXCEPT ![p] = r]
    BY DEF Goes
  <1> QED
    BY <1>2, <1>3

\* A thread goes on to apply, or has approved and is done.
LEMMA AfterRun ==
    ASSUME Threaded, NEW p \in Procs, AfterApproval(p)
    PROVE  \/ run' = [run EXCEPT ![p] = Idle]
           \/ \E r \in Runs : /\ run' = [run EXCEPT ![p] = r]
                              /\ r.step = "lock" /\ r.plan = run[p].plan
  <1> DEFINE r == [run[p] EXCEPT !.step = "lock", !.timely = run[p].plan \notin expired]
  <1>1. run[p] \in Runs /\ "lock" \in Steps
    BY DEF Threaded, Steps
  <1>2. r \in Runs /\ r.step = "lock" /\ r.plan = run[p].plan
    BY <1>1 DEF Runs
  <1>3. run' = [run EXCEPT ![p] = Idle] \/ run' = [run EXCEPT ![p] = r]
    BY DEF AfterApproval
  <1> QED
    BY <1>2, <1>3

\* Strays are Skills.
LEMMA StraysTyped ==
    ASSUME NEW S \in SUBSET Skills, Strand(S), strays \subseteq Skills
    PROVE  strays' \subseteq Skills
  BY DEF Strand

\* Every step keeps the types, the lock and what an apply relies on.
LEMMA StepThreaded == Threaded /\ Committed /\ [Next]_vars => (Threaded /\ Committed)'
  <1> SUFFICES ASSUME Threaded, Committed, [Next]_vars PROVE (Threaded /\ Committed)'
    OBVIOUS
  <1> DEFINE FilesOK == /\ hub \in [Skills -> Contents \cup {Absent}]
                        /\ entry \in [Skills -> Free]
                        /\ listed \subseteq Skills
                        /\ mode \in {"link", "copy"}
                        /\ registered \in BOOLEAN /\ leaving \in BOOLEAN
                        /\ strays \subseteq Skills
                        /\ expired \subseteq Plans
                        /\ approvals \in [Plans -> Sources \cup {"none"}]
                        /\ temp \in [Plans -> Sources \cup {"none"}]
                        /\ receipts \in [Keys -> Plans \cup {Absent}]
                        /\ events \in 0 .. MaxEvents
             Held == {"check", "classify", "link", "undo", "receipt"}
  <1>t. FilesOK /\ MaxEvents \in Nat /\ plock \in Procs \cup {Nobody}
    BY EventsAssumption DEF Threaded, TypeOK
  <1>r. /\ run \in [Procs -> Runs]
        /\ plans \in [Plans -> PlanFiles \cup {Absent}]
        /\ \A p \in Procs : /\ ~At(p, "none") => run[p].plan \in Plans
                            /\ run[p].todo \cup run[p].made \cup run[p].known \subseteq Skills
                            /\ (plock = p) <=> Applying(p)
    BY DEF Threaded, TypeOK
  <1>h. \A p \in Procs : (plock = p) <=> run[p].step \in Held
    BY <1>r DEF Applying, At
  <1>c. \A p \in Procs :
          /\ run[p].step \in {"classify", "link", "receipt"} =>
               plans[run[p].plan] # Absent /\ approvals[run[p].plan] # "none"
          /\ At(p, "receipt") /\ ~run[p].cut => plans[run[p].plan].skills \subseteq listed
    BY DEF Committed
  \* The threads stay where they are.
  <1>1. ASSUME UNCHANGED <<approvals, run, plock>>, FilesOK',
               plans' \in [Plans -> PlanFiles \cup {Absent}],
               \A i \in Plans : plans[i] # Absent => plans'[i] = plans[i],
               \A p \in Procs : At(p, "receipt") => listed' = listed
        PROVE  (Threaded /\ Committed)'
    <2>1. TypeOK'
      BY <1>1, <1>r, <1>t DEF TypeOK, Applying, At
    <2>2. Threaded'
      BY <1>1, <1>r, <2>1 DEF Threaded, At
    <2>3. \A p \in Procs : run[p].step \in {"classify", "link", "receipt"}
             => plans'[run[p].plan] = plans[run[p].plan]
      BY <1>1, <1>r, <1>c DEF At
    <2>4. Committed'
      BY <1>1, <1>c, <2>3 DEF Committed, At
    <2> QED
      BY <2>2, <2>4
  \* The thread p goes on, and changes no more than the files.
  <1>2. ASSUME NEW p \in Procs, NEW r \in Runs, run' = [run EXCEPT ![p] = r],
               r.step # "none" => r.plan \in Plans,
               r.step \in {"classify", "link", "receipt"} =>
                 plans[r.plan] # Absent /\ approvals[r.plan] # "none",
               r.step = "receipt" => plans[r.plan].skills \subseteq listed',
               \/ plock' = plock /\ (r.step \in Held <=> run[p].step \in Held)
               \/ plock' = p /\ plock = Nobody /\ r.step \in Held
               \/ plock' = (IF plock = p THEN Nobody ELSE plock) /\ r.step \notin Held,
               FilesOK', plans' = plans,
               \A i \in Plans : approvals[i] # "none" => approvals'[i] # "none",
               listed' = listed \/ (plock = p)
        PROVE  (Threaded /\ Committed)'
    <2>1. /\ run' \in [Procs -> Runs] /\ plock' \in Procs \cup {Nobody}
          /\ \A q \in Procs : /\ ~At(q, "none")' => run'[q].plan \in Plans
                              /\ run'[q].todo \cup run'[q].made \cup run'[q].known \subseteq Skills
                              /\ (plock' = q) <=> Applying(q)'
      BY <1>2, <1>h, <1>r, RunKeeps
    <2>2. run'[p] = r /\ \A q \in Procs \ {p} : run'[q] = run[q]
      BY <1>2, <1>r
    <2>3. ASSUME NEW q \in Procs \ {p}, At(q, "receipt") PROVE listed' = listed
      BY <1>2, <1>h, <2>3 DEF At
    <2>4. ASSUME NEW q \in Procs
          PROVE  /\ run'[q].step \in {"classify", "link", "receipt"} =>
                      plans'[run'[q].plan] # Absent /\ approvals'[run'[q].plan] # "none"
                 /\ At(q, "receipt")' /\ ~run'[q].cut => plans'[run'[q].plan].skills \subseteq listed'
      <3>1. CASE q = p
        BY <1>2, <2>2, <3>1 DEF At
      <3>2. CASE q # p
        BY <1>2, <1>r, <1>c, <2>2, <2>3, <3>2 DEF At
      <3> QED
        BY <3>1, <3>2
    <2>5. TypeOK'
      BY <1>2, <2>1 DEF TypeOK
    <2> QED
      BY <1>2, <1>r, <2>1, <2>4, <2>5 DEF Threaded, Committed
  \* The thread p returns.
  <1>3. ASSUME NEW p \in Procs, Return(p), FilesOK', UNCHANGED <<plans, approvals>>,
               listed' = listed \/ (plock = p)
        PROVE  (Threaded /\ Committed)'
    <2>1. Idle \in Runs /\ Idle.step = "none"
      BY IdleRun
    <2> QED
      BY <1>2, <1>3, <2>1 DEF Return
  \* The thread p leaves its approval.
  <1>4. ASSUME NEW p \in Procs, run' = [run EXCEPT ![p] = Idle], run[p].step \notin Held,
               FilesOK', UNCHANGED <<plans, listed, plock>>,
               \A i \in Plans : approvals[i] # "none" => approvals'[i] # "none"
        PROVE  (Threaded /\ Committed)'
    <2>1. Idle \in Runs /\ Idle.step = "none"
      BY IdleRun
    <2> QED
      BY <1>2, <1>4, <2>1
  \* The thread p goes on to step s.
  <1>5. ASSUME NEW p \in Procs, NEW s \in Steps, Goes(p, s), ~At(p, "none"),
               FilesOK', UNCHANGED plans, listed' = listed \/ (plock = p),
               \A i \in Plans : approvals[i] # "none" => approvals'[i] # "none",
               s \in {"classify", "link", "receipt"} =>
                 plans[run[p].plan] # Absent /\ approvals[run[p].plan] # "none",
               s = "receipt" => plans[run[p].plan].skills \subseteq listed',
               \/ plock' = plock /\ (s \in Held <=> run[p].step \in Held)
               \/ plock' = p /\ plock = Nobody /\ s \in Held
        PROVE  (Threaded /\ Committed)'
    <2>1. PICK r \in Runs : /\ run' = [run EXCEPT ![p] = r]
                            /\ r.step = s /\ r.plan = run[p].plan
      BY <1>5, GoesRun
    <2>2. run[p].plan \in Plans
      BY <1>5, <1>r
    <2> QED
      BY <1>2, <1>5, <2>1, <2>2
  <1>6. ASSUME NEW i \in Plans, NEW S \in Selections, Recommend(i, S)
        PROVE  (Threaded /\ Committed)'
    <2>1. PlanOf(S, {n \in S : Status(n, hub[n], SeenMode) = "create"}, ~registered) \in PlanFiles
      BY <1>t, SelectionsAssumption, NewPlan
    <2> QED
      BY <1>1, <1>6, <1>r, <1>t, <2>1 DEF Recommend, project
  <1>7. ASSUME NEW i \in Plans, Expire(i) PROVE (Threaded /\ Committed)'
    BY <1>1, <1>7, <1>r, <1>t DEF Expire, Event, project
  <1>8. ASSUME NEW p \in Procs, NEW i \in Plans, NEW k \in Keys \cup {Absent},
               NEW s \in Sources, Approve(p, i, k, s)
        PROVE  (Threaded /\ Committed)'
    <2> DEFINE r == [Idle EXCEPT !.step = "approval", !.plan = i, !.key = k, !.source = s]
    <2>1. r \in Runs /\ r.step = "approval" /\ r.plan = i
      BY DEF Idle, Runs, Steps
    <2>2. run[p].step = "none"
      BY <1>8, IdleRun DEF Approve
    <2>3. run' = [run EXCEPT ![p] = r] /\ UNCHANGED <<hub, project, files, plock, events>>
      BY <1>8 DEF Approve
    <2> HIDE DEF r
    <2> QED
      BY <1>2, <1>t, <2>1, <2>2, <2>3 DEF project, files
  <1>9. ASSUME NEW p \in Procs, NEW i \in Plans, NEW k \in Keys, Apply(p, i, k)
        PROVE  (Threaded /\ Committed)'
    <2> DEFINE r == [Idle EXCEPT !.step = "lock", !.plan = i, !.key = k, !.timely = i \notin expired]
    <2>1. r \in Runs /\ r.step = "lock" /\ r.plan = i
      BY DEF Idle, Runs, Steps
    <2>2. run[p].step = "none"
      BY <1>9, IdleRun DEF Apply
    <2>3. run' = [run EXCEPT ![p] = r] /\ UNCHANGED <<hub, project, files, plock, events>>
      BY <1>9 DEF Apply
    <2> HIDE DEF r
    <2> QED
      BY <1>2, <1>t, <2>1, <2>2, <2>3 DEF project, files
  \* The thread p has recorded its approval.
  <1>a. ASSUME NEW p \in Procs, AfterApproval(p), run[p].step \in {"approval", "rename"},
               FilesOK', UNCHANGED <<plans, listed, plock>>,
               \A i \in Plans : approvals[i] # "none" => approvals'[i] # "none"
        PROVE  (Threaded /\ Committed)'
    <2>1. CASE run' = [run EXCEPT ![p] = Idle]
      BY <1>4, <1>a, <2>1
    <2>2. CASE run' # [run EXCEPT ![p] = Idle]
      <3>1. PICK r \in Runs : /\ run' = [run EXCEPT ![p] = r]
                              /\ r.step = "lock" /\ r.plan = run[p].plan
        BY <1>a, <2>2, AfterRun
      <3>2. run[p].plan \in Plans
        BY <1>a, <1>r DEF At
      <3> QED
        BY <1>2, <1>a, <3>1, <3>2
    <2> QED
      BY <2>1, <2>2
  <1>10. ASSUME NEW p \in Procs, LoadApproval(p) PROVE (Threaded /\ Committed)'
    <2>1. /\ UNCHANGED <<hub, project, files, plock, events>> /\ run[p].step = "approval"
          /\ \/ Goes(p, "temp") \/ AfterApproval(p) \/ run' = [run EXCEPT ![p] = Idle]
      BY <1>10 DEF LoadApproval, At
    <2>2. FilesOK' /\ UNCHANGED <<plans, listed, approvals>>
      BY <1>t, <2>1 DEF project, files
    <2> QED
      BY <1>4, <1>5, <1>a, <2>1, <2>2 DEF At, Steps
  <1>11. ASSUME NEW p \in Procs, WriteTemp(p) PROVE (Threaded /\ Committed)'
    <2>1. /\ run[p].step = "temp" /\ Goes(p, "rename")
          /\ UNCHANGED <<plans, listed, approvals, plock>>
      BY <1>11 DEF WriteTemp, At, project
    <2>2. FilesOK'
      <3>1. run[p] \in Runs
        BY <1>r
      <3> QED
        BY <1>11, <1>t, <3>1 DEF WriteTemp, Runs, project
    <2> QED
      BY <1>5, <2>1, <2>2 DEF At, Steps
  <1>12. ASSUME NEW p \in Procs, RenameTemp(p) PROVE (Threaded /\ Committed)'
    <2>1. /\ run[p].step = "rename"
          /\ AfterApproval(p) \/ run' = [run EXCEPT ![p] = Idle]
          /\ UNCHANGED <<plans, listed, plock>>
      BY <1>12 DEF RenameTemp, At, project
    <2>2. /\ FilesOK'
          /\ \A i \in Plans : approvals[i] # "none" => approvals'[i] # "none"
      BY <1>12, <1>t DEF RenameTemp, project
    <2> QED
      BY <1>4, <1>a, <2>1, <2>2
  <1>13. ASSUME NEW p \in Procs, Lock(p) PROVE (Threaded /\ Committed)'
    <2>1. /\ run[p].step = "lock" /\ Goes(p, "check") /\ plock = Nobody /\ plock' = p
          /\ UNCHANGED <<hub, project, files, events>>
      BY <1>13 DEF Lock, At
    <2>2. FilesOK' /\ UNCHANGED <<plans, listed, approvals>>
      BY <1>t, <2>1 DEF project, files
    <2> QED
      BY <1>5, <2>1, <2>2 DEF At, Steps
  <1>14. ASSUME NEW p \in Procs, Check(p) PROVE (Threaded /\ Committed)'
    <2>1. FilesOK' /\ UNCHANGED <<plans, listed, approvals>> /\ run[p].step = "check"
      BY <1>14, <1>t DEF Check, At, files
    <2>2. CASE Applicable(p) /\ Goes(p, "classify") /\ UNCHANGED plock
      <3>1. plans[run[p].plan] # Absent /\ approvals[run[p].plan] # "none"
        BY <2>2 DEF Applicable
      <3> QED
        BY <1>5, <2>1, <2>2, <3>1 DEF At, Steps
    <2>3. CASE Return(p)
      BY <1>3, <2>1, <2>3
    <2> QED
      BY <1>14, <2>2, <2>3 DEF Check
  <1>15. ASSUME NEW p \in Procs, Classify(p) PROVE (Threaded /\ Committed)'
    <2>1. FilesOK' /\ UNCHANGED <<plans, listed, approvals>> /\ run[p].step = "classify"
      BY <1>15, <1>t DEF Classify, At, project, files
    <2>2. CASE Return(p)
      BY <1>3, <2>1, <2>2
    <2>3. CASE ~Return(p)
      <3>1. PICK T \in SUBSET plans[run[p].plan].skills :
              run' = [run EXCEPT ![p].step = "link", ![p].known = listed, ![p].todo = T]
              /\ plock' = plock
        BY <1>15, <2>3 DEF Classify
      <3>2. plans[run[p].plan] # Absent /\ approvals[run[p].plan] # "none"
            /\ run[p].plan \in Plans /\ run[p] \in Runs
        BY <1>c, <1>r, <2>1 DEF At
      <3>3. T \subseteq Skills
        BY <1>r, <3>1, <3>2, PlanSkills
      <3> DEFINE r == [run[p] EXCEPT !.step = "link", !.known = listed, !.todo = T]
      <3>4. r \in Runs /\ r.step = "link" /\ r.plan = run[p].plan
        BY <1>t, <3>2, <3>3 DEF Runs, Steps
      <3>5. run' = [run EXCEPT ![p] = r]
        BY <3>1
      <3> HIDE DEF r
      <3> QED
        BY <1>2, <2>1, <3>1, <3>2, <3>4, <3>5
    <2> QED
      BY <2>2, <2>3
  <1>16. ASSUME NEW p \in Procs, NEW n \in Skills, LinkNew(p, n) PROVE (Threaded /\ Committed)'
    <2>1. /\ FilesOK' /\ UNCHANGED <<plans, listed, approvals, plock>>
          /\ run[p].step = "link" /\ run[p] \in Runs
      BY <1>16, <1>r, <1>t DEF LinkNew, At, files, Free
    <2> DEFINE r == [run[p] EXCEPT !.todo = @ \ {n}, !.made = @ \cup {n}]
    <2>2. r \in Runs /\ r.step = "link" /\ r.plan = run[p].plan
      BY <2>1 DEF Runs
    <2>3. run' = [run EXCEPT ![p] = r]
      BY <1>16 DEF LinkNew
    <2>4. run[p].plan \in Plans
      BY <1>r, <2>1 DEF At
    <2> HIDE DEF r
    <2> QED
      BY <1>2, <1>c, <2>1, <2>2, <2>3, <2>4
  <1>17. ASSUME NEW p \in Procs, NEW n \in Skills, LinkFails(p, n) PROVE (Threaded /\ Committed)'
    <2>1. /\ FilesOK' /\ UNCHANGED <<plans, listed, approvals, plock>>
          /\ run[p].step = "link" /\ Goes(p, "undo")
      BY <1>17, <1>t DEF LinkFails, At, Event, NoEvent, project, files
    <2> QED
      BY <1>5, <2>1 DEF At, Steps
  <1>u. ASSUME NEW p \in Procs, NEW n \in Skills, UndoLink(p, n) PROVE (Threaded /\ Committed)'
    <2>1. /\ UNCHANGED <<plans, listed, approvals, plock>>
          /\ run[p].step = "undo" /\ run[p] \in Runs
      BY <1>u, <1>r DEF UndoLink, At, files
    <2>5. FilesOK'
      <3>1. strays' \subseteq Skills
        BY <1>u, <1>t, StraysTyped DEF UndoLink
      <3> QED
        BY <1>u, <1>t, <3>1 DEF UndoLink, Event, NoEvent, files, Free
    <2> DEFINE r == [run[p] EXCEPT !.made = @ \ {n}]
    <2>2. r \in Runs /\ r.step = "undo" /\ r.plan = run[p].plan
      BY <2>1 DEF Runs
    <2>3. run' = [run EXCEPT ![p] = r]
      BY <1>u DEF UndoLink
    <2>4. run[p].plan \in Plans
      BY <1>r, <2>1 DEF At
    <2> HIDE DEF r
    <2> QED
      BY <1>2, <2>1, <2>2, <2>3, <2>4, <2>5
  <1>v. ASSUME NEW p \in Procs, Undone(p) PROVE (Threaded /\ Committed)'
    BY <1>3, <1>v, <1>t DEF Undone, project, files
  <1>18. ASSUME NEW p \in Procs, SaveNames(p) PROVE (Threaded /\ Committed)'
    <2>1. /\ UNCHANGED <<hub, entry, registered, leaving, files>> /\ run[p].step = "link"
          /\ run[p].plan \in Plans /\ run[p] \in Runs /\ plock = p
      BY <1>18, <1>h, <1>r DEF SaveNames, At
    <2>2. plans[run[p].plan] \in PlanFiles /\ approvals[run[p].plan] # "none"
      BY <1>c, <1>r, <2>1
    <2>s. strays' \subseteq Skills
      BY <1>18, <1>t, <2>1, StraysTyped DEF SaveNames, Runs
    <2>3. CASE /\ listed' = run[p].known \cup plans[run[p].plan].skills /\ mode' = "link"
               /\ Goes(p, "receipt") /\ NoEvent /\ UNCHANGED plock
      <3>1. FilesOK'
        BY <1>t, <2>1, <2>2, <2>3, <2>s, PlanSkills DEF NoEvent, files, Runs
      <3> QED
        BY <1>5, <1>c, <2>1, <2>2, <2>3, <3>1 DEF At, Steps, files
    <2>4. CASE Event /\ Return(p) /\ UNCHANGED <<listed, mode>>
      <3>1. FilesOK'
        BY <1>t, <2>1, <2>4, <2>s DEF Event, files
      <3> QED
        BY <1>3, <2>1, <2>4, <3>1 DEF files
    <2> QED
      BY <1>18, <2>3, <2>4 DEF SaveNames
  <1>19. ASSUME NEW p \in Procs, WriteReceipt(p) PROVE (Threaded /\ Committed)'
    <2>1. /\ UNCHANGED <<plans, approvals, listed>> /\ Return(p) /\ run[p].plan \in Plans
      BY <1>19, <1>r DEF WriteReceipt, At, project
    <2>2. FilesOK'
      BY <1>19, <1>t, <2>1 DEF WriteReceipt, Event, NoEvent, project
    <2> QED
      BY <1>3, <2>1, <2>2
  <1>20. ASSUME NEW n \in Skills, HubChanges(n) \/ UserEdits(n) PROVE (Threaded /\ Committed)'
    <2>1. strays' \subseteq Skills
      BY <1>20, <1>t, StraysTyped DEF HubChanges, UserEdits, project
    <2> QED
      BY <1>1, <1>20, <1>r, <1>t, <2>1 DEF HubChanges, UserEdits, Event, project, files, Free
  <1>21. ASSUME NEW S \in Selections, NEW m \in {"link", "copy"}, ProjectSynced(S, m)
         PROVE  (Threaded /\ Committed)'
    <2>1. \A p \in Procs : ~At(p, "receipt")
      BY <1>21, <1>h, AbsentAssumption DEF ProjectSynced, At
    <2>2. strays' \subseteq Skills
      BY <1>21, <1>t, StraysTyped DEF ProjectSynced
    <2>3. FilesOK'
      BY <1>21, <1>t, <2>2, SelectionsAssumption DEF ProjectSynced, Event, files, Free
    <2> QED
      BY <1>1, <1>21, <1>r, <2>1, <2>3 DEF ProjectSynced, files
  <1>22. ASSUME NEW p \in Procs, Crash(p) PROVE (Threaded /\ Committed)'
    <2>1. strays' \subseteq Skills
      BY <1>22, <1>r, <1>t, StraysTyped DEF Crash, Runs
    <2> QED
      BY <1>3, <1>22, <1>t, <2>1 DEF Crash, Event, files
  <1>23. ASSUME RemoveProject PROVE (Threaded /\ Committed)'
    <2>1. FilesOK' /\ UNCHANGED <<plans, approvals, listed, plock, run>>
      <3>1. /\ registered' \in BOOLEAN /\ leaving' \in BOOLEAN /\ Event
            /\ UNCHANGED <<hub, entry, listed, mode, strays, files, plock, run>>
        BY <1>23, Zenon DEF RemoveProject
      <3> QED
        BY <1>t, <3>1 DEF Event, files
    <2> QED
      BY <1>1, <1>r, <2>1
  <1>24. ASSUME RemoveList PROVE (Threaded /\ Committed)'
    <2>1. strays' \subseteq Skills
      BY <1>24, <1>t, StraysTyped DEF RemoveList
    <2>2. FilesOK' /\ UNCHANGED <<plans, approvals, plock>>
      <3>1. leaving' \in BOOLEAN /\ UNCHANGED <<hub, entry, registered, files, plock>>
        BY <1>24 DEF RemoveList
      <3>2. \/ listed' = {} /\ mode' = "link" /\ NoEvent
            \/ Event /\ UNCHANGED <<listed, mode>>
        BY <1>24 DEF RemoveList
      <3> QED
        BY <1>t, <2>1, <3>1, <3>2 DEF Event, NoEvent, files
    <2>3. CASE UNCHANGED <<listed, run>>
      BY <1>1, <1>r, <2>2, <2>3
    <2>4. CASE run' = [p \in Procs |-> [run[p] EXCEPT !.cut = @ \/ At(p, "receipt")]]
      <3>1. ASSUME NEW p \in Procs
            PROVE  /\ run'[p] \in Runs /\ run'[p].step = run[p].step
                   /\ run'[p].plan = run[p].plan /\ run'[p].todo = run[p].todo
                   /\ run'[p].made = run[p].made /\ run'[p].known = run[p].known
                   /\ At(p, "receipt") => run'[p].cut
        <4> DEFINE b == run[p].cut \/ At(p, "receipt")
        <4>1. run'[p] = [run[p] EXCEPT !.cut = b] /\ run[p] \in Runs /\ b \in BOOLEAN
          BY <1>r, <2>4 DEF Runs, At
        <4>2. At(p, "receipt") => b = TRUE
          OBVIOUS
        <4> HIDE DEF b
        <4> QED
          BY <4>1, <4>2 DEF Runs
      <3>2. run' \in [Procs -> Runs]
        BY <2>4, <3>1
      <3>3. TypeOK'
        BY <1>r, <1>t, <2>2, <3>1 DEF TypeOK, Applying, At
      <3>4. Threaded'
        BY <1>r, <2>2, <3>1, <3>2, <3>3 DEF Threaded, At
      <3>5. Committed'
        BY <1>c, <2>2, <3>1 DEF Committed, At
      <3> QED
        BY <3>4, <3>5
    <2> QED
      BY <1>24, <2>3, <2>4 DEF RemoveList
  <1>25. CASE UNCHANGED vars
    BY <1>1, <1>25, <1>r, <1>t DEF vars, project, files
  <1> QED
    BY <1>6, <1>7, <1>8, <1>9, <1>10, <1>11, <1>12, <1>13, <1>14, <1>15, <1>16, <1>17, <1>u, <1>v,
       <1>18, <1>19, <1>20, <1>21, <1>22, <1>23, <1>24, <1>25 DEF Next

\* Both hold throughout.
LEMMA Invariance == Spec => [](Threaded /\ Committed)
  BY InitThreaded, StepThreaded, PTL DEF Spec

\* For any Skills, projects' contents, plans, keys and threads: the files stay
\* well-formed, and a thread holds the project lock exactly while it applies.
THEOREM TypeCorrect == Spec => []TypeOK
  <1>1. Threaded => TypeOK
    BY DEF Threaded
  <1> QED
    BY Invariance, <1>1, PTL

\* For any of them, too: a receipt is written only for a plan that is approved,
\* with every Skill of it in the list the apply saved, if that is still there.
THEOREM ReceiptsAreTrue == Spec => ReceiptIsTrue
  <1> DEFINE True(k) == (receipts[k] = Absent /\ receipts'[k] # Absent) =>
          /\ approvals[receipts'[k]] # "none"
          /\ \A p \in Procs : (At(p, "receipt") /\ run[p].key = k /\ ~run[p].cut) =>
                plans[receipts'[k]].skills \subseteq listed
  <1>1. ASSUME Threaded, Committed, [Next]_vars, NEW k \in Keys PROVE True(k)
    <2>1. CASE UNCHANGED receipts
      BY <2>1
    <2>2. ASSUME NEW p \in Procs, WriteReceipt(p) PROVE True(k)
      <3> SUFFICES ASSUME receipts[k] = Absent, receipts'[k] # Absent
                   PROVE  /\ approvals[receipts'[k]] # "none"
                          /\ \A q \in Procs : At(q, "receipt") /\ ~run[q].cut =>
                                plans[receipts'[k]].skills \subseteq listed
        OBVIOUS
      <3>1. At(p, "receipt") /\ receipts'[k] = run[p].plan
        BY <1>1, <2>2 DEF WriteReceipt, Threaded, TypeOK
      <3>2. \A q \in Procs : At(q, "receipt") => q = p
        BY <1>1, <3>1 DEF Threaded, TypeOK, Applying
      <3> QED
        BY <1>1, <3>1, <3>2 DEF Committed, At
    <2>3. CASE \E p \in Procs, i \in Plans, l \in Keys \cup {Absent}, s \in Sources :
                  Approve(p, i, l, s)
      BY <2>1, <2>3 DEF Approve, files
    <2>4. CASE \E p \in Procs : \/ LoadApproval(p) \/ WriteTemp(p) \/ RenameTemp(p)
                                 \/ Lock(p) \/ Check(p) \/ Classify(p) \/ Undone(p)
                                 \/ SaveNames(p) \/ Crash(p)
      BY <2>1, <2>4 DEF LoadApproval, WriteTemp, RenameTemp, Lock, Check, Classify,
         Undone, SaveNames, Crash, files
    <2>5. CASE \E p \in Procs, n \in Skills : LinkNew(p, n) \/ LinkFails(p, n) \/ UndoLink(p, n)
      BY <2>1, <2>5 DEF LinkNew, LinkFails, UndoLink, files
    <2>6. CASE UNCHANGED vars
      BY <2>1, <2>6 DEF vars, files
    <2> QED
      BY <1>1, <2>1, <2>2, <2>3, <2>4, <2>5, <2>6
      DEF Next, Recommend, Expire, Apply, HubChanges, UserEdits, ProjectSynced, RemoveProject,
          RemoveList, files
  <1>2. Threaded /\ Committed /\ [Next]_vars => [\A k \in Keys : True(k)]_vars
    BY <1>1
  <1> QED
    BY Invariance, <1>2, PTL DEF Spec, ReceiptIsTrue
-----------------------------------------------------------------------------
\* The links of a batch: before the linking there are none; while it lasts, they are
\* of the plan, and the list is still within what was loaded; in the end they are
\* listed, or given up.
Batched ==
    \A p \in Procs :
        /\ run[p].step \notin {"link", "undo", "receipt"} => run[p].made = {}
        /\ At(p, "link") => /\ run[p].made \cup run[p].todo \subseteq plans[run[p].plan].skills
                            /\ listed \subseteq run[p].known
        /\ At(p, "receipt") => \A n \in run[p].made :
                                  entry[n] = "link" => n \in listed \cup strays

Accounted == Batched /\ LinksAreListed

\* A step of one thread, and at most its own batch.
LEMMA ThreadAccounts ==
    ASSUME Threaded, Accounted, NEW p \in Procs,
           \A q \in Procs \ {p} : run'[q] = run[q], plans' = plans,
           UNCHANGED <<listed, entry>> \/ Applying(p),
           \A n \in listed \cup strays \cup (run[p].made \ run'[p].made) :
                entry'[n] = "link" => n \in listed' \cup strays',
           \A n \in Skills : entry'[n] = "link" => entry[n] = "link" \/ n \in run'[p].made,
           run'[p].step \notin {"link", "undo", "receipt"} => run'[p].made = {},
           run'[p].step = "link" =>
                /\ run'[p].made \cup run'[p].todo \subseteq plans[run'[p].plan].skills
                /\ listed' \subseteq run'[p].known,
           run'[p].step = "receipt" =>
                \A n \in run'[p].made : entry'[n] = "link" => n \in listed' \cup strays'
    PROVE  Accounted'
  <1>1. ASSUME NEW q \in Procs \ {p}, run[q].step \in {"link", "undo", "receipt"}
        PROVE  UNCHANGED <<listed, entry>>
    BY <1>1 DEF Threaded, TypeOK, Applying, At
  <1>2. Batched'
    <2> SUFFICES ASSUME NEW q \in Procs \ {p}
                 PROVE  /\ run'[q].step \notin {"link", "undo", "receipt"} => run'[q].made = {}
                        /\ run'[q].step = "link" =>
                             /\ run'[q].made \cup run'[q].todo \subseteq plans'[run'[q].plan].skills
                             /\ listed' \subseteq run'[q].known
                        /\ run'[q].step = "receipt" =>
                             \A n \in run'[q].made : entry'[n] = "link" => n \in listed' \cup strays'
      BY DEF Batched, At
    <2> QED
      BY <1>1 DEF Accounted, Batched, At
  <1>3. ASSUME NEW n \in Skills, entry'[n] = "link"
        PROVE  n \in listed' \cup strays' \/ \E q \in Procs : n \in run'[q].made
    <2>1. CASE n \in run'[p].made
      BY <2>1
    <2>2. CASE n \notin run'[p].made
      <3>1. n \in listed \cup strays \/ \E q \in Procs : n \in run[q].made
        BY <1>3, <2>2 DEF Accounted, LinksAreListed
      <3>2. CASE \E q \in Procs \ {p} : n \in run[q].made
        BY <3>2
      <3> QED
        BY <1>3, <2>2, <3>1, <3>2
    <2> QED
      BY <2>1, <2>2
  <1> QED
    BY <1>2, <1>3 DEF Accounted, LinksAreListed

\* A step that leaves the threads' batches: whatever is still a link is listed, a
\* stray or in a batch, as it was.
LEMMA OutsideAccounts ==
    ASSUME Threaded, Accounted, Committed,
           \A q \in Procs : /\ run'[q].step = run[q].step /\ run'[q].made = run[q].made
                            /\ run'[q].todo = run[q].todo /\ run'[q].known = run[q].known
                            /\ run'[q].plan = run[q].plan,
           \A i \in Plans : plans[i] # Absent => plans'[i] = plans[i],
           \A q \in Procs : run[q].step = "link" => listed' \subseteq listed,
           \A n \in Skills : entry'[n] = "link" => entry[n] = "link" \/ n \in listed' \cup strays',
           \A n \in listed \cup strays : entry'[n] = "link" => n \in listed' \cup strays'
    PROVE  Accounted'
  <1>1. Batched'
    <2> SUFFICES ASSUME NEW q \in Procs
                 PROVE  /\ run'[q].step \notin {"link", "undo", "receipt"} => run'[q].made = {}
                        /\ run'[q].step = "link" =>
                             /\ run'[q].made \cup run'[q].todo \subseteq plans'[run'[q].plan].skills
                             /\ listed' \subseteq run'[q].known
                        /\ run'[q].step = "receipt" =>
                             \A n \in run'[q].made : entry'[n] = "link" => n \in listed' \cup strays'
      BY DEF Batched, At
    <2>1. run[q].made \subseteq Skills
      BY DEF Threaded, TypeOK
    <2>2. run[q].step = "link" => plans'[run[q].plan] = plans[run[q].plan]
      BY DEF Committed, Threaded, At
    <2> QED
      BY <2>1, <2>2 DEF Accounted, Batched, At
  <1>2. LinksAreListed'
    BY DEF Accounted, LinksAreListed
  <1> QED
    BY <1>1, <1>2 DEF Accounted

LEMMA InitAccounted == Init => Accounted
  BY IdleRun DEF Init, Accounted, Batched, LinksAreListed, At

\* Every step accounts for the links.
LEMMA StepAccounted == Threaded /\ Committed /\ Accounted /\ [Next]_vars => Accounted'
  <1> SUFFICES ASSUME Threaded, Committed, Accounted, [Next]_vars PROVE Accounted'
    OBVIOUS
  <1>t. /\ run \in [Procs -> Runs] /\ entry \in [Skills -> Free] /\ listed \subseteq Skills
        /\ \A p \in Procs : run[p].made \cup run[p].todo \subseteq Skills
        /\ \A p \in Procs : run[p].step \notin {"link", "undo", "receipt"} => run[p].made = {}
    BY DEF Threaded, TypeOK, Accounted, Batched
  \* A step of the thread p before it links, or that takes it to rest without a batch.
  <1>1. ASSUME NEW p \in Procs, NEW r, run' = [run EXCEPT ![p] = r], r.made = {},
               run[p].step \notin {"link", "undo", "receipt"},
               r.step \notin {"link", "undo", "receipt"},
               UNCHANGED <<entry, listed, strays, plans>>
        PROVE  Accounted'
    <2>1. run'[p] = r /\ \A q \in Procs \ {p} : run'[q] = run[q]
      BY <1>1, <1>t
    <2> QED
      BY <1>1, <1>t, <2>1, ThreadAccounts
  <1>2. ASSUME NEW p \in Procs, NEW s, Goes(p, s), run[p].made = {},
               run[p].step \notin {"link", "undo", "receipt"},
               s \notin {"link", "undo", "receipt"},
               UNCHANGED <<entry, listed, strays, plans>>
        PROVE  Accounted'
    <2>1. /\ run'[p].made = {} /\ run'[p].step = s
          /\ \A q \in Procs \ {p} : run'[q] = run[q]
      BY <1>2, <1>t DEF Goes, Runs
    <2> QED
      BY <1>2, <1>t, <2>1, ThreadAccounts
  \* The thread p returns, and gives its batch up where it has not been listed.
  <1>3. ASSUME NEW p \in Procs, run' = [run EXCEPT ![p] = Idle], UNCHANGED <<entry, listed, plans>>,
               \/ strays' = strays /\ (run[p].made = {} \/ At(p, "receipt"))
               \/ Strand(run[p].made)
        PROVE  Accounted'
    <2>1. /\ run'[p].made = {} /\ run'[p].step = "none"
          /\ \A q \in Procs \ {p} : run'[q] = run[q]
      BY <1>3, <1>t, IdleRun
    <2>2. \A n \in listed \cup strays \cup run[p].made :
             entry'[n] = "link" => n \in listed' \cup strays'
      BY <1>3 DEF Strand, Accounted, Batched
    <2> QED
      BY <1>3, <1>t, <2>1, <2>2, ThreadAccounts
  <1>a. ASSUME NEW p \in Procs, AfterApproval(p), run[p].step \in {"approval", "rename"},
               UNCHANGED <<entry, listed, strays, plans>>
        PROVE  Accounted'
    <2>1. CASE run' = [run EXCEPT ![p] = Idle]
      BY <1>3, <1>a, <1>t, <2>1
    <2>2. CASE run' # [run EXCEPT ![p] = Idle]
      <3> DEFINE r == [run[p] EXCEPT !.step = "lock", !.timely = run[p].plan \notin expired]
      <3>1. run' = [run EXCEPT ![p] = r]
        BY <1>a, <2>2 DEF AfterApproval
      <3>2. r.made = {} /\ r.step = "lock"
        BY <1>a, <1>t DEF Runs
      <3> HIDE DEF r
      <3> QED
        BY <1>1, <1>a, <3>1, <3>2
    <2> QED
      BY <2>1, <2>2
  <1>4. ASSUME NEW i \in Plans, (\E S \in Selections : Recommend(i, S)) \/ Expire(i)
        PROVE  Accounted'
    <2>1. /\ UNCHANGED <<run, entry, listed, strays>>
          /\ \A j \in Plans : plans[j] # Absent => plans'[j] = plans[j]
      BY <1>4 DEF Recommend, Expire, project, Threaded
    <2> QED
      BY <2>1, OutsideAccounts
  <1>5. ASSUME NEW p \in Procs, NEW i \in Plans, NEW k \in Keys \cup {Absent}, NEW s \in Sources,
               Approve(p, i, k, s)
        PROVE  Accounted'
    <2> DEFINE r == [Idle EXCEPT !.step = "approval", !.plan = i, !.key = k, !.source = s]
    <2>1. r.made = {} /\ r.step = "approval"
      BY DEF Idle
    <2>2. run[p].step = "none" /\ run' = [run EXCEPT ![p] = r]
          /\ UNCHANGED <<entry, listed, strays, plans>>
      BY <1>5, IdleRun DEF Approve, project, files
    <2> HIDE DEF r
    <2> QED
      BY <1>1, <2>1, <2>2
  <1>6. ASSUME NEW p \in Procs, NEW i \in Plans, NEW k \in Keys, Apply(p, i, k) PROVE Accounted'
    <2> DEFINE r == [Idle EXCEPT !.step = "lock", !.plan = i, !.key = k, !.timely = i \notin expired]
    <2>1. r.made = {} /\ r.step = "lock"
      BY DEF Idle
    <2>2. run[p].step = "none" /\ run' = [run EXCEPT ![p] = r]
          /\ UNCHANGED <<entry, listed, strays, plans>>
      BY <1>6, IdleRun DEF Apply, project, files
    <2> HIDE DEF r
    <2> QED
      BY <1>1, <2>1, <2>2
  <1>7. ASSUME NEW p \in Procs, LoadApproval(p) \/ WriteTemp(p) \/ RenameTemp(p) \/ Lock(p)
        PROVE  Accounted'
    <2>1. /\ UNCHANGED <<entry, listed, strays, plans>>
          /\ run[p].step \in {"approval", "temp", "rename", "lock"} /\ run[p].made = {}
          /\ \/ \E s \in {"temp", "rename", "check"} : Goes(p, s)
             \/ run[p].step \in {"approval", "rename"} /\ AfterApproval(p)
             \/ run' = [run EXCEPT ![p] = Idle]
      BY <1>7, <1>t DEF LoadApproval, WriteTemp, RenameTemp, Lock, At, project, files
    <2> QED
      BY <1>2, <1>3, <1>a, <2>1
  <1>8. ASSUME NEW p \in Procs, Check(p) PROVE Accounted'
    <2>1. /\ UNCHANGED <<entry, listed, strays, plans>> /\ run[p].made = {}
          /\ run[p].step = "check" /\ (Goes(p, "classify") \/ run' = [run EXCEPT ![p] = Idle])
      BY <1>8, <1>t DEF Check, At, Return, files
    <2> QED
      BY <1>2, <1>3, <2>1
  <1>9. ASSUME NEW p \in Procs, Classify(p) PROVE Accounted'
    <2>1. /\ UNCHANGED <<entry, listed, strays, plans>> /\ run[p].made = {}
          /\ run[p].step = "classify"
      BY <1>9, <1>t DEF Classify, At, project, files
    <2>2. CASE Return(p)
      BY <1>3, <2>1, <2>2 DEF Return
    <2>3. CASE ~Return(p)
      <3>1. PICK T \in SUBSET plans[run[p].plan].skills :
              run' = [run EXCEPT ![p].step = "link", ![p].known = listed, ![p].todo = T]
        BY <1>9, <2>3 DEF Classify
      <3> DEFINE r == [run[p] EXCEPT !.step = "link", !.known = listed, !.todo = T]
      <3>2. run' = [run EXCEPT ![p] = r] /\ run[p] \in Runs
        BY <1>t, <3>1
      <3>3. /\ r.made = {} /\ r.step = "link" /\ r.known = listed /\ r.todo = T
            /\ r.plan = run[p].plan
        BY <2>1, <3>2 DEF Runs
      <3> HIDE DEF r
      <3>4. run'[p] = r /\ \A q \in Procs \ {p} : run'[q] = run[q]
        BY <1>t, <3>2
      <3> QED
        BY <2>1, <3>1, <3>3, <3>4, ThreadAccounts
    <2> QED
      BY <2>2, <2>3
  <1>10. ASSUME NEW p \in Procs, NEW n \in Skills, LinkNew(p, n) PROVE Accounted'
    <2>1. /\ UNCHANGED <<listed, strays, plans>> /\ Applying(p) /\ n \in run[p].todo
          /\ run[p].step = "link" /\ entry' = [entry EXCEPT ![n] = "link"] /\ run[p] \in Runs
      BY <1>10, <1>t DEF LinkNew, At, Applying, files
    <2> DEFINE r == [run[p] EXCEPT !.todo = @ \ {n}, !.made = @ \cup {n}]
    <2>2. run' = [run EXCEPT ![p] = r]
      BY <1>10 DEF LinkNew
    <2>3. /\ r.made = run[p].made \cup {n} /\ r.todo = run[p].todo \ {n} /\ r.step = "link"
          /\ r.plan = run[p].plan /\ r.known = run[p].known
      BY <2>1 DEF Runs
    <2> HIDE DEF r
    <2>4. run'[p] = r /\ \A q \in Procs \ {p} : run'[q] = run[q]
      BY <1>t, <2>2
    <2>5. run[p].made \cup run[p].todo \subseteq plans[run[p].plan].skills /\ listed \subseteq run[p].known
      BY <2>1 DEF Accounted, Batched, At
    <2> QED
      BY <1>t, <2>1, <2>3, <2>4, <2>5, ThreadAccounts
  <1>11. ASSUME NEW p \in Procs, NEW n \in Skills, LinkFails(p, n) PROVE Accounted'
    <2>1. /\ UNCHANGED <<entry, listed, strays, plans>> /\ run'[p].step = "undo"
          /\ run'[p].made = run[p].made /\ \A q \in Procs \ {p} : run'[q] = run[q]
      BY <1>11, <1>t DEF LinkFails, Goes, Runs, project, files
    <2> QED
      BY <2>1, ThreadAccounts
  <1>12. ASSUME NEW p \in Procs, NEW n \in Skills, UndoLink(p, n) PROVE Accounted'
    <2>1. /\ UNCHANGED <<listed, plans>> /\ Applying(p) /\ run[p].step = "undo" /\ Strand({n})
          /\ entry' = [entry EXCEPT ![n] = IF @ = "link" THEN "missing" ELSE @] \/ entry' = entry
      BY <1>12 DEF UndoLink, At, Applying, files
    <2>2. /\ run'[p].made = run[p].made \ {n} /\ run'[p].step = "undo"
          /\ \A q \in Procs \ {p} : run'[q] = run[q]
      BY <1>12, <1>t DEF UndoLink, Runs, At
    <2>3. \A m \in Skills : entry'[m] = "link" => entry[m] = "link"
      BY <1>t, <2>1
    <2>4. \A m \in listed \cup strays \cup (run[p].made \ run'[p].made) :
             entry'[m] = "link" => m \in listed' \cup strays'
      BY <2>1, <2>2 DEF Strand
    <2> QED
      BY <2>1, <2>2, <2>3, <2>4, ThreadAccounts
  <1>13. ASSUME NEW p \in Procs, Undone(p) PROVE Accounted'
    BY <1>3, <1>13 DEF Undone, Return, project, files
  <1>14. ASSUME NEW p \in Procs, SaveNames(p) PROVE Accounted'
    <2>1. /\ UNCHANGED <<entry, plans>> /\ Applying(p) /\ run[p].step = "link"
          /\ Strand(run[p].made)
      BY <1>14 DEF SaveNames, At, Applying, files
    <2>2. CASE Return(p) /\ UNCHANGED listed
      BY <1>3, <2>1, <2>2 DEF Return
    <2>3. CASE listed' = run[p].known \cup plans[run[p].plan].skills /\ Goes(p, "receipt")
      <3>1. /\ run'[p].made = run[p].made /\ run'[p].step = "receipt"
            /\ \A q \in Procs \ {p} : run'[q] = run[q]
        BY <1>t, <2>3 DEF Goes, Runs
      <3>2. listed \cup run[p].made \subseteq listed'
        BY <2>1, <2>3 DEF Accounted, Batched, At
      <3>3. \A n \in listed \cup strays : entry'[n] = "link" => n \in listed' \cup strays'
        BY <2>1, <3>2 DEF Strand
      <3> QED
        BY <2>1, <3>1, <3>2, <3>3, ThreadAccounts
    <2> QED
      BY <1>14, <2>2, <2>3 DEF SaveNames
  <1>15. ASSUME NEW p \in Procs, WriteReceipt(p) PROVE Accounted'
    BY <1>3, <1>15 DEF WriteReceipt, Return, project
  <1>16. ASSUME NEW p \in Procs, Crash(p) PROVE Accounted'
    BY <1>3, <1>16 DEF Crash, Return, files
  <1>17. ASSUME NEW n \in Skills, HubChanges(n) \/ UserEdits(n) PROVE Accounted'
    <2>1. /\ UNCHANGED <<run, plans, listed>>
          /\ \A m \in Skills : entry'[m] = "link" => entry[m] = "link"
          /\ UNCHANGED strays \/ Strand({})
      BY <1>17, <1>t DEF HubChanges, UserEdits, project, files
    <2>2. \A m \in listed \cup strays : entry'[m] = "link" => m \in listed' \cup strays'
      BY <2>1 DEF Strand
    <2> QED
      BY <2>1, <2>2, OutsideAccounts
  <1>18. ASSUME NEW S \in Selections, NEW m \in {"link", "copy"}, ProjectSynced(S, m)
         PROVE  Accounted'
    <2>1. /\ UNCHANGED <<run, plans>> /\ listed' = S /\ Strand({}) /\ S \subseteq Skills
          /\ \A q \in Procs : run[q].step \notin {"link", "undo", "receipt"}
      BY <1>18, AbsentAssumption, SelectionsAssumption
         DEF ProjectSynced, files, Threaded, TypeOK, Applying, At
    <2>2. CASE S \cup listed = {} /\ UNCHANGED entry
      <3>1. \A n \in strays : entry'[n] = "link" => n \in listed' \cup strays'
        BY <2>1 DEF Strand
      <3> QED
        BY <2>1, <2>2, <3>1, OutsideAccounts
    <2>3. CASE \A n \in Skills : entry'[n] = "link" => n \in S
      <3>1. strays \cup listed \subseteq Skills
        BY DEF Threaded, TypeOK
      <3> QED
        BY <2>1, <2>3, <3>1, OutsideAccounts
    <2> QED
      BY <1>18, <2>2, <2>3 DEF ProjectSynced
  <1>19. ASSUME RemoveProject PROVE Accounted'
    BY <1>19, OutsideAccounts DEF RemoveProject, files
  <1>20. ASSUME RemoveList PROVE Accounted'
    <2>1. /\ UNCHANGED <<entry, plans>> /\ listed' \subseteq listed /\ Strand(listed \ listed')
      BY <1>20 DEF RemoveList, files
    <2>2. ASSUME NEW q \in Procs
          PROVE  /\ run'[q].step = run[q].step /\ run'[q].made = run[q].made
                 /\ run'[q].todo = run[q].todo /\ run'[q].known = run[q].known
                 /\ run'[q].plan = run[q].plan
      <3>1. CASE run' = run
        BY <3>1
      <3>2. CASE run' = [p \in Procs |-> [run[p] EXCEPT !.cut = @ \/ At(p, "receipt")]]
        <4>1. run[q] \in Runs
          BY <1>t
        <4> QED
          BY <3>2, <4>1 DEF Runs
      <3> QED
        BY <1>20, <3>1, <3>2 DEF RemoveList
    <2>3. \A n \in listed \cup strays : entry'[n] = "link" => n \in listed' \cup strays'
      BY <2>1 DEF Strand
    <2> QED
      BY <2>1, <2>2, <2>3, OutsideAccounts
  <1>21. CASE UNCHANGED vars
    BY <1>21, OutsideAccounts DEF vars, project, files
  <1> QED
    BY <1>4, <1>5, <1>6, <1>7, <1>8, <1>9, <1>10, <1>11, <1>12, <1>13, <1>14, <1>15, <1>16, <1>17,
       <1>18, <1>19, <1>20, <1>21 DEF Next

\* And whatever fails, dies or is edited, a link the list does not name is one that
\* an apply has in hand, or one that was given up.
THEOREM NoLinkIsForgotten == Spec => []LinksAreListed
  <1>1. Accounted => LinksAreListed
    BY DEF Accounted
  <1> QED
    BY Invariance, InitAccounted, StepAccounted, <1>1, PTL DEF Spec
=============================================================================
