----------------------------- MODULE ImportProofs -----------------------------
(***************************************************************************)
(* Proofs about Import, for any threads, files, names and number of runs.  *)
(***************************************************************************)
EXTENDS Import, TLAPS, SequenceTheorems

\* The module that runs innermost in t.
LastModule(t) == ran[Last(chain[t])]

\* What the stages say of the locals.
Stationed(t) ==
  /\ \A i \in DOMAIN chain[t] : chain[t][i] \in DOMAIN ran
  /\ stage[t] \in {"found", "missed", "new", "marked", "dropped"} => target[t] \in Files
  /\ stage[t] \in {"publish", "unmark"} => chain[t] # <<>>
  /\ stage[t] = "publish" => ~failed[t]

Stations == \A t \in Threads : Stationed(t)

\* The types, and what TypeOK leaves open.
TypeInv == TypeOK /\ Stations

USE ImportAssumption DEF tables, locals

\* The types hold when the program begins.
LEMMA InitTypes == Init => TypeInv
  BY DEF Init, TypeInv, TypeOK, Stations, Stationed, Stages

\* What a sequence of scopes keeps when the last one is taken off.
LEMMA FrontType ==
  \A s \in Seq(1 .. MaxRuns) :
    s # <<>> =>
      /\ Front(s) \in Seq(1 .. MaxRuns)
      /\ Last(s) \in 1 .. MaxRuns
      /\ Len(s) \in DOMAIN s /\ Last(s) = s[Len(s)]
      /\ \A i \in DOMAIN Front(s) : i \in DOMAIN s \ {Len(s)} /\ Front(s)[i] = s[i]
      /\ \A i \in DOMAIN s \ {Len(s)} : i \in DOMAIN Front(s)
  BY DEF Front, Last

\* Every step keeps the types.
LEMMA StepTypes == TypeInv /\ [Next]_vars => TypeInv'
<1> SUFFICES ASSUME TypeInv, [Next]_vars PROVE TypeInv'
  OBVIOUS
<1> USE DEF TypeInv, TypeOK, Stations, Stationed, Stages, Step
<1>1. ASSUME NEW t \in Threads, Start(t) PROVE TypeInv'
  BY <1>1 DEF Start
<1>2. ASSUME NEW t \in Threads, Find(t) PROVE TypeInv'
  BY <1>2 DEF Find
<1>3. ASSUME NEW t \in Threads, FindNothing(t) PROVE TypeInv'
  BY <1>3 DEF FindNothing
<1>4. ASSUME NEW t \in Threads, LookupHit(t) PROVE TypeInv'
  <2>1. target[t] \in Files /\ imported[target[t]] \in 1 .. MaxRuns
    BY <1>4 DEF LookupHit
  <2> QED BY <1>4, <2>1 DEF LookupHit
<1>5. ASSUME NEW t \in Threads, LookupMiss(t) PROVE TypeInv'
  BY <1>5 DEF LookupMiss
<1>6. ASSUME NEW t \in Threads, Refuse(t) PROVE TypeInv'
  BY <1>6 DEF Refuse
<1>7. ASSUME NEW t \in Threads, Accept(t) PROVE TypeInv'
  BY <1>7 DEF Accept
<1>8. ASSUME NEW t \in Threads, Mark(t) PROVE TypeInv'
  BY <1>8 DEF Mark
<1>9. ASSUME NEW t \in Threads, Load(t) PROVE TypeInv'
  <2>1. Len(ran) + 1 \in 1 .. MaxRuns /\ target[t] \in Files
    BY <1>9 DEF Load
  <2>2. /\ ran' \in Seq(Files) /\ Len(ran') = Len(ran) + 1
        /\ Append(chain[t], Len(ran) + 1) \in Seq(1 .. MaxRuns)
    BY <1>9, <2>1 DEF Load
  <2>3. TypeOK'
    BY <1>9, <2>1, <2>2 DEF Load
  <2>4. /\ chain'[t] = Append(chain[t], Len(ran) + 1) /\ stage'[t] = "run"
        /\ DOMAIN ran' = DOMAIN ran \cup {Len(ran) + 1}
    BY <1>9, <2>1 DEF Load
  <2>5. Stationed(t)'
    <3>1. \A i \in DOMAIN chain'[t] :
            \/ i \in DOMAIN chain[t] /\ chain'[t][i] = chain[t][i]
            \/ chain'[t][i] = Len(ran) + 1
      BY <2>4
    <3> QED BY <2>4, <3>1
  <2>6. ASSUME NEW u \in Threads \ {t} PROVE Stationed(u)'
    BY <1>9, <2>4 DEF Load
  <2> QED BY <2>3, <2>5, <2>6
<1>10. ASSUME NEW t \in Threads, Catch(t) PROVE TypeInv'
  BY <1>10 DEF Catch
<1>11. ASSUME NEW t \in Threads, ModuleEnds(t) PROVE TypeInv'
  BY <1>11 DEF ModuleEnds
<1>12. ASSUME NEW t \in Threads, Publish(t) PROVE TypeInv'
  BY <1>12, FrontType DEF Publish
<1>13. ASSUME NEW t \in Threads, Unmark(t) PROVE TypeInv'
  <2>1. Front(chain[t]) \in Seq(1 .. MaxRuns) /\ Last(chain[t]) \in 1 .. MaxRuns
    BY <1>13, FrontType DEF Unmark
  <2>2. TypeOK'
    BY <1>13, <2>1 DEF Unmark
  <2>3. ASSUME NEW u \in Threads \ {t} PROVE Stationed(u)'
    BY <1>13 DEF Unmark
  <2>4. chain'[t] = Front(chain[t]) /\ stage'[t] \in {"over", "run"}
    BY <1>13 DEF Unmark
  <2>5. chain[t] \in Seq(1 .. MaxRuns) /\ chain[t] # <<>> /\ Stationed(t) /\ ran' = ran
    BY <1>13 DEF Unmark
  <2>6. \A i \in DOMAIN chain'[t] : i \in DOMAIN chain[t] /\ chain'[t][i] = chain[t][i]
    <3>1. \A i \in DOMAIN Front(chain[t]) :
            i \in DOMAIN chain[t] /\ Front(chain[t])[i] = chain[t][i]
      BY <2>5, FrontType
    <3> QED BY <3>1, <2>4
  <2>7. Stationed(t)'
    BY <2>4, <2>5, <2>6
  <2> QED BY <2>2, <2>3, <2>7
<1>14. ASSUME NEW t \in Threads, Give_up(t) PROVE TypeInv'
  BY <1>14 DEF Give_up
<1>15. ASSUME NEW t \in Threads, LoadFails(t) PROVE TypeInv'
  BY <1>15 DEF LoadFails
<1>16. ASSUME NEW t \in Threads, Drop(t) PROVE TypeInv'
  BY <1>16 DEF Drop
<1>17. CASE UNCHANGED vars
  BY <1>17 DEF vars
<1> QED
  BY <1>1, <1>2, <1>3, <1>4, <1>5, <1>6, <1>7, <1>8, <1>9, <1>10, <1>11, <1>12,
     <1>13, <1>14, <1>15, <1>16, <1>17 DEF Next, Import

-------------------------------------------------------------------------------
\* The marks are the modules that threads are in, from the mark to its removal: no
\* failure leaves one behind, none is taken away too early.
MarkedBut ==
  \A f \in Files \ raced :
    f \in importing <=>
      \E t \in Threads :
        f \in Chain(t) \/ (stage[t] \in {"marked", "dropped"} /\ target[t] = f)

\* A module that no two threads were in at once has one thread in it.
Alone ==
  \A t, u \in Threads : \A f \in In(t) \cap In(u) : t = u \/ f \in raced

\* A thread is in no module twice.
Once ==
  \A t \in Threads : \A i, j \in DOMAIN chain[t] :
    ran[chain[t][i]] = ran[chain[t][j]] => i = j \/ ran[chain[t][i]] \in raced

\* What a thread is about to mark, load or drop it is not yet in.
New ==
  \A t \in Threads :
    stage[t] \in {"new", "marked", "dropped"} => target[t] \notin Chain(t) \/ target[t] \in raced

\* The table has scopes of the module they are entered for, and all that were given.
Tabled ==
  /\ \A f \in Files : imported[f] # 0 => imported[f] \in DOMAIN ran /\ ran[imported[f]] = f
  /\ \A s \in got : s \in DOMAIN ran /\ (ran[s] \in raced \/ imported[ran[s]] = s)

\* A module that a thread is in is not in the table, until it has ended well.
InMeansNew ==
  \A t \in Threads : \A f \in In(t) \ raced :
    imported[f] # 0 => stage[t] = "unmark" /\ ~failed[t] /\ f = LastModule(t)

\* A module that has ended well is in the table.
EndedIsTabled ==
  \A t \in Threads :
    stage[t] = "unmark" /\ ~failed[t] =>
      LastModule(t) \in raced \/ imported[LastModule(t)] = Last(chain[t])

\* The inductive invariant.
IInv ==
  /\ TypeInv
  /\ MarkedBut /\ Alone /\ Once /\ New /\ Tabled /\ InMeansNew /\ EndedIsTabled

\* The inductive invariant holds before anything is imported.
LEMMA InitIInv == Init => IInv
<1> SUFFICES ASSUME Init PROVE IInv
  OBVIOUS
<1>1. \A t \in Threads : Chain(t) = {} /\ In(t) = {}
  BY DEF Init, Chain, In
<1>2. TypeInv
  BY InitTypes
<1>3. Once
  BY DEF Init, Once
<1> QED
  BY <1>1, <1>2, <1>3 DEF Init, IInv, MarkedBut, Alone, New, Tabled, InMeansNew, EndedIsTabled

\* The modules a thread is in are files that were found.
LEMMA ChainIn ==
  ASSUME TypeInv, NEW t \in Threads
  PROVE  /\ Chain(t) \subseteq Files
         /\ chain[t] # <<>> => LastModule(t) \in Chain(t) /\ Last(chain[t]) \in DOMAIN ran
<1> USE DEF TypeInv, TypeOK, Stations, Stationed
<1>1. \A i \in DOMAIN chain[t] : chain[t][i] \in DOMAIN ran /\ ran[chain[t][i]] \in Files
  OBVIOUS
<1>2. Chain(t) = {ran[chain[t][i]] : i \in DOMAIN chain[t]}
  BY DEF Chain
<1>3. chain[t] # <<>> => Len(chain[t]) \in DOMAIN chain[t] /\ Last(chain[t]) = chain[t][Len(chain[t])]
  BY FrontType
<1> QED
  BY <1>1, <1>2, <1>3 DEF LastModule

\* A step that loads and ends nothing leaves every thread where it is.
LEMMA ChainSame ==
  ASSUME UNCHANGED <<ran, chain>>, NEW t \in Threads
  PROVE  Chain(t)' = Chain(t) /\ LastModule(t)' = LastModule(t)
  BY DEF Chain, LastModule

\* A load adds the module found to those its thread is in.
LEMMA ChainPush ==
  ASSUME TypeInv, NEW t \in Threads, Load(t)
  PROVE  /\ Chain(t)' = Chain(t) \cup {target[t]}
         /\ \A u \in Threads \ {t} :
              Chain(u)' = Chain(u) /\ (chain[u] # <<>> => LastModule(u)' = LastModule(u))
         /\ LastModule(t)' = target[t]
         /\ DOMAIN chain'[t] = DOMAIN chain[t] \cup {Len(chain[t]) + 1}
         /\ \A i \in DOMAIN chain[t] : chain'[t][i] = chain[t][i]
         /\ chain'[t][Len(chain[t]) + 1] = Len(ran) + 1
<1> USE DEF TypeInv, TypeOK, Stations, Stationed
<1>1. /\ chain' = [chain EXCEPT ![t] = Append(@, Len(ran) + 1)]
      /\ ran' = Append(ran, target[t])
      /\ \A s \in DOMAIN ran : ran'[s] = ran[s]
      /\ ran'[Len(ran) + 1] = target[t]
  BY DEF Load, Step
<1>2. ASSUME NEW u \in Threads
      PROVE  /\ Chain(u) = {ran[chain[u][i]] : i \in DOMAIN chain[u]}
             /\ Chain(u)' = {ran'[chain'[u][i]] : i \in DOMAIN chain'[u]}
             /\ \A i \in DOMAIN chain[u] : ran'[chain[u][i]] = ran[chain[u][i]]
  <2>1. \A i \in DOMAIN chain[u] : chain[u][i] \in DOMAIN ran
    OBVIOUS
  <2>2. \A i \in DOMAIN chain[u] : ran'[chain[u][i]] = ran[chain[u][i]]
    BY <1>1, <2>1
  <2> QED BY <2>2 DEF Chain
<1>3. /\ DOMAIN chain'[t] = DOMAIN chain[t] \cup {Len(chain[t]) + 1}
      /\ \A i \in DOMAIN chain[t] : chain'[t][i] = chain[t][i]
      /\ chain'[t][Len(chain[t]) + 1] = Len(ran) + 1
      /\ Last(chain'[t]) = Len(ran) + 1
  BY <1>1 DEF Last
<1>4. Chain(t)' = Chain(t) \cup {target[t]}
  <2> HIDE DEF TypeInv, TypeOK, Stations, Stationed
  <2>1. Len(chain[t]) + 1 \in DOMAIN chain'[t]
    BY <1>3
  <2>2. target[t] \in Chain(t)'
    BY <1>1, <1>2, <1>3, <2>1
  <2>3. ASSUME NEW i \in DOMAIN chain[t] PROVE ran[chain[t][i]] \in Chain(t)'
    BY <1>2, <1>3
  <2>4. ASSUME NEW i \in DOMAIN chain'[t] PROVE ran'[chain'[t][i]] \in Chain(t) \cup {target[t]}
    <3>1. CASE i \in DOMAIN chain[t]
      BY <3>1, <1>2, <1>3
    <3>2. CASE i = Len(chain[t]) + 1
      BY <3>2, <1>1, <1>3
    <3> QED BY <3>1, <3>2, <1>3
  <2> QED BY <1>2, <2>2, <2>3, <2>4
<1>5. ASSUME NEW u \in Threads \ {t}
      PROVE  Chain(u)' = Chain(u) /\ (chain[u] # <<>> => LastModule(u)' = LastModule(u))
  <2>1. chain'[u] = chain[u]
    BY <1>1
  <2>2. Chain(u)' = Chain(u)
    <3> HIDE DEF TypeInv, TypeOK, Stations, Stationed
    <3>1. /\ Chain(u) = {ran[chain[u][i]] : i \in DOMAIN chain[u]}
          /\ Chain(u)' = {ran'[chain[u][i]] : i \in DOMAIN chain[u]}
          /\ \A i \in DOMAIN chain[u] : ran'[chain[u][i]] = ran[chain[u][i]]
      BY <2>1, <1>2
    <3> QED BY <3>1
  <2>3. chain[u] # <<>> => Last(chain[u]) \in DOMAIN ran
    BY ChainIn
  <2> QED BY <2>1, <2>2, <2>3, <1>1 DEF LastModule
<1> QED BY <1>1, <1>3, <1>4, <1>5 DEF LastModule

\* A module that ends is taken from those its thread is in.
LEMMA ChainPop ==
  ASSUME TypeInv, NEW t \in Threads, Unmark(t)
  PROVE  /\ Chain(t) = Chain(t)' \cup {LastModule(t)}
         /\ Once => LastModule(t) \notin Chain(t)' \/ LastModule(t) \in raced
         /\ \A u \in Threads \ {t} : Chain(u)' = Chain(u) /\ LastModule(u)' = LastModule(u)
<1> USE DEF TypeInv, TypeOK, Stations, Stationed
<1> DEFINE s == chain[t]
<1>1. /\ chain' = [chain EXCEPT ![t] = Front(s)] /\ ran' = ran /\ s # <<>>
  BY DEF Unmark, Step
<1>2. /\ s \in Seq(1 .. MaxRuns) /\ Len(s) \in DOMAIN s /\ Last(s) = s[Len(s)]
      /\ \A i \in DOMAIN Front(s) : i \in DOMAIN s \ {Len(s)} /\ Front(s)[i] = s[i]
      /\ \A i \in DOMAIN s \ {Len(s)} : i \in DOMAIN Front(s)
  BY <1>1, FrontType
<1>3. /\ Chain(t) = {ran[s[i]] : i \in DOMAIN s}
      /\ Chain(t)' = {ran[Front(s)[i]] : i \in DOMAIN Front(s)}
  BY <1>1 DEF Chain
<1>4. Chain(t) = Chain(t)' \cup {LastModule(t)}
  <2> HIDE DEF TypeInv, TypeOK, Stations, Stationed, s
  <2>1. ASSUME NEW i \in DOMAIN s PROVE ran[s[i]] \in Chain(t)' \cup {LastModule(t)}
    <3>1. CASE i = Len(s)
      BY <3>1, <1>2 DEF LastModule, s
    <3>2. CASE i # Len(s)
      BY <3>2, <1>2, <1>3
    <3> QED BY <3>1, <3>2
  <2>2. Chain(t)' \subseteq Chain(t)
    BY <1>2, <1>3
  <2>3. LastModule(t) \in Chain(t)
    BY <1>2, <1>3 DEF LastModule, s
  <2> QED BY <2>1, <2>2, <2>3, <1>3
<1>5. Once => LastModule(t) \notin Chain(t)' \/ LastModule(t) \in raced
  BY <1>2, <1>3 DEF LastModule, Once
<1>6. \A u \in Threads \ {t} : Chain(u)' = Chain(u) /\ LastModule(u)' = LastModule(u)
  BY <1>1 DEF Chain, LastModule
<1> QED BY <1>4, <1>5, <1>6

-------------------------------------------------------------------------------
\* What another thread's step leaves alone.
Others(t) ==
  \A u \in Threads \ {t} :
    stage'[u] = stage[u] /\ target'[u] = target[u] /\ failed'[u] = failed[u]

\* A step of one thread leaves the locals of the others.
LEMMA OthersStay ==
  ASSUME TypeInv, NEW t \in Threads, Import(t)
  PROVE  Others(t) /\ \A u \in Threads \ {t} : chain'[u] = chain[u]
<1> USE DEF TypeInv, TypeOK, Step, Others
<1>1. CASE Start(t) \/ Find(t) \/ FindNothing(t) \/ LookupHit(t)
  BY <1>1 DEF Start, Find, FindNothing, LookupHit
<1>2. CASE LookupMiss(t) \/ Refuse(t) \/ Accept(t) \/ Mark(t)
  BY <1>2 DEF LookupMiss, Refuse, Accept, Mark
<1>3. CASE Load(t) \/ LoadFails(t) \/ Drop(t)
  BY <1>3 DEF Load, LoadFails, Drop
<1>4. CASE Catch(t) \/ ModuleEnds(t) \/ Publish(t) \/ Give_up(t)
  BY <1>4 DEF Catch, ModuleEnds, Publish, Give_up
<1>5. CASE Unmark(t)
  BY <1>5 DEF Unmark
<1> QED BY <1>1, <1>2, <1>3, <1>4, <1>5 DEF Import

\* The steps that leave the tables and the chains alone keep the invariant.
LEMMA QuietStep ==
  ASSUME IInv, TypeInv', NEW t \in Threads, Others(t),
         UNCHANGED <<imported, importing, ran, chain, raced>>,
         stage[t] # "unmark", stage'[t] # "marked",
         stage[t] \in {"marked", "dropped"} <=> stage'[t] = "dropped",
         In(t)' \subseteq In(t),
         stage'[t] \in {"new", "dropped"} =>
           target'[t] = target[t] /\ (target[t] \notin Chain(t) \/ target[t] \in raced),
         stage'[t] = "unmark" => failed'[t],
         \A s \in got' : s \in got \/ \E f \in Files : s = imported[f] /\ s # 0
  PROVE  IInv'
<1>1. \A u \in Threads : Chain(u)' = Chain(u) /\ LastModule(u)' = LastModule(u)
  BY ChainSame
<1>2. \A u \in Threads \ {t} : In(u)' = In(u)
  BY <1>1 DEF In, Others
<1>3. MarkedBut'
  BY <1>1 DEF IInv, MarkedBut, Others
<1>4. Alone'
  BY <1>2 DEF IInv, Alone
<1>5. Once'
  BY DEF IInv, Once
<1>6. New'
  BY <1>1 DEF IInv, New, Others
<1>7. Tabled'
  BY DEF IInv, Tabled
<1>8. InMeansNew'
  <2> SUFFICES ASSUME NEW u \in Threads, NEW f \in In(u)' \ raced, imported[f] # 0
               PROVE  stage'[u] = "unmark" /\ ~failed'[u] /\ f = LastModule(u)
    BY <1>1 DEF InMeansNew
  <2>1. stage[u] = "unmark" /\ ~failed[u] /\ f = LastModule(u)
    BY <1>2 DEF IInv, InMeansNew
  <2> QED BY <2>1 DEF Others
<1>9. EndedIsTabled'
  BY <1>1 DEF IInv, EndedIsTabled, Others
<1> QED
  BY <1>3, <1>4, <1>5, <1>6, <1>7, <1>8, <1>9 DEF IInv

\* These are the search, the hit, both answers of the table of marks, and errors.
LEMMA QuietKeeps ==
  ASSUME IInv, TypeInv', NEW t \in Threads,
         Start(t) \/ Find(t) \/ FindNothing(t) \/ LookupHit(t) \/ Refuse(t)
           \/ Accept(t) \/ LoadFails(t) \/ Catch(t) \/ ModuleEnds(t) \/ Give_up(t)
  PROVE  IInv'
<1>1. Others(t)
  BY OthersStay DEF IInv, Import
<1> USE DEF IInv, TypeInv, TypeOK, Step
<1>2. ASSUME UNCHANGED <<ran, chain>> PROVE Chain(t)' = Chain(t)
  BY <1>2, ChainSame
<1>3. CASE Start(t) \/ Find(t) \/ FindNothing(t) \/ Catch(t) \/ Give_up(t)
  BY <1>1, <1>2, <1>3, QuietStep DEF Start, Find, FindNothing, Catch, Give_up, In
<1>4. CASE LookupHit(t)
  <2>1. target[t] \in Files
    BY <1>4 DEF LookupHit, Stations, Stationed
  <2> QED BY <1>1, <1>2, <1>4, <2>1, QuietStep DEF LookupHit, In
<1>5. CASE Refuse(t)
  BY <1>1, <1>2, <1>5, QuietStep DEF Refuse, In
<1>6. CASE Accept(t)
  <2>1. target[t] \notin Chain(t) \/ target[t] \in raced
    BY <1>6 DEF Accept, MarkedBut, Stations, Stationed
  <2> QED BY <1>1, <1>2, <1>6, <2>1, QuietStep DEF Accept, In
<1>7. CASE ModuleEnds(t)
  BY <1>1, <1>2, <1>7, QuietStep DEF ModuleEnds, In
<1>8. CASE LoadFails(t)
  <2>1. target[t] \notin Chain(t) \/ target[t] \in raced
    BY <1>8 DEF LoadFails, New
  <2> QED BY <1>1, <1>2, <1>8, <2>1, QuietStep DEF LoadFails, In
<1> QED BY <1>3, <1>4, <1>5, <1>6, <1>7, <1>8

\* A lookup that misses begins to be in a module, and tells a race.
LEMMA MissKeeps ==
  ASSUME IInv, TypeInv', NEW t \in Threads, LookupMiss(t)
  PROVE  IInv'
<1> USE DEF IInv
<1>1. /\ UNCHANGED <<tables, ran, chain, target, failed, got>>
      /\ stage[t] = "found" /\ stage'[t] = "missed" /\ imported[target[t]] = 0
      /\ raced' = raced \cup ({target[t]} \cap UNION {In(u) : u \in Threads \ {t}})
  BY DEF LookupMiss, Step, TypeInv, TypeOK
<1>2. Others(t)
  BY OthersStay DEF Import
<1>3. \A u \in Threads : Chain(u)' = Chain(u) /\ LastModule(u)' = LastModule(u)
  BY <1>1, ChainSame
<1>4. /\ In(t)' = In(t) \cup {target[t]}
      /\ \A u \in Threads \ {t} : In(u)' = In(u)
  BY <1>1, <1>2, <1>3 DEF In, Others
<1>5. MarkedBut'
  BY <1>1, <1>2, <1>3 DEF MarkedBut, Others
<1>6. Alone'
  <2> SUFFICES ASSUME NEW u \in Threads \ {t}, NEW f \in In(t)' \cap In(u)' PROVE f \in raced'
    BY <1>1, <1>4 DEF Alone
  <2> QED BY <1>1, <1>4 DEF Alone
<1>7. Once'
  BY <1>1 DEF Once
<1>8. New'
  BY <1>1, <1>2, <1>3 DEF New, Others
<1>9. Tabled'
  BY <1>1 DEF Tabled
<1>10. InMeansNew'
  BY <1>1, <1>2, <1>3, <1>4 DEF InMeansNew, Others
<1>11. EndedIsTabled'
  BY <1>1, <1>2, <1>3 DEF EndedIsTabled, Others
<1> QED BY <1>5, <1>6, <1>7, <1>8, <1>9, <1>10, <1>11

\* The mark is set for a module that nobody else is in.
LEMMA MarkKeeps ==
  ASSUME IInv, TypeInv', NEW t \in Threads, Mark(t)
  PROVE  IInv'
<1> USE DEF IInv
<1>1. /\ UNCHANGED <<imported, ran, chain, target, failed, got, raced>>
      /\ stage[t] = "new" /\ stage'[t] = "marked"
      /\ importing' = importing \cup {target[t]}
  BY DEF Mark, Step, TypeInv, TypeOK
<1>2. Others(t)
  BY OthersStay DEF Import
<1>3. \A u \in Threads : Chain(u)' = Chain(u) /\ LastModule(u)' = LastModule(u)
  BY <1>1, ChainSame
<1>4. \A u \in Threads : In(u)' = In(u)
  BY <1>1, <1>2, <1>3 DEF In, Others
<1>5. MarkedBut'
  <2> SUFFICES ASSUME NEW f \in Files \ raced
               PROVE  f \in importing' <=>
                        \E u \in Threads : f \in Chain(u) \/ (stage'[u] \in {"marked", "dropped"} /\ target[u] = f)
    BY <1>1, <1>3 DEF MarkedBut
  <2>1. CASE f = target[t]
    BY <2>1, <1>1
  <2>2. CASE f # target[t]
    BY <2>2, <1>1, <1>2 DEF MarkedBut, Others
  <2> QED BY <2>1, <2>2
<1>6. Alone'
  BY <1>1, <1>4 DEF Alone
<1>7. Once'
  BY <1>1 DEF Once
<1>8. New'
  BY <1>1, <1>2, <1>3 DEF New, Others
<1>9. Tabled'
  BY <1>1 DEF Tabled
<1>10. InMeansNew'
  BY <1>1, <1>2, <1>3, <1>4 DEF InMeansNew, Others
<1>11. EndedIsTabled'
  BY <1>1, <1>2, <1>3 DEF EndedIsTabled, Others
<1> QED BY <1>5, <1>6, <1>7, <1>8, <1>9, <1>10, <1>11

\* A module begins to run in a new scope.
LEMMA LoadKeeps ==
  ASSUME IInv, TypeInv', NEW t \in Threads, Load(t)
  PROVE  IInv'
<1> USE DEF IInv
<1>1. /\ UNCHANGED <<imported, importing, got, raced>>
      /\ stage[t] = "marked" /\ stage'[t] = "run"
      /\ target[t] \in Files
      /\ chain'[t] = Append(chain[t], Len(ran) + 1)
      /\ \A s \in DOMAIN ran : s \in DOMAIN ran' /\ ran'[s] = ran[s]
      /\ ran'[Len(ran) + 1] = target[t]
  BY DEF Load, Step, TypeInv, TypeOK, Stations, Stationed
<1>2. Others(t) /\ \A u \in Threads \ {t} : chain'[u] = chain[u]
  BY OthersStay DEF Import
<1>3. /\ Chain(t)' = Chain(t) \cup {target[t]}
      /\ \A u \in Threads \ {t} :
           Chain(u)' = Chain(u) /\ (chain[u] # <<>> => LastModule(u)' = LastModule(u))
  BY ChainPush
<1>4. \A u \in Threads : In(u)' = In(u)
  BY <1>1, <1>2, <1>3 DEF In, Others
<1>5. MarkedBut'
  BY <1>1, <1>2, <1>3 DEF MarkedBut, Others
<1>6. Alone'
  BY <1>1, <1>4 DEF Alone
<1>7. Once'
  <2> SUFFICES ASSUME NEW u \in Threads, NEW i \in DOMAIN chain'[u], NEW j \in DOMAIN chain'[u],
                      ran'[chain'[u][i]] = ran'[chain'[u][j]], i # j
               PROVE  ran'[chain'[u][i]] \in raced
    BY <1>1 DEF Once
  <2>1. \A v \in Threads : \A k \in DOMAIN chain[v] :
          chain[v][k] \in DOMAIN ran /\ ran'[chain[v][k]] = ran[chain[v][k]]
    BY <1>1 DEF TypeInv, Stations, Stationed
  <2>2. CASE u # t
    BY <2>1, <2>2, <1>2 DEF Once
  <2>3. CASE u = t
    <3>1. /\ DOMAIN chain'[t] = DOMAIN chain[t] \cup {Len(chain[t]) + 1}
          /\ \A k \in DOMAIN chain[t] : chain'[t][k] = chain[t][k]
          /\ chain'[t][Len(chain[t]) + 1] = Len(ran) + 1
      BY ChainPush
    <3>2. \A k \in DOMAIN chain[t] : ran[chain[t][k]] \in Chain(t)
      BY DEF Chain
    <3>3. target[t] \notin Chain(t) \/ target[t] \in raced
      BY <1>1 DEF New
    <3>4. CASE i \in DOMAIN chain[t] /\ j \in DOMAIN chain[t]
      BY <2>1, <2>3, <3>1, <3>4 DEF Once
    <3>5. CASE i = Len(chain[t]) + 1 /\ j \in DOMAIN chain[t]
      BY <1>1, <2>1, <2>3, <3>1, <3>2, <3>3, <3>5
    <3>6. CASE j = Len(chain[t]) + 1 /\ i \in DOMAIN chain[t]
      BY <1>1, <2>1, <2>3, <3>1, <3>2, <3>3, <3>6
    <3> QED BY <2>3, <3>1, <3>4, <3>5, <3>6
  <2> QED BY <2>2, <2>3
<1>8. New'
  BY <1>1, <1>2, <1>3 DEF New, Others
<1>9. Tabled'
  BY <1>1 DEF Tabled
<1>10. InMeansNew'
  <2> SUFFICES ASSUME NEW u \in Threads, NEW f \in In(u) \ raced, imported[f] # 0
               PROVE  stage'[u] = "unmark" /\ ~failed'[u] /\ f = LastModule(u)'
    BY <1>1, <1>4 DEF InMeansNew
  <2>1. stage[u] = "unmark" /\ ~failed[u] /\ f = LastModule(u)
    BY DEF InMeansNew
  <2>2. u # t /\ chain[u] # <<>>
    BY <2>1, <1>1 DEF TypeInv, Stations, Stationed
  <2> QED BY <2>1, <2>2, <1>2, <1>3 DEF Others
<1>11. EndedIsTabled'
  <2> SUFFICES ASSUME NEW u \in Threads, stage'[u] = "unmark", ~failed'[u]
               PROVE  LastModule(u)' \in raced \/ imported[LastModule(u)'] = Last(chain'[u])
    BY <1>1 DEF EndedIsTabled
  <2>1. u # t
    BY <1>1
  <2>2. stage[u] = "unmark" /\ ~failed[u] /\ chain[u] # <<>> /\ chain'[u] = chain[u]
    BY <2>1, <1>2 DEF Others, TypeInv, Stations, Stationed
  <2> QED BY <2>1, <2>2, <1>3 DEF EndedIsTabled
<1> QED BY <1>5, <1>6, <1>7, <1>8, <1>9, <1>10, <1>11

\* The mark of a module that does not load is taken away.
LEMMA DropKeeps ==
  ASSUME IInv, TypeInv', NEW t \in Threads, Drop(t)
  PROVE  IInv'
<1> USE DEF IInv
<1> DEFINE f == target[t]
<1>1. /\ UNCHANGED <<imported, ran, chain, failed, got, raced>>
      /\ stage[t] = "dropped" /\ stage'[t] = "run"
      /\ importing' = importing \ {f}
      /\ f \in Files
  BY DEF Drop, Step, TypeInv, TypeOK, Stations, Stationed
<1>2. Others(t)
  BY OthersStay DEF Import
<1>3. \A u \in Threads : Chain(u)' = Chain(u) /\ LastModule(u)' = LastModule(u)
  BY <1>1, ChainSame
<1>4. /\ In(t) = Chain(t) \cup {f} /\ In(t)' = Chain(t)
      /\ \A u \in Threads \ {t} : In(u)' = In(u)
  BY <1>1, <1>2, <1>3 DEF In, Others
<1>5. f \notin Chain(t) \/ f \in raced
  BY <1>1 DEF New
<1>6. MarkedBut'
  <2> SUFFICES ASSUME NEW g \in Files \ raced
               PROVE  g \in importing' <=>
                        \E u \in Threads :
                          g \in Chain(u) \/ (stage'[u] \in {"marked", "dropped"} /\ target'[u] = g)
    BY <1>1, <1>3 DEF MarkedBut
  <2>1. CASE g = f
    <3>1. ASSUME NEW u \in Threads \ {t} PROVE g \notin In(u)
      BY <2>1, <1>4 DEF Alone
    <3>2. ASSUME NEW u \in Threads \ {t}
          PROVE  g \notin Chain(u) /\ ~(stage'[u] \in {"marked", "dropped"} /\ target'[u] = g)
      BY <3>1, <1>2 DEF In, Others
    <3>3. g \notin Chain(t) /\ stage'[t] \notin {"marked", "dropped"}
      BY <2>1, <1>1, <1>5
    <3> QED BY <2>1, <3>2, <3>3, <1>1
  <2>2. CASE g # f
    <3>1. \A u \in Threads :
            (stage'[u] \in {"marked", "dropped"} /\ target'[u] = g)
              <=> (stage[u] \in {"marked", "dropped"} /\ target[u] = g)
      BY <2>2, <1>1, <1>2 DEF Others
    <3> QED BY <2>2, <3>1, <1>1 DEF MarkedBut
  <2> QED BY <2>1, <2>2
<1>7. Alone'
  BY <1>1, <1>4 DEF Alone
<1>8. Once' /\ Tabled'
  BY <1>1 DEF Once, Tabled
<1>9. New'
  BY <1>1, <1>2, <1>3 DEF New, Others
<1>10. InMeansNew'
  BY <1>1, <1>2, <1>3, <1>4 DEF InMeansNew, Others
<1>11. EndedIsTabled'
  BY <1>1, <1>2, <1>3 DEF EndedIsTabled, Others
<1> QED BY <1>6, <1>7, <1>8, <1>9, <1>10, <1>11

\* The scope enters the table where nothing was.
LEMMA PublishKeeps ==
  ASSUME IInv, TypeInv', NEW t \in Threads, Publish(t)
  PROVE  IInv'
<1> USE DEF IInv
<1> DEFINE f == LastModule(t)
<1>1. /\ UNCHANGED <<importing, ran, chain, target, failed, got, raced>>
      /\ stage[t] = "publish" /\ stage'[t] = "unmark" /\ ~failed[t]
      /\ imported' = [imported EXCEPT ![f] = Last(chain[t])]
      /\ chain[t] # <<>>
  BY DEF Publish, Step, TypeInv, TypeOK, Stations, Stationed, LastModule
<1>2. Others(t)
  BY OthersStay DEF Import
<1>3. \A u \in Threads : Chain(u)' = Chain(u) /\ LastModule(u)' = LastModule(u)
  BY <1>1, ChainSame
<1>4. \A u \in Threads : In(u)' = In(u)
  BY <1>1, <1>2, <1>3 DEF In, Others
<1>5. f \in Chain(t) /\ f \in In(t) /\ f \in Files /\ Last(chain[t]) \in DOMAIN ran
  BY <1>1, ChainIn DEF In
<1>6. /\ imported'[f] = Last(chain[t])
      /\ \A g \in Files \ {f} : imported'[g] = imported[g]
      /\ f \in raced \/ imported[f] = 0
  BY <1>1, <1>5 DEF TypeInv, TypeOK, InMeansNew
<1> USE DEF Others
<1>7. MarkedBut'
  BY <1>1, <1>2, <1>3 DEF MarkedBut
<1>8. Alone' /\ Once' /\ New'
  BY <1>1, <1>2, <1>3, <1>4 DEF Alone, Once, New
<1>9. Tabled'
  <2>1. ran[Last(chain[t])] = f
    BY DEF LastModule
  <2>2. ASSUME NEW g \in Files, imported'[g] # 0
        PROVE  imported'[g] \in DOMAIN ran /\ ran[imported'[g]] = g
    BY <2>1, <2>2, <1>5, <1>6 DEF Tabled
  <2>3. ASSUME NEW s \in got
        PROVE  s \in DOMAIN ran /\ (ran[s] \in raced \/ imported'[ran[s]] = s)
    <3>1. s \in DOMAIN ran /\ s # 0 /\ ran[s] \in Files /\ (ran[s] \in raced \/ imported[ran[s]] = s)
      BY DEF Tabled, TypeInv, TypeOK
    <3>2. ran[s] # f \/ ran[s] \in raced
      BY <3>1, <1>6
    <3> QED BY <3>1, <3>2, <1>6
  <2> QED BY <2>2, <2>3, <1>1 DEF Tabled
<1>10. InMeansNew'
  <2> SUFFICES ASSUME NEW u \in Threads, NEW g \in In(u) \ raced, imported'[g] # 0
               PROVE  stage'[u] = "unmark" /\ ~failed'[u] /\ g = LastModule(u)
    BY <1>1, <1>3, <1>4 DEF InMeansNew
  <2>1. CASE g = f
    <3>1. u = t
      BY <2>1, <1>5 DEF Alone
    <3> QED BY <2>1, <3>1, <1>1
  <2>2. CASE g # f
    <3>1. imported[g] # 0
      BY <2>2, <1>1
    <3>2. stage[u] = "unmark" /\ ~failed[u] /\ g = LastModule(u)
      BY <3>1 DEF InMeansNew
    <3> QED BY <3>2, <1>1, <1>2
  <2> QED BY <2>1, <2>2
<1>11. EndedIsTabled'
  <2> SUFFICES ASSUME NEW u \in Threads, stage'[u] = "unmark", ~failed'[u]
               PROVE  LastModule(u) \in raced \/ imported'[LastModule(u)] = Last(chain[u])
    BY <1>1, <1>3 DEF EndedIsTabled
  <2>1. CASE u = t
    BY <2>1, <1>6
  <2>2. CASE u # t
    <3>1. stage[u] = "unmark" /\ ~failed[u] /\ chain[u] # <<>>
      BY <2>2, <1>1, <1>2 DEF TypeInv, Stations, Stationed
    <3>2. LastModule(u) \in In(u)
      BY <3>1, ChainIn DEF In
    <3>3. LastModule(u) # f \/ LastModule(u) \in raced
      BY <2>2, <3>2, <1>5 DEF Alone
    <3> QED BY <3>1, <3>3, <1>1 DEF EndedIsTabled
  <2> QED BY <2>1, <2>2
<1> QED BY <1>7, <1>8, <1>9, <1>10, <1>11

\* A module ends, and its mark is taken away.
LEMMA UnmarkKeeps ==
  ASSUME IInv, TypeInv', NEW t \in Threads, Unmark(t)
  PROVE  IInv'
<1> USE DEF IInv
<1> DEFINE f == LastModule(t)
<1>1. /\ UNCHANGED <<imported, ran, target, failed, raced>>
      /\ stage[t] = "unmark" /\ stage'[t] \in {"over", "run"}
      /\ importing' = importing \ {f}
      /\ chain[t] # <<>> /\ chain'[t] = Front(chain[t])
      /\ got' = IF failed[t] THEN got ELSE got \cup {Last(chain[t])}
  BY DEF Unmark, Step, TypeInv, TypeOK, Stations, Stationed, LastModule
<1>2. Others(t) /\ \A u \in Threads \ {t} : chain'[u] = chain[u]
  BY OthersStay DEF Import
<1>3. /\ Chain(t) = Chain(t)' \cup {f}
      /\ f \notin Chain(t)' \/ f \in raced
      /\ \A u \in Threads \ {t} : Chain(u)' = Chain(u) /\ LastModule(u)' = LastModule(u)
  BY ChainPop
<1>4. /\ In(t) = Chain(t) /\ In(t)' = Chain(t)'
      /\ \A u \in Threads \ {t} : In(u)' = In(u)
  BY <1>1, <1>2, <1>3 DEF In, Others
<1>5. f \in In(t) /\ f \in Files /\ Last(chain[t]) \in DOMAIN ran
  BY <1>1, <1>4, ChainIn
<1>6. MarkedBut'
  <2> SUFFICES ASSUME NEW g \in Files \ raced
               PROVE  g \in importing' <=>
                        \E u \in Threads : g \in Chain(u)' \/ (stage'[u] \in {"marked", "dropped"} /\ target[u] = g)
    BY <1>1 DEF MarkedBut
  <2>1. CASE g = f
    <3>1. ASSUME NEW u \in Threads \ {t} PROVE g \notin In(u)
      BY <2>1, <1>5 DEF Alone
    <3>2. ASSUME NEW u \in Threads \ {t}
          PROVE  g \notin Chain(u)' /\ ~(stage'[u] \in {"marked", "dropped"} /\ target[u] = g)
      BY <3>1, <1>2, <1>3 DEF In, Others
    <3>3. g \notin Chain(t)' /\ stage'[t] \notin {"marked", "dropped"}
      BY <2>1, <1>1, <1>3
    <3> QED BY <2>1, <3>2, <3>3, <1>1
  <2>2. CASE g # f
    <3>1. ASSUME NEW u \in Threads
          PROVE  /\ g \in Chain(u)' <=> g \in Chain(u)
                 /\ stage'[u] \in {"marked", "dropped"} <=> stage[u] \in {"marked", "dropped"}
      BY <2>2, <1>1, <1>2, <1>3 DEF Others
    <3> QED BY <2>2, <3>1, <1>1 DEF MarkedBut
  <2> QED BY <2>1, <2>2
<1>7. Alone'
  BY <1>1, <1>3, <1>4 DEF Alone
<1>8. Once'
  <2> SUFFICES ASSUME NEW u \in Threads, NEW i \in DOMAIN chain'[u], NEW j \in DOMAIN chain'[u],
                      ran[chain'[u][i]] = ran[chain'[u][j]], i # j
               PROVE  ran[chain'[u][i]] \in raced
    BY <1>1 DEF Once
  <2>1. \A k \in DOMAIN chain'[u] : k \in DOMAIN chain[u] /\ chain'[u][k] = chain[u][k]
    <3>1. CASE u = t
      <4>1. chain[t] \in Seq(1 .. MaxRuns)
        BY DEF TypeInv, TypeOK
      <4> QED BY <3>1, <4>1, <1>1, FrontType
    <3> QED BY <3>1, <1>2
  <2> QED BY <2>1 DEF Once
<1>9. New'
  BY <1>1, <1>2, <1>3 DEF New, Others
<1>10. Tabled'
  <2>1. ran[Last(chain[t])] = f
    BY DEF LastModule
  <2>2. ~failed[t] => f \in raced \/ imported[f] = Last(chain[t])
    BY <1>1 DEF EndedIsTabled
  <2> QED BY <2>1, <2>2, <1>1, <1>5 DEF Tabled
<1>11. InMeansNew'
  <2> SUFFICES ASSUME NEW u \in Threads, NEW g \in In(u)' \ raced, imported[g] # 0
               PROVE  stage'[u] = "unmark" /\ ~failed'[u] /\ g = LastModule(u)'
    BY <1>1 DEF InMeansNew
  <2>1. CASE u = t
    <3>1. g \in In(t)
      BY <2>1, <1>3, <1>4
    <3>2. g = f
      BY <3>1 DEF InMeansNew
    <3> QED BY <2>1, <3>2, <1>3, <1>4
  <2>2. CASE u # t
    BY <2>2, <1>2, <1>3, <1>4 DEF InMeansNew, Others
  <2> QED BY <2>1, <2>2
<1>12. EndedIsTabled'
  BY <1>1, <1>2, <1>3 DEF EndedIsTabled, Others
<1> QED BY <1>6, <1>7, <1>8, <1>9, <1>10, <1>11, <1>12

\* Every step keeps the inductive invariant.
LEMMA IInvKept == IInv /\ [Next]_vars => IInv'
<1> SUFFICES ASSUME IInv, [Next]_vars PROVE IInv'
  OBVIOUS
<1>1. TypeInv'
  BY StepTypes DEF IInv
<1>2. ASSUME NEW t \in Threads, Import(t) PROVE IInv'
  BY <1>1, <1>2, QuietKeeps, MissKeeps, MarkKeeps, LoadKeeps, DropKeeps, PublishKeeps, UnmarkKeeps
  DEF Import
<1>3. CASE UNCHANGED vars
  BY <1>3 DEF vars, IInv, TypeInv, TypeOK, Stations, Stationed, MarkedBut, Alone, Once, New,
              Tabled, InMeansNew, EndedIsTabled, Chain, In, LastModule
<1> QED BY <1>2, <1>3 DEF Next

\* It always holds.
LEMMA AlwaysIInv == Spec => []IInv
  BY InitIInv, IInvKept, PTL DEF Spec

-------------------------------------------------------------------------------
(***************************************************************************)
(* Type correctness.                                                       *)
(***************************************************************************)
THEOREM TypeCorrect == Spec => []TypeOK
<1>1. IInv => TypeOK
  BY DEF IInv, TypeInv
<1> QED BY <1>1, AlwaysIInv, PTL

(***************************************************************************)
(* All imports of a module give the scope of its one run, whatever failed  *)
(* before, unless two threads were in its import at once                   *)
(* (import.c:655-657, 718).                                                *)
(***************************************************************************)
THEOREM OneModule == Spec => []OneModuleBut
<1>1. IInv => OneModuleBut
  BY DEF IInv, Tabled, OneModuleBut
<1> QED BY <1>1, AlwaysIInv, PTL

\* The action that CircularBut forbids to be otherwise.
Told ==
  \A t \in Threads :
    stage[t] = "missed" /\ stage'[t] # "missed" =>
      (stage'[t] = "run" <=> target[t] \in Chain(t)) \/ target[t] \in raced

(***************************************************************************)
(* An import is refused exactly when its thread is in the module, unless   *)
(* two threads were in its import at once (import.c:659-663): a mark is    *)
(* set for every module in progress, by MarkedBut, and by nobody else, by  *)
(* Alone.                                                                  *)
(***************************************************************************)
THEOREM Circular == Spec => CircularBut
<1>1. ASSUME IInv, Next PROVE Told
  <2> SUFFICES ASSUME NEW t \in Threads, stage[t] = "missed", stage'[t] # "missed",
                      target[t] \notin raced
               PROVE  stage'[t] = "run" <=> target[t] \in Chain(t)
    BY DEF Told
  <2> USE DEF IInv
  <2>1. Refuse(t) \/ Accept(t)
    <3>1. PICK u \in Threads : Import(u)
      BY <1>1 DEF Next
    <3>2. u = t
      BY <3>1, <1>1, OthersStay DEF Others
    <3> QED BY <1>1, <3>1, <3>2 DEF Import, Start, Find, FindNothing, LookupHit, LookupMiss,
               Mark, Load, LoadFails, Drop, Catch, ModuleEnds, Publish, Unmark, Give_up, Step
  <2>2. target[t] \in Files /\ target[t] \in In(t)
    BY <1>1 DEF TypeInv, Stations, Stationed, In
  <2>3. target[t] \in importing <=> target[t] \in Chain(t)
    <3>1. ASSUME NEW u \in Threads, target[t] \in In(u) PROVE u = t
      BY <3>1, <2>2, <1>1 DEF Alone
    <3>2. ASSUME NEW u \in Threads, stage[u] \in {"marked", "dropped"},
                 target[u] = target[t]
          PROVE  FALSE
      BY <3>1, <3>2 DEF In
    <3>3. ASSUME NEW u \in Threads, target[t] \in Chain(u) PROVE u = t
      BY <3>1, <3>3 DEF In
    <3> QED BY <2>2, <3>2, <3>3, <1>1 DEF MarkedBut
  <2> QED BY <2>1, <2>3, <1>1 DEF Refuse, Accept, Step, TypeInv, TypeOK
<1>2. IInv /\ [Next]_vars => [Told]_vars
  BY <1>1
<1> QED BY <1>2, AlwaysIInv, PTL DEF Spec, CircularBut, Told
===============================================================================
