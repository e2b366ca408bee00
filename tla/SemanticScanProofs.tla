-------------------------- MODULE SemanticScanProofs --------------------------
(***************************************************************************)
(* Theorems about SemanticScan, for any servers, tools and answers of the  *)
(* model, any number of concurrent runs and any number of failures.        *)
(***************************************************************************)
EXTENDS SemanticScan, FiniteSetTheorems, SequenceTheorems, TLAPS

USE NamesAssumption, ModelAssumption, BoundsAssumption

-----------------------------------------------------------------------------
\* A tool that is taken off the list is its head.
LEMMA RangeOfTail ==
  ASSUME NEW S, NEW q \in Seq(S), q # <<>>
  PROVE  /\ Head(q) \in S /\ Tail(q) \in Seq(S)
         /\ \A x \in Range(q) : x = Head(q) \/ x \in Range(Tail(q))
<1>1. /\ Head(q) \in S /\ Head(q) = q[1] /\ Tail(q) \in Seq(S)
      /\ Len(Tail(q)) = Len(q) - 1 /\ Len(q) \in Nat
      /\ \A i \in 1..Len(Tail(q)) : Tail(q)[i] = q[i + 1]
  BY HeadTailProperties
<1>2. ASSUME NEW i \in DOMAIN q PROVE q[i] = Head(q) \/ q[i] \in Range(Tail(q))
  <2>1. i \in 1..Len(q)
    OBVIOUS
  <2>2. CASE i = 1
    BY <1>1, <2>2
  <2>3. CASE i # 1
    <3>1. i - 1 \in 1..Len(Tail(q)) /\ Tail(q)[i - 1] = q[i]
      BY <1>1, <2>1, <2>3
    <3>2. DOMAIN Tail(q) = 1..Len(Tail(q))
      BY <1>1
    <3> QED
      BY <3>1, <3>2 DEF Range
  <2> QED
    BY <2>2, <2>3
<1> QED
  BY <1>1, <1>2 DEF Range

\* Whatever the order load_tools returns them in, all tools are there.
LEMMA OrdersOnto ==
  ASSUME NEW S \in SUBSET Tool, NEW o \in Orders(S)
  PROVE  o \in Seq(Tool) /\ Range(o) = S
<1>1. IsFiniteSet(S) /\ Cardinality(S) \in Nat
  BY FS_Subset, FS_CardinalityType
<1> DEFINE n == Cardinality(S)
<1>2. Cardinality(1..n) = n /\ IsFiniteSet(1..n)
  BY <1>1, FS_Interval
<1>3. o \in Injection(1..n, S)
  BY DEF Orders, Injection, IsInjective
<1>4. o \in Surjection(1..n, S)
  BY <1>1, <1>2, <1>3, FS_Injection
<1>5. o \in [1..n -> S]
  BY DEF Orders
<1>6. o \in Seq(Tool)
  <2>1. o \in Seq(S)
    BY <1>1, <1>5, SeqDef
  <2> QED
    BY <2>1, SeqMonotonic
<1>7. Range(o) = S
  BY <1>4, <1>5 DEF Surjection, Range
<1> QED
  BY <1>6, <1>7

\* What the detectors report are findings.
LEMMA HitsType ==
  ASSUME TypeOK, NEW s \in Scan, NEW t \in Tool
  PROVE  NameHits(s, t) \subseteq Finding /\ DescriptionHits(s, t) \subseteq Finding
<1>1. NameHits(s, t) \subseteq Finding
  <2>1. \A u \in Tool : [by |-> "name-collision", name |-> NameOf[t], match |-> ServerOf[u]]
                         \in [by : {"name-collision"}, name : Name, match : Server]
    OBVIOUS
  <2> QED
    BY <2>1 DEF NameHits, Finding
<1>2. DescriptionHits(s, t) \subseteq Finding
  <2>1. \A u \in Tool : [by |-> "semantic-clone", name |-> NameOf[t], match |-> u]
                         \in [by : {"semantic-clone"}, name : Name, match : Tool]
    OBVIOUS
  <2>2. embedded \subseteq Tool
    BY DEF TypeOK
  <2>3. ASSUME NEW f \in DescriptionHits(s, t) PROVE f \in Finding
    <3>1. PICK u \in embedded : f = [by |-> "semantic-clone", name |-> NameOf[t], match |-> u]
      BY DEF DescriptionHits
    <3> QED
      BY <2>1, <2>2, <3>1 DEF Finding
  <2> QED
    BY <2>3
<1> QED
  BY <1>1, <1>2

LEMMA VerdictFindingType ==
  ASSUME NEW c \in Call
  PROVE  VerdictFinding(c) \in Finding
<1>1. c[1] \in Tool /\ c[2] \in {"tpa-llm", "schema-code-alignment"}
  BY DEF Call
<1> QED
  BY <1>1 DEF VerdictFinding, Finding

LEMMA FoundType ==
  ASSUME TypeOK, NEW s \in Scan, NEW last
  PROVE  Found(s, last) \subseteq Finding
<1>1. VerdictFindings(s) \subseteq Finding
  BY VerdictFindingType DEF VerdictFindings, Calls
<1>2. ToxicFindings(s, last) \subseteq Finding
  BY DEF ToxicFindings, Finding
<1>3. hits[s] \subseteq Finding
  BY DEF TypeOK
<1> QED
  BY <1>1, <1>2, <1>3 DEF Found

\* The parts of a step that several share.
LEMMA ReleaseType ==
  ASSUME TypeOK, NEW s \in Scan, Release(s)
  PROVE  /\ toolLock' \in [Tool -> Scan \cup {NoScan}]
         /\ capLock' \in [Tool -> Scan \cup {NoScan}]
         /\ wrote' \in [Tool -> SUBSET CapabilityVocab]
         /\ \A t \in Tool : /\ toolLock'[t] = IF toolLock[t] = s THEN NoScan ELSE toolLock[t]
                            /\ capLock'[t] = IF capLock[t] = s THEN NoScan ELSE capLock[t]
BY DEF TypeOK, Release

LEMMA AbortType ==
  ASSUME TypeOK, NEW s \in Scan, Abort(s)
  PROVE  /\ tx' \in [Scan -> {"open", "aborted"}]
         /\ saved' \in [Scan -> SUBSET Finding]
         /\ tx'[s] = "aborted" /\ saved'[s] = {}
         /\ \A r \in Scan \ {s} : tx'[r] = tx[r] /\ saved'[r] = saved[r]
         /\ Release(s)
BY DEF TypeOK, Abort

LEMMA ForgetType ==
  ASSUME TypeOK, NEW s \in Scan, Forget(s)
  PROVE  /\ todo' \in [Scan -> Seq(Tool)]
         /\ hits' \in [Scan -> SUBSET Finding]
         /\ task' \in [Scan -> [Tool -> {"lookup", "llm", "store", "done"}]]
         /\ caps' \in [Scan -> [Tool -> SUBSET CapabilityVocab]]
         /\ verdict' \in [Scan -> [Call -> Outcome]]
         /\ conn' \in [Scan -> Tool \cup {NoTool}]
         /\ conn'[s] = NoTool
         /\ \A r \in Scan \ {s} : /\ todo'[r] = todo[r] /\ task'[r] = task[r]
                                  /\ verdict'[r] = verdict[r] /\ conn'[r] = conn[r]
<1>1. <<>> \in Seq(Tool)
  OBVIOUS
<1>2. todo' \in [Scan -> Seq(Tool)]
  BY <1>1 DEF TypeOK, Forget
<1>3. hits' \in [Scan -> SUBSET Finding]
  BY DEF TypeOK, Forget
<1>4. task' \in [Scan -> [Tool -> {"lookup", "llm", "store", "done"}]]
  BY DEF TypeOK, Forget
<1>5. caps' \in [Scan -> [Tool -> SUBSET CapabilityVocab]]
  BY DEF TypeOK, Forget
<1>6. verdict' \in [Scan -> [Call -> Outcome]]
  BY DEF TypeOK, Forget, Outcome
<1>7. conn' \in [Scan -> Tool \cup {NoTool}]
  BY DEF TypeOK, Forget
<1>8. conn'[s] = NoTool /\ \A r \in Scan \ {s} : /\ todo'[r] = todo[r] /\ task'[r] = task[r]
                                                 /\ verdict'[r] = verdict[r] /\ conn'[r] = conn[r]
  BY DEF TypeOK, Forget
<1> QED
  BY <1>2, <1>3, <1>4, <1>5, <1>6, <1>7, <1>8

LEMMA FaultType == ASSUME TypeOK, Fault PROVE fails' \in 0..MaxFails
BY DEF TypeOK, Fault

-----------------------------------------------------------------------------
LEMMA TypeInit == Init => TypeOK
<1> SUFFICES ASSUME Init PROVE TypeOK
  OBVIOUS
<1>1. <<>> \in Seq(Tool) /\ 0 \in 0..MaxFails
  OBVIOUS
<1> QED
  BY <1>1 DEF Init, TypeOK, Outcome

\* The steps that shadow-check the next tool.
Shadowed(s) == Shadow(s) \/ ShadowFails(s) \/ ShadowInVain(s) \/ ShadowDeadlock(s)

LEMMA TypeShadow ==
  ASSUME TypeOK, NEW s \in Scan, Shadowed(s)
  PROVE  TypeOK'
<1>1. /\ UNCHANGED <<pc, task, caps, verdict, conn, found, persisted, embedded, stored>>
      /\ Shadowing(s) /\ todo' = [todo EXCEPT ![s] = Tail(@)]
  BY DEF Shadowed, Shadow, ShadowFails, ShadowInVain, ShadowDeadlock, detect, tables
<1>2. Head(todo[s]) \in Tool /\ Tail(todo[s]) \in Seq(Tool)
  BY <1>1, RangeOfTail DEF TypeOK, Shadowing
<1>3. todo' \in [Scan -> Seq(Tool)]
  BY <1>1, <1>2 DEF TypeOK
<1>4. hits' \in [Scan -> SUBSET Finding]
  <2>1. NameHits(s, Head(todo[s])) \subseteq Finding /\ DescriptionHits(s, Head(todo[s])) \subseteq Finding
    BY <1>2, HitsType
  <2>2. \A H \in SUBSET Finding : [hits EXCEPT ![s] = @ \cup H] \in [Scan -> SUBSET Finding]
    <3>1. hits \in [Scan -> SUBSET Finding]
      BY DEF TypeOK
    <3> QED
      BY <3>1
  <2>3. CASE Shadow(s)
    <3>1. hits' = [hits EXCEPT ![s] = @ \cup (NameHits(s, Head(todo[s])) \cup DescriptionHits(s, Head(todo[s])))]
      BY <2>3 DEF Shadow
    <3>2. NameHits(s, Head(todo[s])) \cup DescriptionHits(s, Head(todo[s])) \in SUBSET Finding
      BY <2>1
    <3> QED
      BY <2>2, <3>1, <3>2
  <2>4. CASE ShadowFails(s)
    BY <2>1, <2>2, <2>4 DEF ShadowFails
  <2>5. CASE ShadowInVain(s) \/ ShadowDeadlock(s)
    BY <2>5 DEF TypeOK, ShadowInVain, ShadowDeadlock
  <2> QED
    BY <2>3, <2>4, <2>5 DEF Shadowed
<1>5. fails' \in 0..MaxFails
  BY FaultType DEF TypeOK, Shadowed, Shadow, ShadowFails, ShadowInVain, ShadowDeadlock
<1>6. /\ tx' \in [Scan -> {"open", "aborted"}] /\ saved' \in [Scan -> SUBSET Finding]
      /\ toolLock' \in [Tool -> Scan \cup {NoScan}]
      /\ capLock' \in [Tool -> Scan \cup {NoScan}]
      /\ wrote' \in [Tool -> SUBSET CapabilityVocab]
  <2>1. CASE Abort(s)
    BY <2>1, AbortType, ReleaseType
  <2>2. CASE Shadow(s)
    BY <1>2, <2>2 DEF TypeOK, Shadow
  <2>3. CASE ShadowInVain(s)
    BY <2>3 DEF TypeOK, ShadowInVain, locks
  <2> QED
    BY <2>1, <2>2, <2>3 DEF Shadowed, ShadowFails, ShadowDeadlock
<1> QED
  BY <1>1, <1>3, <1>4, <1>5, <1>6 DEF TypeOK

\* Those of the capabilities.
Classifies(s, t) ==
  \/ Lookup(s, t) \/ LookupFails(s, t) \/ Classified(s, t) \/ ClassifyFails(s, t)
  \/ StoreStarts(s, t) \/ Store(s, t) \/ StoreInVain(s, t) \/ StoreFails(s, t) \/ StoreDeadlock(s, t)

LEMMA TypeClassifies ==
  ASSUME TypeOK, NEW s \in Scan, NEW t \in Own(s), Classifies(s, t)
  PROVE  TypeOK'
<1>0. t \in Tool
  BY DEF Own
<1>1. UNCHANGED <<pc, todo, hits, verdict, found, persisted, embedded, stored>>
  BY DEF Classifies, Lookup, LookupFails, Classified, ClassifyFails, StoreStarts, Store,
         StoreInVain, StoreFails, StoreDeadlock, StoreEnds, search, tables
<1>2. task' \in [Scan -> [Tool -> {"lookup", "llm", "store", "done"}]]
  <2>1. PICK x \in {"llm", "store", "done"} : task' = [task EXCEPT ![s][t] = x] \/ UNCHANGED task
    BY DEF Classifies, Lookup, LookupFails, Classified, ClassifyFails, StoreStarts, Store,
           StoreInVain, StoreFails, StoreDeadlock, StoreEnds
  <2>2. task \in [Scan -> [Tool -> {"lookup", "llm", "store", "done"}]]
    BY DEF TypeOK
  <2> QED
    BY <1>0, <2>1, <2>2
<1>3. caps' \in [Scan -> [Tool -> SUBSET CapabilityVocab]]
  <2>1. stored[t] \subseteq CapabilityVocab /\ CapsOf[t] \subseteq CapabilityVocab
    BY <1>0 DEF TypeOK
  <2>2. PICK C \in SUBSET CapabilityVocab : caps' = [caps EXCEPT ![s][t] = C] \/ UNCHANGED caps
    BY <2>1 DEF Classifies, Lookup, LookupFails, Classified, ClassifyFails, StoreStarts, Store,
                StoreInVain, StoreFails, StoreDeadlock, StoreEnds
  <2>3. caps \in [Scan -> [Tool -> SUBSET CapabilityVocab]]
    BY DEF TypeOK
  <2> QED
    BY <1>0, <2>2, <2>3
<1>4. conn' \in [Scan -> Tool \cup {NoTool}]
  <2>1. PICK x \in {t, NoTool} : conn' = [conn EXCEPT ![s] = x] \/ UNCHANGED conn
    BY DEF Classifies, Lookup, LookupFails, Classified, ClassifyFails, StoreStarts, Store,
           StoreInVain, StoreFails, StoreDeadlock, StoreEnds
  <2>2. conn \in [Scan -> Tool \cup {NoTool}]
    BY DEF TypeOK
  <2> QED
    BY <1>0, <2>1, <2>2
<1>5. fails' \in 0..MaxFails
  BY FaultType DEF TypeOK, Classifies, Lookup, LookupFails, Classified, ClassifyFails, StoreStarts,
                   Store, StoreInVain, StoreFails, StoreDeadlock
<1>6. /\ tx' \in [Scan -> {"open", "aborted"}] /\ saved' \in [Scan -> SUBSET Finding]
      /\ toolLock' \in [Tool -> Scan \cup {NoScan}]
      /\ capLock' \in [Tool -> Scan \cup {NoScan}]
      /\ wrote' \in [Tool -> SUBSET CapabilityVocab]
  <2>1. CASE Abort(s)
    BY <2>1, AbortType, ReleaseType
  <2>2. CASE Store(s, t)
    BY <1>0, <2>2 DEF TypeOK, Store
  <2>3. CASE UNCHANGED <<tx, saved, toolLock, capLock, wrote>>
    BY <2>3 DEF TypeOK
  <2> QED
    BY <2>1, <2>2, <2>3 DEF Classifies, Lookup, LookupFails, Classified, ClassifyFails, StoreStarts,
                            StoreInVain, StoreFails, StoreDeadlock, locks
<1> QED
  BY <1>1, <1>2, <1>3, <1>4, <1>5, <1>6 DEF TypeOK

\* Those of the verdicts.
Judges(s) ==
  \/ \E t \in Own(s) : Judged(s, t) \/ Aligned(s, t)
  \/ \E c \in Calls(s) : AnswerFails(s, c)

LEMMA JudgesChanges ==
  ASSUME TypeOK, NEW s \in Scan, Judges(s)
  PROVE  /\ pc[s] = "gather"
         /\ \E c \in Calls(s), x \in Outcome : verdict' = [verdict EXCEPT ![s][c] = x]
         /\ UNCHANGED <<pc, tx, todo, hits, task, caps, conn, found, saved, persisted, embedded, stored>>
         /\ UNCHANGED <<toolLock, capLock, wrote>>
         /\ fails' \in 0..MaxFails
<1>1. /\ pc[s] = "gather"
      /\ UNCHANGED <<pc, tx, todo, hits, task, caps, conn, found, saved, persisted, embedded, stored>>
      /\ UNCHANGED <<toolLock, capLock, wrote>>
  BY DEF Judges, Judged, Aligned, AnswerFails, Unanswered, search, tables, locks
<1>2. fails' \in 0..MaxFails
  BY FaultType DEF TypeOK, Judges, Judged, Aligned, AnswerFails
<1>3. \E c \in Calls(s), x \in Outcome : verdict' = [verdict EXCEPT ![s][c] = x]
  <2>1. ASSUME NEW c, NEW bad, Unanswered(s, c), Answer(s, c, bad)
        PROVE  \E d \in Calls(s), x \in Outcome : verdict' = [verdict EXCEPT ![s][d] = x]
    BY <2>1 DEF Unanswered, Answer, Outcome
  <2> QED
    BY <2>1 DEF Judges, Judged, Aligned, AnswerFails, Outcome
<1> QED
  BY <1>1, <1>2, <1>3

LEMMA TypeJudges ==
  ASSUME TypeOK, NEW s \in Scan, Judges(s)
  PROVE  TypeOK'
<1>1. PICK c \in Calls(s), x \in Outcome : verdict' = [verdict EXCEPT ![s][c] = x]
  BY JudgesChanges
<1>2. verdict \in [Scan -> [Call -> Outcome]]
  BY DEF TypeOK
<1>3. verdict' \in [Scan -> [Call -> Outcome]]
  BY <1>1, <1>2
<1> QED
  BY <1>3, JudgesChanges DEF TypeOK

\* The others: the run goes on, or its transaction ends.
GoesOn(s) ==
  \/ \E o \in Orders(Own(s)) : Load(s, o)
  \/ RulesDone(s) \/ EncodeFails(s) \/ Gathered(s) \/ Save(s) \/ Link(s)

Ends(s) ==
  \/ Commit(s) \/ LinkFails(s) \/ SaveInVain(s) \/ SaveFails(s) \/ CommitFails(s) \/ Kill(s)

LEMMA TypeGoesOn ==
  ASSUME TypeOK, NEW s \in Scan, GoesOn(s)
  PROVE  TypeOK'
<1>1. UNCHANGED <<tx, task, caps, verdict, conn, persisted, embedded, stored, toolLock, capLock, wrote>>
  BY DEF GoesOn, Load, RulesDone, EncodeFails, Gathered, Save, Link, detect, tables, locks
<1>2. pc' \in [Scan -> {"begin", "shadow", "gather", "save", "link", "commit"} \cup Ended]
  <2>1. pc \in [Scan -> {"begin", "shadow", "gather", "save", "link", "commit"} \cup Ended]
    BY DEF TypeOK
  <2>2. PICK x \in {"shadow", "gather", "save", "link", "commit"} : pc' = [pc EXCEPT ![s] = x]
    BY DEF GoesOn, Load, RulesDone, EncodeFails, Gathered, Save, Link
  <2> QED
    BY <2>1, <2>2
<1>3. todo' \in [Scan -> Seq(Tool)]
  <2>1. todo \in [Scan -> Seq(Tool)]
    BY DEF TypeOK
  <2>2. ASSUME NEW o \in Orders(Own(s)), Load(s, o) PROVE todo' \in [Scan -> Seq(Tool)]
    BY <2>1, <2>2, OrdersOnto DEF Load, Own
  <2> QED
    BY <2>1, <2>2 DEF GoesOn, RulesDone, EncodeFails, Gathered, Save, Link, search
<1>4. hits' \in [Scan -> SUBSET Finding]
  <2>1. hits \in [Scan -> SUBSET Finding]
    BY DEF TypeOK
  <2> QED
    BY <2>1 DEF GoesOn, Load, RulesDone, EncodeFails, Gathered, Save, Link, search
<1>5. found' \in [Scan -> SUBSET Finding] /\ saved' \in [Scan -> SUBSET Finding]
  <2>1. found \in [Scan -> SUBSET Finding] /\ saved \in [Scan -> SUBSET Finding]
    BY DEF TypeOK
  <2>2. CASE Gathered(s)
    BY <2>1, <2>2, FoundType DEF Gathered
  <2>3. CASE Save(s)
    BY <2>1, <2>3 DEF Save
  <2> QED
    BY <2>1, <2>2, <2>3 DEF GoesOn, Load, RulesDone, EncodeFails, Link
<1>6. fails' \in 0..MaxFails
  BY FaultType DEF TypeOK, GoesOn, Load, RulesDone, EncodeFails, Gathered, Save, Link
<1> QED
  BY <1>1, <1>2, <1>3, <1>4, <1>5, <1>6 DEF TypeOK

LEMMA EndsLeaves ==
  ASSUME NEW s \in Scan, Ends(s)
  PROVE  /\ Release(s) /\ UNCHANGED found
         /\ \/ Forget(s)
            \/ LinkFails(s) /\ UNCHANGED <<todo, hits, task, caps, verdict, conn>>
         /\ \/ Commit(s) /\ UNCHANGED <<tx, saved, fails>>
            \/ Abort(s) /\ UNCHANGED <<persisted, embedded, stored>> /\ (Fault \/ UNCHANGED fails)
<1>1. CASE Commit(s)
  BY <1>1 DEF Commit
<1>2. CASE LinkFails(s)
  BY <1>2 DEF LinkFails, Abort, search, detect, tables
<1>3. CASE SaveInVain(s) \/ SaveFails(s) \/ CommitFails(s)
  BY <1>3 DEF SaveInVain, SaveFails, CommitFails, Raise, Abort, tables
<1>4. CASE Kill(s)
  BY <1>4 DEF Kill, Abort, tables
<1> QED
  BY <1>1, <1>2, <1>3, <1>4 DEF Ends

LEMMA TypeEnds ==
  ASSUME TypeOK, NEW s \in Scan, Ends(s)
  PROVE  TypeOK'
<1>1. pc' \in [Scan -> {"begin", "shadow", "gather", "save", "link", "commit"} \cup Ended]
  <2>1. pc \in [Scan -> {"begin", "shadow", "gather", "save", "link", "commit"} \cup Ended]
    BY DEF TypeOK
  <2>2. PICK x \in {"commit"} \cup Ended : pc' = [pc EXCEPT ![s] = x]
    BY DEF Ends, Commit, LinkFails, SaveInVain, SaveFails, CommitFails, Kill, Raise, Ended
  <2> QED
    BY <2>1, <2>2
<1>2. /\ todo' \in [Scan -> Seq(Tool)]
      /\ hits' \in [Scan -> SUBSET Finding]
      /\ task' \in [Scan -> [Tool -> {"lookup", "llm", "store", "done"}]]
      /\ caps' \in [Scan -> [Tool -> SUBSET CapabilityVocab]]
      /\ verdict' \in [Scan -> [Call -> Outcome]]
      /\ conn' \in [Scan -> Tool \cup {NoTool}]
  <2>1. CASE Forget(s)
    BY <2>1, ForgetType
  <2>2. CASE UNCHANGED <<todo, hits, task, caps, verdict, conn>>
    BY <2>2 DEF TypeOK
  <2> QED
    BY <2>1, <2>2, EndsLeaves
<1>3. /\ tx' \in [Scan -> {"open", "aborted"}] /\ saved' \in [Scan -> SUBSET Finding]
      /\ fails' \in 0..MaxFails
  <2>1. CASE UNCHANGED <<tx, saved, fails>>
    BY <2>1 DEF TypeOK
  <2>2. CASE Abort(s) /\ (Fault \/ UNCHANGED fails)
    BY <2>2, AbortType, FaultType DEF TypeOK
  <2> QED
    BY <2>1, <2>2, EndsLeaves
<1>4. persisted' \in [Scan -> SUBSET Finding] /\ embedded' \subseteq Tool
      /\ stored' \in [Tool -> SUBSET CapabilityVocab]
  <2>1. /\ persisted \in [Scan -> SUBSET Finding] /\ saved \in [Scan -> SUBSET Finding]
        /\ embedded \subseteq Tool /\ stored \in [Tool -> SUBSET CapabilityVocab]
        /\ wrote \in [Tool -> SUBSET CapabilityVocab]
    BY DEF TypeOK
  <2>2. CASE Commit(s)
    BY <2>1, <2>2 DEF Commit
  <2> QED
    BY <2>1, <2>2, EndsLeaves
<1> QED
  BY <1>1, <1>2, <1>3, <1>4, EndsLeaves, ReleaseType DEF TypeOK

LEMMA Steps ==
  ASSUME [Next]_vars
  PROVE  \/ UNCHANGED vars
         \/ \E s \in Scan : \/ GoesOn(s) \/ Ends(s) \/ Shadowed(s) \/ Judges(s)
                           \/ \E t \in Own(s) : Classifies(s, t)
BY DEF Next, Step, ToolStep, Failure, AllEnded, GoesOn, Ends, Shadowed, Judges, Classifies

LEMMA TypeNext == TypeOK /\ [Next]_vars => TypeOK'
<1> SUFFICES ASSUME TypeOK, [Next]_vars PROVE TypeOK'
  OBVIOUS
<1>1. CASE UNCHANGED vars
  BY <1>1 DEF TypeOK, vars, search, detect, tables, locks
<1> QED
  BY <1>1, Steps, TypeGoesOn, TypeEnds, TypeShadow, TypeJudges, TypeClassifies

\* Every run's state stays what it is meant to be: what is stored as a tool's
\* capabilities is from the vocabulary, whatever order its steps come in.
THEOREM TypeCorrect == Spec => []TypeOK
BY TypeInit, TypeNext, PTL DEF Spec

-----------------------------------------------------------------------------
\* A step of a run leaves the other runs, and what they hold, alone.
Acts(s) ==
  \/ GoesOn(s) \/ Ends(s) \/ Shadowed(s) \/ Judges(s)
  \/ \E t \in Own(s) : Classifies(s, t)

LEMMA OthersLocks ==
  ASSUME TypeOK, NEW s \in Scan, Acts(s), NEW r \in Scan \ {s}, NEW t \in Tool
  PROVE  (toolLock'[t] = r <=> toolLock[t] = r) /\ (capLock'[t] = r <=> capLock[t] = r)
<1>1. CASE Release(s)
  BY <1>1, ReleaseType
<1>2. CASE UNCHANGED <<toolLock, capLock>>
  BY <1>2
<1>3. CASE Shadow(s)
  <2>1. /\ toolLock[Head(todo[s])] \in {NoScan, s} /\ UNCHANGED capLock
        /\ toolLock' = [toolLock EXCEPT ![Head(todo[s])] = s]
    BY <1>3 DEF Shadow
  <2> QED
    BY <2>1 DEF TypeOK
<1>4. ASSUME NEW u \in Own(s), Store(s, u)
      PROVE  (toolLock'[t] = r <=> toolLock[t] = r) /\ (capLock'[t] = r <=> capLock[t] = r)
  BY <1>4 DEF TypeOK, Store
<1>5. Shadowed(s) => Shadow(s) \/ Release(s) \/ UNCHANGED <<toolLock, capLock>>
  BY DEF Shadowed, ShadowFails, ShadowInVain, ShadowDeadlock, Abort, locks
<1>6. (\E u \in Own(s) : Classifies(s, u)) =>
        (\E u \in Own(s) : Store(s, u)) \/ Release(s) \/ UNCHANGED <<toolLock, capLock>>
  BY DEF Classifies, Lookup, LookupFails, Classified, ClassifyFails, StoreStarts,
         StoreInVain, StoreFails, StoreDeadlock, Abort, locks
<1>7. GoesOn(s) => UNCHANGED <<toolLock, capLock>>
  BY DEF GoesOn, Load, RulesDone, EncodeFails, Gathered, Save, Link, locks
<1> QED
  BY <1>1, <1>2, <1>3, <1>4, <1>5, <1>6, <1>7, EndsLeaves, JudgesChanges DEF Acts

LEMMA Others ==
  ASSUME TypeOK, NEW s \in Scan, Acts(s), NEW r \in Scan \ {s}
  PROVE  /\ pc'[r] = pc[r] /\ tx'[r] = tx[r] /\ todo'[r] = todo[r] /\ task'[r] = task[r]
         /\ conn'[r] = conn[r] /\ verdict'[r] = verdict[r]
         /\ found'[r] = found[r] /\ saved'[r] = saved[r] /\ persisted'[r] = persisted[r]
<1> DEFINE Same == /\ pc'[r] = pc[r] /\ tx'[r] = tx[r] /\ todo'[r] = todo[r] /\ task'[r] = task[r]
                   /\ conn'[r] = conn[r] /\ verdict'[r] = verdict[r]
                   /\ found'[r] = found[r] /\ saved'[r] = saved[r] /\ persisted'[r] = persisted[r]
<1>1. CASE GoesOn(s)
  BY <1>1 DEF TypeOK, GoesOn, Load, RulesDone, EncodeFails, Gathered, Save, Link, search, detect
<1>2. CASE Ends(s)
  <2>1. pc'[r] = pc[r]
    BY <1>2 DEF TypeOK, Ends, Commit, LinkFails, SaveInVain, SaveFails, CommitFails, Kill, Raise
  <2>2. todo'[r] = todo[r] /\ task'[r] = task[r] /\ conn'[r] = conn[r] /\ verdict'[r] = verdict[r]
    BY <1>2, EndsLeaves, ForgetType
  <2>3. tx'[r] = tx[r] /\ found'[r] = found[r] /\ saved'[r] = saved[r]
    BY <1>2, EndsLeaves, AbortType
  <2>4. persisted'[r] = persisted[r]
    <3>1. persisted \in [Scan -> SUBSET Finding]
      BY DEF TypeOK
    <3>2. Commit(s) => persisted' = [persisted EXCEPT ![s] = @ \cup saved[s]]
      BY DEF Commit
    <3> QED
      BY <1>2, <3>1, <3>2, EndsLeaves
  <2> QED
    BY <2>1, <2>2, <2>3, <2>4
<1>3. CASE Shadowed(s)
  <2>1. /\ UNCHANGED <<pc, task, conn, verdict, found, persisted>> /\ todo' = [todo EXCEPT ![s] = Tail(@)]
        /\ Abort(s) \/ UNCHANGED <<tx, saved>>
    BY <1>3 DEF Shadowed, Shadow, ShadowFails, ShadowInVain, ShadowDeadlock, detect
  <2> QED
    BY <2>1, AbortType DEF TypeOK
<1>4. CASE Judges(s)
  BY <1>4, JudgesChanges DEF TypeOK
<1>5. ASSUME NEW t \in Own(s), Classifies(s, t) PROVE Same
  <2>1. /\ UNCHANGED <<pc, todo, verdict, found, persisted>> /\ (Abort(s) \/ UNCHANGED <<tx, saved>>)
        /\ \E x : task' = [task EXCEPT ![s][t] = x] \/ UNCHANGED task
        /\ \E x : conn' = [conn EXCEPT ![s] = x] \/ UNCHANGED conn
    BY <1>5 DEF Classifies, Lookup, LookupFails, Classified, ClassifyFails, StoreStarts, Store,
                StoreInVain, StoreFails, StoreDeadlock, StoreEnds, search
  <2> QED
    BY <2>1, AbortType DEF TypeOK
<1> QED
  BY <1>1, <1>2, <1>3, <1>4, <1>5 DEF Acts

LEMMA IInit == Init => IInv
<1> SUFFICES ASSUME Init PROVE IInv
  OBVIOUS
<1>1. EmbeddedFirst /\ StoredOwn
  BY DEF Init, EmbeddedFirst, StoredOwn
<1>2. SavedWhole /\ PersistedWhole /\ AnswersReported
  BY DEF Init, SavedWhole, PersistedWhole, AnswersReported
<1> QED
  BY <1>1, <1>2, TypeInit DEF IInv

\* The rows of tools: a run gets its own one by one as it embeds them, and
\* loses them with the transaction only.
LEMMA EmbeddedNext ==
  ASSUME IInv, NEW s \in Scan, Acts(s)
  PROVE  EmbeddedFirst'
<1>0. TypeOK /\ EmbeddedFirst
  BY DEF IInv
<1> DEFINE Embedded(r) ==
      pc[r] \notin {"begin"} \cup Ended /\ tx[r] = "open" =>
        \A t \in Own(r) : toolLock[t] = r \/ t \in Range(todo[r])
<1>1. ASSUME NEW r \in Scan \ {s} PROVE Embedded(r)'
  <2>1. \A t \in Own(r) : toolLock'[t] = r <=> toolLock[t] = r
    BY <1>0, OthersLocks DEF Own
  <2>2. pc'[r] = pc[r] /\ tx'[r] = tx[r] /\ todo'[r] = todo[r]
    BY <1>0, Others
  <2>3. Embedded(r)
    BY <1>0 DEF EmbeddedFirst
  <2> QED
    BY <2>1, <2>2, <2>3 DEF Own, Ended
<1>2. ASSUME UNCHANGED <<tx, todo, toolLock>>, pc[s] \notin {"begin"} \cup Ended PROVE Embedded(s)'
  BY <1>0, <1>2 DEF EmbeddedFirst, Own
<1>3. ASSUME tx'[s] = "aborted" \/ pc'[s] \in Ended PROVE Embedded(s)'
  BY <1>3 DEF Ended
<1>4. ASSUME \A t \in Own(s) : toolLock'[t] = s \/ t \in Range(todo'[s]) PROVE Embedded(s)'
  BY <1>4 DEF Own
<1> HIDE DEF Embedded
<1>5. ASSUME GoesOn(s) PROVE Embedded(s)'
  <2>1. ASSUME NEW o \in Orders(Own(s)), Load(s, o) PROVE Embedded(s)'
    <3>1. todo'[s] = o
      BY <1>0, <2>1 DEF TypeOK, Load
    <3>2. Range(o) = Own(s)
      BY OrdersOnto DEF Own
    <3> QED
      BY <1>4, <3>1, <3>2
  <2>2. RulesDone(s) \/ EncodeFails(s) \/ Gathered(s) \/ Save(s) \/ Link(s) =>
          UNCHANGED <<tx, todo, toolLock>> /\ pc[s] \notin {"begin"} \cup Ended
    BY DEF RulesDone, EncodeFails, Gathered, Save, Link, Shadowing, search, locks, Ended
  <2> QED
    BY <1>2, <1>5, <2>1, <2>2 DEF GoesOn
<1>6. ASSUME Ends(s) PROVE Embedded(s)'
  <2>1. LinkFails(s) => tx'[s] = "aborted"
    BY <1>0, AbortType DEF LinkFails
  <2>2. ~LinkFails(s) => pc'[s] \in Ended
    BY <1>0, <1>6 DEF TypeOK, Ends, Commit, SaveInVain, SaveFails, CommitFails, Kill, Raise, Ended
  <2> QED
    BY <1>3, <2>1, <2>2
<1>7. ASSUME Shadowed(s) PROVE Embedded(s)'
  <2>1. CASE Shadow(s)
    <3>1. /\ todo[s] \in Seq(Tool) /\ todo[s] # <<>> /\ UNCHANGED <<pc, tx>>
          /\ todo'[s] = Tail(todo[s]) /\ pc[s] = "shadow" /\ tx[s] = "open"
      BY <1>0, <2>1 DEF TypeOK, Shadow, Shadowing
    <3>2. Head(todo[s]) \in Tool /\ \A t \in Range(todo[s]) : t = Head(todo[s]) \/ t \in Range(todo'[s])
      BY <3>1, RangeOfTail
    <3>3. \A t \in Tool : toolLock'[t] = IF t = Head(todo[s]) THEN s ELSE toolLock[t]
      BY <1>0, <2>1 DEF TypeOK, Shadow
    <3>4. \A t \in Own(s) : toolLock[t] = s \/ t \in Range(todo[s])
      BY <1>0, <3>1 DEF EmbeddedFirst, Ended
    <3>5. ASSUME NEW t \in Own(s) PROVE toolLock'[t] = s \/ t \in Range(todo'[s])
      <4>1. t \in Tool
        BY DEF Own
      <4> QED
        BY <3>2, <3>3, <3>4, <4>1
    <3> QED
      BY <1>4, <3>5
  <2>2. CASE ShadowInVain(s)
    <3>1. tx'[s] = "aborted"
      BY <2>2 DEF ShadowInVain
    <3> QED
      BY <1>3, <3>1
  <2>3. CASE ShadowFails(s) \/ ShadowDeadlock(s)
    <3>1. tx'[s] = "aborted"
      BY <1>0, <2>3, AbortType DEF ShadowFails, ShadowDeadlock
    <3> QED
      BY <1>3, <3>1
  <2> QED
    BY <1>7, <2>1, <2>2, <2>3 DEF Shadowed
<1>8. ASSUME Judges(s) PROVE Embedded(s)'
  <2>1. pc[s] \notin {"begin"} \cup Ended
    BY <1>0, <1>8, JudgesChanges DEF Ended
  <2> QED
    BY <1>0, <1>2, <1>8, <2>1, JudgesChanges
<1>9. ASSUME NEW t \in Own(s), Classifies(s, t) PROVE Embedded(s)'
  <2>1. pc[s] \notin {"begin"} \cup Ended
    <3>1. CASE conn[s] = t
      <4>1. t # NoTool
        BY DEF Own
      <4> QED
        BY <3>1, <4>1 DEF IInv, StoredOwn, Ended
    <3>2. CASE conn[s] # t
      BY <1>9, <3>2 DEF Ended, Classifies, Lookup, LookupFails, Classified, ClassifyFails, StoreStarts,
                        Store, StoreInVain, StoreFails, StoreDeadlock
    <3> QED
      BY <3>1, <3>2
  <2>2. Abort(s) \/ UNCHANGED <<tx, todo, toolLock>>
    BY <1>9 DEF Classifies, Lookup, LookupFails, Classified, ClassifyFails, StoreStarts, Store,
                StoreInVain, StoreFails, StoreDeadlock, StoreEnds, search, locks
  <2> QED
    BY <1>0, <1>2, <1>3, <2>1, <2>2, AbortType
<1>10. Embedded(s)'
  BY <1>5, <1>6, <1>7, <1>8, <1>9 DEF Acts
<1> QED
  BY <1>1, <1>10 DEF EmbeddedFirst, Embedded

\* The rows of tool_capabilities: written through the connection, by a run that
\* gathers and whose transaction is open.
LEMMA StoredNext ==
  ASSUME IInv, NEW s \in Scan, Acts(s)
  PROVE  StoredOwn'
<1>0. TypeOK /\ StoredOwn
  BY DEF IInv
<1> DEFINE Held(r) == \A t \in Tool : capLock[t] = r =>
             t \in Own(r) /\ tx[r] = "open" /\ pc[r] \in {"gather", "save", "link", "commit"}
           Conn(r) == conn[r] # NoTool => pc[r] = "gather" /\ conn[r] \in Own(r) /\ task[r][conn[r]] = "store"
<1>1. \A r \in Scan : Held(r) /\ Conn(r)
  BY <1>0 DEF StoredOwn
<1>2. ASSUME NEW r \in Scan \ {s} PROVE Held(r)' /\ Conn(r)'
  <2>1. /\ \A t \in Tool : capLock'[t] = r <=> capLock[t] = r
        /\ tx'[r] = tx[r] /\ pc'[r] = pc[r] /\ conn'[r] = conn[r] /\ task'[r] = task[r]
    BY <1>0, OthersLocks, Others
  <2> QED
    BY <1>1, <2>1 DEF Own
<1>3. ASSUME Release(s) PROVE Held(s)'
  <2>1. \A t \in Tool : capLock'[t] # s
    BY <1>0, <1>3, ReleaseType
  <2> QED
    BY <2>1
<1>4. ASSUME GoesOn(s) PROVE Held(s)' /\ Conn(s)'
  <2>1. UNCHANGED <<tx, capLock, conn, task>>
    BY <1>4 DEF GoesOn, Load, RulesDone, EncodeFails, Gathered, Save, Link, detect, locks
  <2>2. Held(s)'
    <3>1. pc'[s] \in {"gather", "save", "link", "commit"} \/ pc[s] = "begin"
      BY <1>0, <1>4 DEF TypeOK, GoesOn, Load, RulesDone, EncodeFails, Gathered, Save, Link
    <3> QED
      BY <1>1, <2>1, <3>1 DEF Own
  <2>3. conn[s] = NoTool
    <3>1. Gathered(s) => \A t \in Own(s) : task[s][t] = "done"
      BY DEF Gathered
    <3>2. pc[s] = "gather" => Gathered(s)
      BY <1>4 DEF GoesOn, Load, RulesDone, EncodeFails, Shadowing, Save, Link
    <3> QED
      BY <1>1, <3>1, <3>2
  <2> QED
    BY <2>1, <2>2, <2>3
<1>5. ASSUME Ends(s) PROVE Held(s)' /\ Conn(s)'
  <2>1. CASE LinkFails(s)
    <3>1. pc[s] = "link" /\ UNCHANGED conn
      BY <2>1 DEF LinkFails, detect
    <3> QED
      BY <1>1, <1>3, <1>5, <3>1, EndsLeaves
  <2>2. CASE Forget(s)
    BY <1>0, <1>3, <1>5, <2>2, EndsLeaves, ForgetType
  <2> QED
    BY <1>5, <2>1, <2>2, EndsLeaves
<1>6. ASSUME Shadowed(s) PROVE Held(s)' /\ Conn(s)'
  <2>1. /\ pc[s] = "shadow" /\ UNCHANGED <<pc, conn>>
        /\ Abort(s) \/ UNCHANGED <<tx, capLock>>
    BY <1>6 DEF Shadowed, Shadow, ShadowFails, ShadowInVain, ShadowDeadlock, Shadowing, detect, locks
  <2> QED
    BY <1>0, <1>1, <1>3, <2>1, AbortType DEF Own
<1>7. ASSUME Judges(s) PROVE Held(s)' /\ Conn(s)'
  BY <1>1, <1>7, JudgesChanges, <1>0 DEF Own
<1>8. ASSUME NEW t \in Own(s), Classifies(s, t) PROVE Held(s)' /\ Conn(s)'
  <2>0. t \in Tool /\ t # NoTool /\ UNCHANGED pc
    BY <1>8 DEF Own, Classifies, Lookup, LookupFails, Classified, ClassifyFails, StoreStarts, Store,
                StoreInVain, StoreFails, StoreDeadlock, StoreEnds
  <2>1. Held(s)'
    <3>1. CASE Store(s, t)
      <4>1. /\ conn[s] = t /\ tx[s] = "open" /\ UNCHANGED <<pc, tx>>
            /\ \A u \in Tool : capLock'[u] = IF u = t THEN s ELSE capLock[u]
        BY <1>0, <2>0, <3>1 DEF TypeOK, Store, StoreEnds
      <4> QED
        BY <1>1, <2>0, <4>1 DEF Own
    <3>2. CASE Abort(s)
      BY <1>0, <1>3, <3>2, AbortType
    <3>3. CASE UNCHANGED <<tx, capLock>>
      BY <1>1, <2>0, <3>3 DEF Own
    <3> QED
      BY <1>8, <3>1, <3>2, <3>3 DEF Classifies, Lookup, LookupFails, Classified, ClassifyFails,
           StoreStarts, StoreInVain, StoreFails, StoreDeadlock, locks
  <2>2. Conn(s)'
    <3>1. CASE StoreStarts(s, t)
      <4>1. conn'[s] = t /\ pc[s] = "gather" /\ UNCHANGED task /\ task[s][t] = "store"
        BY <1>0, <3>1 DEF TypeOK, StoreStarts
      <4> QED
        BY <2>0, <4>1 DEF Own
    <3>2. CASE StoreEnds(s, t)
      BY <1>0, <3>2 DEF TypeOK, StoreEnds
    <3>3. CASE Lookup(s, t) \/ LookupFails(s, t) \/ Classified(s, t) \/ ClassifyFails(s, t)
      <4>1. /\ UNCHANGED conn
            /\ \A u \in Tool \ {t} : task'[s][u] = task[s][u]
            /\ conn[s] = NoTool \/ task[s][t] = "llm"
        BY <1>0, <2>0, <3>3 DEF TypeOK, Lookup, LookupFails, Classified, ClassifyFails
      <4>2. CASE conn[s] = NoTool
        BY <4>1, <4>2
      <4>3. CASE conn[s] # NoTool
        <5>1. conn[s] # t /\ conn[s] \in Tool
          BY <1>1, <4>1, <4>3 DEF Own
        <5> QED
          BY <1>1, <2>0, <4>1, <4>3, <5>1 DEF Own
      <4> QED
        BY <4>2, <4>3
    <3> QED
      BY <1>8, <3>1, <3>2, <3>3 DEF Classifies, Store, StoreInVain, StoreFails, StoreDeadlock
  <2> QED
    BY <2>1, <2>2
<1>9. Held(s)' /\ Conn(s)'
  BY <1>4, <1>5, <1>6, <1>7, <1>8 DEF Acts
<1> QED
  BY <1>2, <1>9 DEF StoredOwn

\* The rows of findings: what is uncommitted is all of a run's findings or
\* nothing, and so is what its commit adds.
LEMMA SavedNext ==
  ASSUME IInv, NEW s \in Scan, Acts(s)
  PROVE  SavedWhole' /\ PersistedWhole'
<1>0. TypeOK /\ SavedWhole /\ PersistedWhole
  BY DEF IInv
<1> DEFINE Saved(r) == saved[r] # {} => pc[r] \in {"link", "commit", "returned"} /\ saved[r] = found[r]
           Kept(r) == persisted[r] # {} => pc[r] = "returned" /\ persisted[r] = found[r]
<1>1. \A r \in Scan : Saved(r) /\ Kept(r)
  BY <1>0 DEF SavedWhole, PersistedWhole
<1>2. ASSUME NEW r \in Scan \ {s} PROVE Saved(r)' /\ Kept(r)'
  BY <1>0, <1>1, Others
<1>3. ASSUME Abort(s), UNCHANGED <<found, persisted>>, pc[s] \notin Ended PROVE Saved(s)' /\ Kept(s)'
  BY <1>0, <1>1, <1>3, AbortType DEF Ended
<1>4. ASSUME UNCHANGED <<pc, found, saved, persisted>> PROVE Saved(s)' /\ Kept(s)'
  BY <1>1, <1>4
<1>5. ASSUME GoesOn(s) PROVE Saved(s)' /\ Kept(s)'
  <2>1. CASE Save(s)
    BY <1>0, <1>1, <2>1 DEF TypeOK, Save
  <2>2. CASE Gathered(s)
    BY <1>0, <1>1, <2>2 DEF TypeOK, Gathered
  <2>3. CASE \/ \E o \in Orders(Own(s)) : Load(s, o)
             \/ RulesDone(s) \/ EncodeFails(s) \/ Link(s)
    BY <1>0, <1>1, <2>3 DEF TypeOK, Load, RulesDone, EncodeFails, Shadowing, Link
  <2> QED
    BY <1>5, <2>1, <2>2, <2>3 DEF GoesOn
<1>6. ASSUME Ends(s) PROVE Saved(s)' /\ Kept(s)'
  <2>1. CASE Commit(s)
    <3>1. /\ pc[s] = "commit" /\ pc'[s] = "returned" /\ UNCHANGED <<found, saved>>
          /\ persisted'[s] = persisted[s] \cup saved[s]
      BY <1>0, <2>1 DEF TypeOK, Commit
    <3> QED
      BY <1>1, <3>1
  <2>2. CASE ~Commit(s)
    <3>1. Abort(s) /\ UNCHANGED <<found, persisted>>
      BY <1>6, <2>2, EndsLeaves
    <3>2. pc[s] \notin Ended
      BY <1>6, <2>2 DEF Ends, LinkFails, SaveInVain, SaveFails, CommitFails, Kill, Ended
    <3> QED
      BY <1>3, <3>1, <3>2
  <2> QED
    BY <2>1, <2>2
<1>7. ASSUME Shadowed(s) PROVE Saved(s)' /\ Kept(s)'
  <2>1. /\ pc[s] = "shadow" /\ UNCHANGED <<pc, found, persisted>>
        /\ Abort(s) \/ UNCHANGED saved
    BY <1>7 DEF Shadowed, Shadow, ShadowFails, ShadowInVain, ShadowDeadlock, Shadowing
  <2> QED
    BY <1>3, <1>4, <2>1 DEF Ended
<1>8. ASSUME Judges(s) PROVE Saved(s)' /\ Kept(s)'
  BY <1>0, <1>4, <1>8, JudgesChanges
<1>9. ASSUME NEW t \in Own(s), Classifies(s, t) PROVE Saved(s)' /\ Kept(s)'
  <2>1. UNCHANGED <<pc, found, persisted>> /\ (Abort(s) \/ UNCHANGED saved)
    BY <1>9 DEF Classifies, Lookup, LookupFails, Classified, ClassifyFails, StoreStarts, Store,
                StoreInVain, StoreFails, StoreDeadlock, StoreEnds
  <2>2. saved'[s] = saved[s] \/ saved'[s] = {}
    BY <1>0, <2>1, AbortType
  <2> QED
    BY <1>1, <2>1, <2>2
<1> QED
  BY <1>2, <1>5, <1>6, <1>7, <1>8, <1>9 DEF Acts, SavedWhole, PersistedWhole

\* The verdicts: none comes in after they are gathered, and what has been found
\* does not change afterwards.
LEMMA AnswersNext ==
  ASSUME IInv, NEW s \in Scan, Acts(s)
  PROVE  AnswersReported'
<1>0. TypeOK /\ AnswersReported
  BY DEF IInv
<1> DEFINE Told(r) == pc[r] \in {"save", "link", "commit"} =>
             \A c \in Calls(r) : verdict[r][c] = "reported" => VerdictFinding(c) \in found[r]
<1>1. \A r \in Scan : Told(r)
  BY <1>0 DEF AnswersReported
<1>2. ASSUME NEW r \in Scan \ {s} PROVE Told(r)'
  BY <1>0, <1>1, Others DEF Calls, Own, VerdictFinding
<1>3. ASSUME UNCHANGED <<verdict, found>>,
             pc'[s] \notin {"save", "link", "commit"} \/ pc[s] \in {"save", "link", "commit"}
      PROVE  Told(s)'
  BY <1>1, <1>3 DEF Calls, Own, VerdictFinding
<1>4. ASSUME GoesOn(s) PROVE Told(s)'
  <2>1. CASE Gathered(s)
    <3>1. PICK last : found' = [found EXCEPT ![s] = Found(s, last)]
      BY <2>1 DEF Gathered
    <3>2. found'[s] = Found(s, last) /\ UNCHANGED verdict
      BY <1>0, <2>1, <3>1 DEF TypeOK, Gathered, detect
    <3>3. \A c \in Calls(s) : verdict[s][c] = "reported" => VerdictFinding(c) \in Found(s, last)
      BY DEF Found, VerdictFindings
    <3> QED
      BY <3>2, <3>3 DEF Calls, Own, VerdictFinding
  <2>2. CASE ~Gathered(s)
    <3>1. UNCHANGED <<verdict, found>>
      BY <1>4, <2>2 DEF GoesOn, Load, RulesDone, EncodeFails, Save, Link, detect
    <3>2. pc'[s] \notin {"save", "link", "commit"} \/ pc[s] \in {"save", "link", "commit"}
      BY <1>0, <1>4, <2>2 DEF TypeOK, GoesOn, Load, RulesDone, EncodeFails, Save, Link
    <3> QED
      BY <1>3, <3>1, <3>2
  <2> QED
    BY <2>1, <2>2
<1>5. ASSUME Ends(s) PROVE Told(s)'
  <2>1. CASE LinkFails(s)
    <3>1. UNCHANGED <<verdict, found>> /\ pc[s] = "link"
      BY <2>1 DEF LinkFails, detect
    <3> QED
      BY <1>3, <3>1
  <2>2. CASE ~LinkFails(s)
    <3>1. pc'[s] \in Ended
      BY <1>0, <1>5, <2>2 DEF TypeOK, Ends, Commit, SaveInVain, SaveFails, CommitFails, Kill, Raise, Ended
    <3> QED
      BY <3>1 DEF Ended
  <2> QED
    BY <2>1, <2>2
<1>6. ASSUME Shadowed(s) PROVE Told(s)'
  <2>1. UNCHANGED <<pc, verdict, found>>
    BY <1>6 DEF Shadowed, Shadow, ShadowFails, ShadowInVain, ShadowDeadlock, detect
  <2> QED
    BY <1>3, <2>1
<1>7. ASSUME Judges(s) PROVE Told(s)'
  BY <1>0, <1>7, JudgesChanges
<1>8. ASSUME NEW t \in Own(s), Classifies(s, t) PROVE Told(s)'
  <2>1. UNCHANGED <<pc, verdict, found>>
    BY <1>8 DEF Classifies, Lookup, LookupFails, Classified, ClassifyFails, StoreStarts, Store,
                StoreInVain, StoreFails, StoreDeadlock, StoreEnds
  <2> QED
    BY <1>3, <2>1
<1>9. Told(s)'
  BY <1>4, <1>5, <1>6, <1>7, <1>8 DEF Acts
<1> QED
  BY <1>2, <1>9 DEF AnswersReported

LEMMA INext == IInv /\ [Next]_vars => IInv'
<1> SUFFICES ASSUME IInv, [Next]_vars PROVE IInv'
  OBVIOUS
<1>1. TypeOK'
  BY TypeNext DEF IInv
<1>2. CASE UNCHANGED vars
  BY <1>1, <1>2 DEF IInv, EmbeddedFirst, StoredOwn, SavedWhole, PersistedWhole, AnswersReported,
                    Calls, Own, vars, search, detect, tables, locks
<1>3. ASSUME NEW s \in Scan, Acts(s) PROVE IInv'
  BY <1>1, <1>3, EmbeddedNext, StoredNext, SavedNext, AnswersNext DEF IInv
<1> QED
  BY <1>2, <1>3, Steps DEF Acts

\* The inductive invariant: which rows a run holds at which step, and that its
\* findings are written all together.
THEOREM RunInvariant == Spec => []IInv
BY IInit, INext, PTL DEF Spec

\* A run that stores a tool's capabilities holds the tool's row already, or has
\* still to embed it: two runs never meet on a row of tool_capabilities but
\* after an encoder's failure.
THEOREM UncontendedCapabilities == Spec => []CapabilitiesUncontended
<1>1. IInv => CapabilitiesUncontended
  <2> SUFFICES ASSUME IInv, NEW t \in Tool, capLock[t] # NoScan
               PROVE  toolLock[t] = capLock[t] \/ t \in Range(todo[capLock[t]])
    BY DEF CapabilitiesUncontended
  <2>1. capLock[t] \in Scan
    BY DEF IInv, TypeOK
  <2>2. /\ t \in Own(capLock[t]) /\ tx[capLock[t]] = "open"
        /\ pc[capLock[t]] \in {"gather", "save", "link", "commit"}
    BY <2>1 DEF IInv, StoredOwn
  <2> QED
    BY <2>1, <2>2 DEF IInv, EmbeddedFirst, Ended
<1> QED
  BY <1>1, RunInvariant, PTL

\* A run's findings reach the database all together or not at all, whichever of
\* its statements fails and whoever swallows the exception.
THEOREM FindingsWhole == Spec => []PersistedWhole
<1>1. IInv => PersistedWhole
  BY DEF IInv
<1> QED
  BY <1>1, RunInvariant, PTL

\* Every finding the model's answers call for is among those a run saves, in
\* whatever order the answers come and whichever other calls fail.
THEOREM AnswersKept == Spec => []AnswersReported
<1>1. IInv => AnswersReported
  BY DEF IInv
<1> QED
  BY <1>1, RunInvariant, PTL
=============================================================================
