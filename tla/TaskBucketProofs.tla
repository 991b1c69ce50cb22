-------------------------- MODULE TaskBucketProofs --------------------------
(***************************************************************************)
(* CommittedTasksAccounted of the derivation tasks, proved for any number  *)
(* of versions, partitions, workers and crashes, and BurstBound of a       *)
(* tenant's token bucket, for any rate, burst and number of calls.         *)
(*                                                                         *)
(* The argument for tasks: the offsets alone are not inductive, since      *)
(* committing one offset covers every earlier message whose own commit     *)
(* failed.  So the invariant speaks of the position in memory: everything  *)
(* before it is accounted for, except the message in hand (Handled), and   *)
(* what is known of that one depends on how far the consumer is with it    *)
(* (InHand).                                                               *)
(***************************************************************************)
EXTENDS Derivation, TenantBucket, Integers, TLAPS

-----------------------------------------------------------------------------
(* Derivation tasks *)

\* Finished by every worker that wants it and, if there is one, dead-lettered
\* or lost in that write.
Accounted(v) == Settled(v) /\ (WantedBy(v) # {} => v \in kdlq \cup undlq)

Types == /\ mode \in {"bridge", "kafka"}
         /\ cons \in Consumer
         /\ topic \in [Partitions -> Seq(Versions)]
         /\ job \in [Workers -> Job]

\* A behaviour has one route.
OneRoute == /\ mode = "bridge" => cons.pc = "fetch"
            /\ mode = "kafka" => bridge = "consume"

Positions == \A p \in Partitions : /\ cons.committed[p] <= cons.pos[p]
                                   /\ cons.pos[p] <= Len(topic[p])

Handled == \A p \in Partitions : \A i \in 1 .. cons.pos[p] :
              \/ p = cons.part /\ i = cons.pos[p]
              \/ Accounted(topic[p][i])

\* A goroutine of the pool, whose event has no chunks: it can only fail.
Failing(w) == /\ job[w].pc \in {"attempt", "enqueue", "save", "done"}
              /\ job[w].pc # "attempt" => job[w].status = "FAILED"
              /\ job[w].pc = "done" => <<cur, w>> \in settled

InHand ==
    IF cons.pc = "fetch" THEN cons.part = None
    ELSE /\ cons.part \in Partitions
         /\ cons.committed[cons.part] < cons.pos[cons.part]
         /\ cur = topic[cons.part][cons.pos[cons.part]]
         /\ cons.pc = "work" => \A w \in WantedBy(cur) : Failing(w)
         /\ cons.pc = "dlq" => Settled(cur)
         /\ cons.pc = "commit" => Accounted(cur)

TaskInv == Types /\ OneRoute /\ Positions /\ Handled /\ InHand

-----------------------------------------------------------------------------
\* The invariant gives the property: the message in hand is never committed.
LEMMA TaskInvSuffices == TaskInv => CommittedTasksAccounted
<1> SUFFICES ASSUME TaskInv, NEW p \in Partitions, NEW i \in 1 .. cons.committed[p]
             PROVE  Accounted(topic[p][i])
  BY DEF CommittedTasksAccounted, Accounted
<1>1. /\ cons.pos[p] \in Nat /\ cons.committed[p] \in Nat /\ cons.committed[p] <= cons.pos[p]
  BY DEF TaskInv, Types, Positions, Consumer
<1>2. cons.part = p => i # cons.pos[p]
  <2>1. CASE cons.pc = "fetch"
    BY <2>1, DerivationAssumption DEF TaskInv, InHand
  <2>2. CASE cons.pc # "fetch"
    BY <2>2, <1>1 DEF TaskInv, InHand
  <2> QED  BY <2>1, <2>2
<1> QED  BY <1>1, <1>2 DEF TaskInv, Handled

\* Before anything is committed the invariant holds.
LEMMA TaskInitInv == DerivationInit => TaskInv
<1> SUFFICES ASSUME DerivationInit PROVE TaskInv
  OBVIOUS
<1> DEFINE z == [p \in Partitions |-> 0]
<1>1. /\ cons = [pc |-> "fetch", part |-> None, pos |-> z, committed |-> z]
      /\ z \in [Partitions -> Nat] /\ \A p \in Partitions : z[p] = 0
  BY DEF DerivationInit, NoConsumer
<1> HIDE DEF z
<1>2. /\ cons \in Consumer /\ cons.pc = "fetch" /\ cons.part = None
      /\ \A p \in Partitions : cons.pos[p] = 0 /\ cons.committed[p] = 0
  BY <1>1 DEF Consumer
<1>3. NoJob \in Job
  BY PoolAssumption DEF NoJob, Job
<1>4. Types
  BY <1>2, <1>3 DEF DerivationInit, PoolInit, Types
<1>5. OneRoute /\ InHand
  BY <1>2 DEF DerivationInit, OneRoute, InHand
<1>6. Positions /\ Handled
  BY <1>2, <1>4 DEF Types, Positions, Handled
<1> QED  BY <1>4, <1>5, <1>6 DEF TaskInv

\* A step that leaves the consumer alone, and either its event too or nothing
\* in hand, keeps the invariant.
LEMMA OtherSteps ==
    ASSUME TaskInv, UNCHANGED <<mode, cons, kdlq, undlq>>, settled \subseteq settled',
           topic' \in [Partitions -> Seq(Versions)],
           \A p \in Partitions : /\ Len(topic'[p]) >= Len(topic[p])
                                 /\ \A i \in 1 .. Len(topic[p]) : topic'[p][i] = topic[p][i],
           job' \in [Workers -> Job],
           mode = "kafka" => bridge' = "consume",
           cons.pc = "fetch" \/ UNCHANGED <<cur, job>>
    PROVE  TaskInv'
<1>1. Types' /\ OneRoute'
  BY DEF TaskInv, Types, OneRoute
<1>2. /\ cons.pos \in [Partitions -> Nat] /\ cons.committed \in [Partitions -> Nat]
      /\ \A p \in Partitions : Len(topic[p]) \in Nat /\ Len(topic'[p]) \in Nat
      /\ \A p \in Partitions : cons.pos[p] <= Len(topic[p])
  BY DEF TaskInv, Types, Consumer, Positions
<1>3. Positions'
  BY <1>2 DEF TaskInv, Positions
<1>4. Handled'
  <2> SUFFICES ASSUME NEW p \in Partitions, NEW i \in 1 .. cons.pos[p],
                      ~(p = cons.part /\ i = cons.pos[p])
               PROVE  (Settled(topic[p][i]) /\ (WantedBy(topic[p][i]) # {}
                         => topic[p][i] \in kdlq \cup undlq))'
    BY DEF Handled, Accounted
  <2>1. Accounted(topic[p][i]) /\ i \in 1 .. Len(topic[p])
    BY <1>2 DEF TaskInv, Handled
  <2>2. topic'[p][i] = topic[p][i]
    BY <2>1
  <2> QED  BY <2>1, <2>2 DEF Accounted, Settled, WantedBy
<1>5. InHand'
  <2>1. CASE cons.pc = "fetch"
    BY <2>1 DEF TaskInv, InHand
  <2>2. CASE cons.pc # "fetch"
    <3>1. /\ cons.part \in Partitions /\ UNCHANGED <<cur, job>>
          /\ cons.committed[cons.part] < cons.pos[cons.part]
          /\ cur = topic[cons.part][cons.pos[cons.part]]
      BY <2>2 DEF TaskInv, InHand
    <3>2. cons.pos[cons.part] \in 1 .. Len(topic[cons.part])
      BY <1>2, <3>1
    <3>3. topic'[cons.part][cons.pos[cons.part]] = cur
      BY <3>1, <3>2
    <3>4. /\ cons.pc = "work" => \A w \in WantedBy(cur) : Failing(w)'
          /\ cons.pc = "dlq" => Settled(cur)'
          /\ cons.pc = "commit" => Accounted(cur)'
      BY <2>2, <3>1 DEF TaskInv, InHand, Failing, Settled, Accounted, WantedBy
    <3> QED  BY <2>2, <3>1, <3>3, <3>4 DEF InHand, WantedBy
  <2> QED  BY <2>1, <2>2
<1> QED  BY <1>1, <1>3, <1>4, <1>5 DEF TaskInv

-----------------------------------------------------------------------------
\* ProcessEvent starts goroutines of the right type, which fail or attempt.
LEMMA EventStarts ==
    ASSUME NEW v, ProcessEvent(v)
    PROVE  /\ job' \in [Workers -> Job]
           /\ \A w \in WantedBy(v) : job'[w].pc = "attempt"
<1>1. \A w \in Workers : job'[w] \in Job
  BY PoolAssumption DEF ProcessEvent, NoJob, Job
<1> QED  BY <1>1 DEF ProcessEvent, WantedBy, NoJob

\* Fetching a message puts it in hand; those before it were handled.
LEMMA FetchStep ==
    ASSUME TaskInv, NEW q \in Partitions, ConsumerFetch(q) PROVE TaskInv'
<1> USE DEF ConsumerFetch
<1>1. /\ cons \in Consumer /\ topic \in [Partitions -> Seq(Versions)]
      /\ cons.part = None /\ cons.pos[q] \in Nat
  BY DEF TaskInv, Types, InHand, Consumer
<1>2. /\ cons'.pc = "work" /\ cons'.part = q /\ cons'.committed = cons.committed
      /\ cons'.pos = [cons.pos EXCEPT ![q] = @ + 1]
      /\ cons' \in Consumer
  <2> DEFINE up == [cons.pos EXCEPT ![q] = @ + 1]
  <2>1. up \in [Partitions -> Nat]
    BY <1>1 DEF Consumer
  <2>2. cons' = [cons EXCEPT !.pc = "work", !.part = q, !.pos = up]
    BY <1>1 DEF Consumer
  <2> HIDE DEF up
  <2>3. /\ cons'.pc = "work" /\ cons'.part = q /\ cons'.committed = cons.committed
        /\ cons'.pos = up /\ cons' \in Consumer
    BY <1>1, <2>1, <2>2 DEF Consumer
  <2> QED  BY <2>3 DEF up
<1>3. Types' /\ OneRoute'
  BY <1>2, EventStarts DEF TaskInv, Types, OneRoute
<1>4. /\ cons'.pos[q] = cons.pos[q] + 1
      /\ \A p \in Partitions : p # q => cons'.pos[p] = cons.pos[p]
  BY <1>1, <1>2 DEF Consumer
<1>5. Positions'
  <2> SUFFICES ASSUME NEW p \in Partitions
               PROVE  cons'.committed[p] <= cons'.pos[p] /\ cons'.pos[p] <= Len(topic[p])
    BY DEF Positions
  <2>1. /\ cons.committed[p] \in Nat /\ cons.pos[p] \in Nat /\ Len(topic[p]) \in Nat
        /\ cons.committed[p] <= cons.pos[p] /\ cons.pos[p] <= Len(topic[p])
    BY <1>1 DEF TaskInv, Positions, Consumer
  <2>2. p = q => cons.pos[p] < Len(topic[p])
    OBVIOUS
  <2> QED  BY <1>2, <1>4, <2>1, <2>2
<1>6. Handled'
  <2> SUFFICES ASSUME NEW p \in Partitions, NEW i \in 1 .. cons'.pos[p],
                      ~(p = q /\ i = cons'.pos[p])
               PROVE  (Settled(topic[p][i]) /\ (WantedBy(topic[p][i]) # {}
                         => topic[p][i] \in kdlq \cup undlq))'
    BY <1>2 DEF Handled, Accounted
  <2>1. i \in 1 .. cons.pos[p] /\ p # None
    BY SMTT(30), <1>1, <1>4, DerivationAssumption
  <2>2. Accounted(topic[p][i])
    BY <1>1, <2>1 DEF TaskInv, Handled
  <2> QED  BY <2>2 DEF Accounted, Settled, WantedBy
<1>7. InHand'
  <2>1. cons.committed[q] < cons'.pos[q]
    BY <1>1, <1>4 DEF TaskInv, Positions, Consumer
  <2>2. \A w \in WantedBy(cur') : Failing(w)'
    BY EventStarts DEF Failing
  <2>3. \A w \in WantedBy(cur)' : Failing(w)'
    BY <2>2 DEF WantedBy
  <2> QED  BY <1>2, <1>4, <2>1, <2>3 DEF InHand
<1> QED  BY <1>3, <1>5, <1>6, <1>7 DEF TaskInv

\* A step of the consumer with the message in hand that only moves its pc.
LEMMA SamePlace ==
    ASSUME TaskInv, UNCHANGED <<mode, bridge, topic, settled, cur>>,
           mode = "kafka", kdlq \cup undlq \subseteq kdlq' \cup undlq',
           NEW s \in {"dlq", "commit"}, cons' = [cons EXCEPT !.pc = s],
           job' \in [Workers -> Job], cons.pc # "fetch",
           s = "dlq" => Settled(cur), s = "commit" => Accounted(cur)'
    PROVE  TaskInv'
<1>1. /\ cons'.pc = s /\ cons'.part = cons.part /\ cons'.pos = cons.pos
      /\ cons'.committed = cons.committed /\ cons' \in Consumer
  BY DEF TaskInv, Types, Consumer
<1>2. Types' /\ OneRoute' /\ Positions'
  BY <1>1 DEF TaskInv, Types, OneRoute, Positions
<1>3. Handled'
  BY <1>1 DEF TaskInv, Handled, Accounted, Settled, WantedBy
<1>4. InHand'
  BY <1>1 DEF TaskInv, InHand, Settled, WantedBy
<1> QED  BY <1>2, <1>3, <1>4 DEF TaskInv

\* processMessage returns: what any worker wants has failed.
LEMMA ProcessStep == TaskInv /\ ProcessMessage => TaskInv'
<1> SUFFICES ASSUME TaskInv, ProcessMessage PROVE TaskInv'
  OBVIOUS
<1>1. mode = "kafka" /\ \A w \in WantedBy(cur) : Failing(w)
  BY DEF TaskInv, Types, OneRoute, InHand, ProcessMessage
<1>2. \A w \in WantedBy(cur) : /\ job[w].status = "FAILED"
                               /\ <<cur, w>> \in settled
                               /\ w \in Workers
  BY <1>1 DEF ProcessMessage, AllDone, Failing, WantedBy
<1>3. Settled(cur) /\ (~AnyFailed => WantedBy(cur) = {})
  BY <1>2 DEF Settled, AnyFailed
<1>4. NoJob \in Job
  BY PoolAssumption DEF NoJob, Job
<1>5. job' \in [Workers -> Job]
  BY <1>4 DEF ProcessMessage
<1>6. CASE AnyFailed
  <2>1. cons' = [cons EXCEPT !.pc = "dlq"]
    BY <1>6 DEF ProcessMessage
  <2> QED  BY <1>1, <1>3, <1>5, <2>1, SamePlace DEF ProcessMessage
<1>7. CASE ~AnyFailed
  <2>1. cons' = [cons EXCEPT !.pc = "commit"] /\ Accounted(cur)'
    BY <1>3, <1>7 DEF ProcessMessage, Accounted, Settled, WantedBy
  <2> QED  BY <1>1, <1>5, <2>1, SamePlace DEF ProcessMessage
<1> QED  BY <1>6, <1>7

\* The dead letter is written, or its error dropped.
LEMMA DlqStep == TaskInv /\ SendToDLQ => TaskInv'
<1> SUFFICES ASSUME TaskInv, SendToDLQ PROVE TaskInv'
  OBVIOUS
<1>1. /\ mode = "kafka" /\ Settled(cur)
      /\ cons' = [cons EXCEPT !.pc = "commit"] /\ cons.pc # "fetch"
  BY DEF TaskInv, Types, OneRoute, InHand, SendToDLQ
<1>2. Accounted(cur)' /\ kdlq \cup undlq \subseteq kdlq' \cup undlq'
  BY <1>1 DEF SendToDLQ, Accounted, Settled, WantedBy, poolVars
<1>3. UNCHANGED <<mode, bridge, topic, settled, cur, job>>
  BY DEF SendToDLQ, poolVars
<1> QED  BY <1>1, <1>2, <1>3, SamePlace DEF TaskInv, Types

\* The offset moves past the message in hand, which is accounted for.
LEMMA OffsetStep == TaskInv /\ ConsumerCommit => TaskInv'
<1> SUFFICES ASSUME TaskInv, ConsumerCommit PROVE TaskInv'
  OBVIOUS
<1> DEFINE q == cons.part
<1>1. /\ mode = "kafka" /\ q \in Partitions /\ Accounted(cur)
      /\ cur = topic[q][cons.pos[q]] /\ cons \in Consumer
  BY DEF TaskInv, Types, OneRoute, InHand, ConsumerCommit
<1>2. /\ cons'.pc = "fetch" /\ cons'.part = None /\ cons'.pos = cons.pos
      /\ cons' \in Consumer
      /\ \A p \in Partitions : cons'.committed[p] \in {cons.committed[p], cons.pos[p]}
  <2> DEFINE fetch == [cons EXCEPT !.pc = "fetch", !.part = None]
  <2>1. /\ fetch \in Consumer /\ fetch.pc = "fetch" /\ fetch.part = None
        /\ fetch.pos = cons.pos /\ fetch.committed = cons.committed
    BY <1>1 DEF Consumer
  <2>2. cons' \in {fetch, [fetch EXCEPT !.committed[q] = cons.pos[q]]}
    BY DEF ConsumerCommit
  <2> HIDE DEF fetch, q
  <2>3. CASE cons' = fetch
    BY <2>1, <2>3
  <2>4. CASE cons' = [fetch EXCEPT !.committed[q] = cons.pos[q]]
    BY <1>1, <2>1, <2>4 DEF Consumer
  <2> QED  BY <2>2, <2>3, <2>4
<1>3. UNCHANGED <<mode, bridge, topic, settled, job, kdlq, undlq>>
  BY DEF ConsumerCommit, poolVars
<1>4. Types' /\ OneRoute' /\ InHand'
  BY <1>2, <1>3 DEF TaskInv, Types, OneRoute, InHand
<1>5. Positions'
  <2> SUFFICES ASSUME NEW p \in Partitions
               PROVE  cons'.committed[p] <= cons'.pos[p] /\ cons'.pos[p] <= Len(topic[p])
    BY <1>3 DEF Positions
  <2>1. /\ cons.committed[p] \in Nat /\ cons.pos[p] \in Nat
        /\ cons.committed[p] <= cons.pos[p] /\ cons.pos[p] <= Len(topic[p])
    BY <1>1 DEF TaskInv, Positions, Consumer
  <2> QED  BY <1>2, <2>1
<1>6. Handled'
  <2>1. \A p \in Partitions : \A i \in 1 .. cons.pos[p] : Accounted(topic[p][i])
    BY <1>1 DEF TaskInv, Handled
  <2> QED  BY <1>2, <1>3, <2>1 DEF Handled, Accounted, Settled, WantedBy
<1> QED  BY <1>4, <1>5, <1>6 DEF TaskInv

\* The consumer restarts from its offsets, which lie before what is in hand.
LEMMA DiesStep == TaskInv /\ ConsumerDies => TaskInv'
<1> SUFFICES ASSUME TaskInv, ConsumerDies PROVE TaskInv'
  OBVIOUS
<1>1. cons \in Consumer /\ NoJob \in Job
  BY PoolAssumption DEF TaskInv, Types, NoJob, Job
<1>2. /\ cons'.pc = "fetch" /\ cons'.part = None /\ cons'.pos = cons.committed
      /\ cons'.committed = cons.committed /\ cons' \in Consumer
  BY <1>1 DEF ConsumerDies, NoConsumer, Consumer
<1>3. UNCHANGED <<mode, bridge, topic, settled, kdlq, undlq>>
  BY DEF ConsumerDies, PoolDies
<1>4. Types' /\ OneRoute' /\ InHand'
  BY <1>1, <1>2, <1>3 DEF TaskInv, Types, OneRoute, InHand, ConsumerDies, PoolDies
<1>5. Positions'
  <2> SUFFICES ASSUME NEW p \in Partitions
               PROVE  cons'.committed[p] <= cons'.pos[p] /\ cons'.pos[p] <= Len(topic[p])
    BY <1>3 DEF Positions
  <2>1. /\ cons.committed[p] \in Nat /\ cons.pos[p] \in Nat /\ Len(topic[p]) \in Nat
        /\ cons.committed[p] <= cons.pos[p] /\ cons.pos[p] <= Len(topic[p])
    BY <1>1 DEF TaskInv, Types, Positions, Consumer
  <2> QED  BY <1>2, <2>1
<1>6. Handled'
  <2>1. \A p \in Partitions : \A i \in 1 .. cons.committed[p] : Accounted(topic[p][i])
    BY TaskInvSuffices DEF CommittedTasksAccounted, Accounted
  <2> QED  BY <1>2, <1>3, <2>1 DEF Handled, Accounted, Settled, WantedBy
<1> QED  BY <1>4, <1>5, <1>6 DEF TaskInv

\* A goroutine on a message without chunks can only fail, and settles it last.
LEMMA WorkStep ==
    ASSUME TaskInv, NEW w \in Workers, Work(w) PROVE TaskInv'
<1>1. /\ UNCHANGED <<mode, cons, kdlq, undlq, topic, bridge, cur>>
      /\ PoolStep(cur, w, mode = "bridge", bridge # "work")
  BY DEF Work, routeVars
<1>2. job \in [Workers -> Job]
  BY DEF TaskInv, Types
<1>3. settled \subseteq settled'
  BY <1>1 DEF PoolStep, Attempt, ProcessAgain, Enqueue, SaveResult
<1>4. /\ job' \in [Workers -> Job]
      /\ \A x \in Workers : x # w => job'[x] = job[x]
  <2>1. CASE Attempt(w, mode = "bridge", bridge # "work")
    <3> DEFINE after(o) ==
            CASE o \in {"success", "infected"} -> [job[w] EXCEPT !.pc = "again"]
              [] Transient(o) /\ job[w].n < MaxAttempts /\ ~(bridge # "work") ->
                   [job[w] EXCEPT !.n = @ + 1]
              [] OTHER -> [job[w] EXCEPT !.pc = "enqueue", !.status = "FAILED"]
    <3>0. PICK o \in Outcomes(w, mode = "bridge") :
            job' = [job EXCEPT ![w] =
              CASE o \in {"success", "infected"} -> [@ EXCEPT !.pc = "again"]
                [] Transient(o) /\ @.n < MaxAttempts /\ ~(bridge # "work") ->
                     [@ EXCEPT !.n = @ + 1]
                [] OTHER -> [@ EXCEPT !.pc = "enqueue", !.status = "FAILED"]]
      BY <2>1 DEF Attempt
    <3>1. job' = [job EXCEPT ![w] = after(o)]
      BY <3>0
    <3>2. job[w] \in Job /\ MaxAttempts \in Nat
      BY <1>2, PoolAssumption
    <3>3. after(o) \in Job
      <4>1. CASE o \in {"success", "infected"}
        BY <3>2, <4>1 DEF Job, Transient
      <4>2. CASE /\ o \notin {"success", "infected"}
                 /\ Transient(o) /\ job[w].n < MaxAttempts /\ bridge = "work"
        <5>1. after(o) = [job[w] EXCEPT !.n = @ + 1]
          BY <4>2 DEF Transient
        <5> HIDE DEF after
        <5> QED  BY <3>2, <4>2, <5>1 DEF Job
      <4>3. CASE /\ o \notin {"success", "infected"}
                 /\ ~(Transient(o) /\ job[w].n < MaxAttempts /\ bridge = "work")
        <5>1. after(o) = [job[w] EXCEPT !.pc = "enqueue", !.status = "FAILED"]
          BY <4>3 DEF Transient
        <5> HIDE DEF after
        <5> QED  BY <3>2, <5>1 DEF Job
      <4> QED  BY <4>1, <4>2, <4>3
    <3> HIDE DEF after
    <3> QED  BY <1>2, <3>1, <3>3
  <2>2. CASE ProcessAgain(w, mode = "bridge")
    <3>1. PICK o \in Outcomes(w, mode = "bridge") :
            job' = [job EXCEPT ![w].pc = "save",
                      ![w].status = IF o = "success" THEN "SUCCESS" ELSE "FAILED"]
      BY <2>2 DEF ProcessAgain
    <3> DEFINE x == [job[w] EXCEPT !.pc = "save",
                       !.status = IF o = "success" THEN "SUCCESS" ELSE "FAILED"]
    <3>2. x \in Job
      BY <1>2 DEF Job
    <3>3. job' = [job EXCEPT ![w] = x]
      BY <3>1
    <3> HIDE DEF x
    <3> QED  BY <1>2, <3>2, <3>3
  <2>3. CASE Enqueue(cur, w)
    BY <1>2, <2>3 DEF Enqueue, Job
  <2>4. CASE SaveResult(cur, w)
    BY <1>2, <2>4 DEF SaveResult, Job
  <2> QED  BY <1>1, <2>1, <2>2, <2>3, <2>4 DEF PoolStep
<1>5. CASE cons.pc # "work"
  <2>1. CASE cons.pc = "fetch"
    <3>1. mode = "kafka" => bridge' = "consume"
      BY <1>1 DEF TaskInv, OneRoute
    <3> QED  BY <1>1, <1>3, <1>4, <2>1, <3>1, OtherSteps DEF TaskInv, Types
  <2>2. CASE cons.pc # "fetch"
    <3>1. Types' /\ OneRoute' /\ Positions'
      BY <1>1, <1>4 DEF TaskInv, Types, OneRoute, Positions
    <3>2. Handled'
      BY <1>1, <1>3 DEF TaskInv, Handled, Accounted, Settled, WantedBy
    <3>3. InHand'
      BY <1>1, <1>3, <1>5, <2>2 DEF TaskInv, InHand, Accounted, Settled, WantedBy
    <3> QED  BY <3>1, <3>2, <3>3 DEF TaskInv
  <2> QED  BY <2>1, <2>2
<1>6. CASE cons.pc = "work"
  <2>1. mode = "kafka" /\ \A x \in WantedBy(cur) : Failing(x)
    BY <1>6 DEF TaskInv, Types, OneRoute, InHand
  <2>2. \A x \in WantedBy(cur) : Failing(x)'
    <3> SUFFICES ASSUME NEW x \in WantedBy(cur) PROVE Failing(x)'
      OBVIOUS
    <3>1. x \in Workers /\ Failing(x)
      BY <2>1 DEF WantedBy
    <3>2. CASE x # w
      BY <1>1, <1>3, <1>4, <3>1, <3>2 DEF Failing
    <3>3. CASE x = w
      <4>1. CASE Attempt(w, mode = "bridge", bridge # "work")
        <5>1. Outcomes(w, mode = "bridge") = {"permanent"}
          BY <2>1 DEF Outcomes, Scanned, Derived
        <5>2. job' = [job EXCEPT ![w] =
                CASE "permanent" \in {"success", "infected"} -> [@ EXCEPT !.pc = "again"]
                  [] Transient("permanent") /\ @.n < MaxAttempts /\ ~(bridge # "work") ->
                       [@ EXCEPT !.n = @ + 1]
                  [] OTHER -> [@ EXCEPT !.pc = "enqueue", !.status = "FAILED"]]
          BY <4>1, <5>1 DEF Attempt
        <5>3. job'[w] = [job[w] EXCEPT !.pc = "enqueue", !.status = "FAILED"]
          BY <1>2, <5>2 DEF Transient
        <5>4. job'[w].pc = "enqueue" /\ job'[w].status = "FAILED"
          BY <1>2, <5>3 DEF Job
        <5> QED  BY <3>3, <5>4 DEF Failing
      <4>2. CASE ProcessAgain(w, mode = "bridge")
        BY <3>1, <3>3, <4>2 DEF ProcessAgain, Failing
      <4>3. CASE Enqueue(cur, w)
        <5>1. job'[w].pc = "save" /\ job'[w].status = job[w].status /\ job[w].pc = "enqueue"
          BY <1>2, <4>3 DEF Enqueue, Job
        <5> QED  BY <3>1, <3>3, <5>1 DEF Failing
      <4>4. CASE SaveResult(cur, w)
        <5>1. /\ job'[w].pc = "done" /\ job'[w].status = job[w].status /\ job[w].pc = "save"
              /\ <<cur, w>> \in settled'
          BY <1>2, <4>4 DEF SaveResult, Job
        <5> QED  BY <1>1, <3>1, <3>3, <5>1 DEF Failing
      <4> QED  BY <1>1, <4>1, <4>2, <4>3, <4>4 DEF PoolStep
    <3> QED  BY <3>2, <3>3
  <2>3. Types' /\ OneRoute' /\ Positions'
    BY <1>1, <1>4 DEF TaskInv, Types, OneRoute, Positions
  <2>4. Handled'
    BY <1>1, <1>3 DEF TaskInv, Handled, Accounted, Settled, WantedBy
  <2>5. InHand'
    BY <1>1, <1>6, <2>2 DEF TaskInv, InHand, WantedBy
  <2> QED  BY <2>3, <2>4, <2>5 DEF TaskInv
<1> QED  BY <1>5, <1>6

-----------------------------------------------------------------------------
\* The task log grows at its end.
LEMMA RouteStep == TaskInv /\ RouteMessage => TaskInv'
<1> SUFFICES ASSUME TaskInv, RouteMessage PROVE TaskInv'
  OBVIOUS
<1>1. /\ UNCHANGED <<mode, cons, kdlq, undlq, settled, bridge, cur, job>>
      /\ topic \in [Partitions -> Seq(Versions)]
      /\ mode = "kafka" => bridge' = "consume"
  BY DEF RouteMessage, poolVars, TaskInv, Types, OneRoute
<1>2. CASE topic' = topic
  <2>1. \A p \in Partitions : Len(topic[p]) \in Nat
    BY <1>1
  <2> QED  BY <1>1, <1>2, <2>1, OtherSteps DEF TaskInv, Types
<1>3. CASE topic' # topic
  <2>1. PICK q \in Partitions : topic' = [topic EXCEPT ![q] = Append(@, router.pos)]
    BY <1>3 DEF RouteMessage
  <2>2. router.pos \in Versions
    BY <1>3 DEF RouteMessage
  <2>3. topic[q] \in Seq(Versions) /\ Append(topic[q], router.pos) \in Seq(Versions)
    BY <1>1, <2>2
  <2>4. /\ topic' \in [Partitions -> Seq(Versions)]
        /\ \A p \in Partitions : p # q => topic'[p] = topic[p]
        /\ topic'[q] = Append(topic[q], router.pos)
    BY <1>1, <2>1, <2>3
  <2>5. \A p \in Partitions : /\ Len(topic'[p]) >= Len(topic[p])
                              /\ \A i \in 1 .. Len(topic[p]) : topic'[p][i] = topic[p][i]
    <3> SUFFICES ASSUME NEW p \in Partitions
                 PROVE  /\ Len(topic'[p]) >= Len(topic[p])
                        /\ \A i \in 1 .. Len(topic[p]) : topic'[p][i] = topic[p][i]
      OBVIOUS
    <3>1. topic[p] \in Seq(Versions) /\ Len(topic[p]) \in Nat
      BY <1>1
    <3>2. CASE p = q
      <4>1. topic'[p] = Append(topic[p], router.pos)
        BY <2>4, <3>2
      <4> QED  BY <2>2, <3>1, <4>1
    <3>3. CASE p # q
      BY <2>4, <3>1, <3>3
    <3> QED  BY <3>2, <3>3
  <2> QED  BY <1>1, <2>4, <2>5, OtherSteps DEF TaskInv, Types
<1> QED  BY <1>2, <1>3

\* The steps that touch neither the task log nor the consumer.
LEMMA ElsewhereStep ==
    ASSUME TaskInv, UNCHANGED <<mode, cons, kdlq, undlq, topic, settled>>,
           job' \in [Workers -> Job], mode = "kafka" => bridge' = "consume",
           cons.pc = "fetch" \/ UNCHANGED <<cur, job>>
    PROVE  TaskInv'
<1>1. \A p \in Partitions : Len(topic[p]) \in Nat
  BY DEF TaskInv, Types
<1> QED  BY <1>1, OtherSteps DEF TaskInv, Types

\* Every step keeps the invariant.
LEMMA TaskNextInv == TaskInv /\ [DerivationNext]_derivationVars => TaskInv'
<1> SUFFICES ASSUME TaskInv, [DerivationNext]_derivationVars PROVE TaskInv'
  OBVIOUS
<1>0. /\ job \in [Workers -> Job] /\ mode \in {"bridge", "kafka"}
      /\ mode = "kafka" => bridge = "consume"
      /\ mode = "bridge" => cons.pc = "fetch"
      /\ [w \in Workers |-> NoJob] \in [Workers -> Job]
  <2>1. NoJob \in Job
    BY PoolAssumption DEF NoJob, Job
  <2> QED  BY <2>1 DEF TaskInv, Types, OneRoute
<1>1. CASE Commit
  BY <1>0, <1>1, ElsewhereStep DEF Commit, poolVars
<1>2. ASSUME NEW v \in Versions, PublishFileCommitted(v) PROVE TaskInv'
  BY <1>0, <1>2, ElsewhereStep DEF PublishFileCommitted, poolVars
<1>3. CASE Receive
  <2>1. job' \in [Workers -> Job]
    BY <1>3, EventStarts DEF Receive
  <2> QED  BY <1>0, <1>3, <2>1, ElsewhereStep DEF Receive
<1>4. CASE Processed
  BY <1>0, <1>4, ElsewhereStep DEF Processed
<1>5. CASE StopBridge \/ Drained
  BY <1>0, <1>5, ElsewhereStep DEF StopBridge, Drained, poolVars
<1>6. CASE RouterFetch \/ RouterCommit \/ RouterDies
  BY <1>0, <1>6, ElsewhereStep DEF RouterFetch, RouterCommit, RouterDies, poolVars
<1>7. CASE RouteMessage
  BY <1>7, RouteStep
<1>8. CASE ConsumerStep
  BY <1>8, FetchStep, ProcessStep, DlqStep, OffsetStep DEF ConsumerStep
<1>9. ASSUME NEW w \in Workers, Work(w) PROVE TaskInv'
  BY <1>9, WorkStep
<1>10. CASE IngestDies
  BY <1>0, <1>10, ElsewhereStep DEF IngestDies, PoolDies
<1>11. CASE ConsumerDies
  BY <1>11, DiesStep
<1>12. CASE UNCHANGED derivationVars
  BY <1>0, <1>12, ElsewhereStep DEF derivationVars, poolVars, routeVars
<1> QED
  BY <1>1, <1>2, <1>3, <1>4, <1>5, <1>6, <1>7, <1>8, <1>9, <1>10, <1>11, <1>12
     DEF DerivationNext, BridgeStep, RouterStep

\* The invariant holds in every reachable state, on either route and whatever
\* crashes, failed offset commits and failed dead letters do.
THEOREM TaskInvariance == DerivationSpec => []TaskInv
BY TaskInitInv, TaskNextInv, PTL DEF DerivationSpec

\* A task below a committed offset was finished by every worker that wants it
\* and, if one does, dead-lettered or lost in that write: DerivationConsumer
\* never commits past a task that was not handled.
THEOREM CommittedAccounted == DerivationSpec => []CommittedTasksAccounted
BY TaskInvariance, TaskInvSuffices, PTL

-----------------------------------------------------------------------------
(* The token bucket *)

\* What was granted and what is left came from a full bucket and the refill
\* since; no request was granted at a time to come, or before there is a bucket.
BucketInv ==
    /\ BucketTypeOK
    /\ \A c \in Calls : call[c].pc = "allow" => bucket.made
    /\ ~bucket.made => \A s \in Times : since[s] = 0
    /\ \A s \in Times : s > bucket.lastTime => since[s] = 0
    /\ \A s \in Times : s <= bucket.lastTime =>
          Cost * since[s] + bucket.tokens <= Burst + (bucket.lastTime - s) * Refill

\* Refilling for a caller: later callers bring what the time since was worth,
\* up to a full bucket; callers that were overtaken bring nothing.
LEMMA RefillKeeps ==
    ASSUME BucketInv, NEW t \in Times, NEW b, b = Refilled(t)
    PROVE  /\ b \in [made: BOOLEAN, tokens: 0 .. Burst, lastTime: Times]
           /\ b.made = bucket.made
           /\ \A s \in Times : s > b.lastTime => since[s] = 0
           /\ \A s \in Times : s <= b.lastTime =>
                 Cost * since[s] + b.tokens <= Burst + (b.lastTime - s) * Refill
<1> DEFINE L == bucket.lastTime
           k == bucket.tokens
           full == k + (t - L) * Refill
<1>0. /\ Cost \in Nat /\ Burst \in Nat /\ Refill \in Nat /\ ClockEnd \in Nat
  BY BucketAssumption
<1>1. /\ bucket \in [made: BOOLEAN, tokens: 0 .. Burst, lastTime: Times]
      /\ since \in [Times -> Nat]
      /\ \A s \in Times : s > L => since[s] = 0
      /\ \A s \in Times : s <= L => Cost * since[s] + k <= Burst + (L - s) * Refill
  BY DEF BucketInv, BucketTypeOK
<1>2. L \in Nat /\ k \in Nat /\ k <= Burst /\ t \in Nat /\ Times \subseteq Nat
  BY <1>0, <1>1 DEF Times
<1>3. CASE t <= L
  <2>1. b = bucket
    BY <1>2, <1>3 DEF Refilled
  <2> QED
    BY <1>1, <1>2, <2>1
<1>4. CASE t > L
  <2>1. b = [bucket EXCEPT !.tokens = IF full > Burst THEN Burst ELSE full,
                           !.lastTime = t]
    BY <1>4 DEF Refilled
  <2>2. /\ b.made = bucket.made /\ b.lastTime = t
        /\ b.tokens = IF full > Burst THEN Burst ELSE full
    BY <1>1, <2>1
  <2>3. (t - L) * Refill \in Nat
    BY <1>0, <1>2, <1>4
  <2>4. b.tokens \in 0 .. Burst /\ b.tokens <= full
    BY <1>0, <1>2, <2>2, <2>3
  <2>5. b \in [made: BOOLEAN, tokens: 0 .. Burst, lastTime: Times]
    BY <1>1, <2>1, <2>4
  <2>6. ASSUME NEW s \in Times, s <= t
        PROVE  Cost * since[s] + b.tokens <= Burst + (t - s) * Refill
    <3>0. s \in Nat /\ since[s] \in Nat /\ b.tokens \in Nat /\ b.tokens <= Burst
      BY <1>1, <1>2, <2>4
    <3>1. CASE s <= L
      <4>1. Cost * since[s] + k <= Burst + (L - s) * Refill
        BY <1>1, <3>1
      <4>2. (t - s) * Refill = (t - L) * Refill + (L - s) * Refill
        BY <1>0, <1>2, <3>0
      <4>3. Cost * since[s] \in Nat /\ (L - s) * Refill \in Int
        BY <1>0, <1>2, <3>0
      <4> QED
        BY <1>0, <1>2, <2>3, <2>4, <3>0, <4>1, <4>2, <4>3
    <3>2. CASE s > L
      <4>1. since[s] = 0
        BY <1>1, <3>2
      <4>2. Cost * since[s] = 0
        BY <1>0, <4>1
      <4>3. (t - s) * Refill \in Nat
        BY <1>0, <1>2, <2>6, <3>0
      <4> DEFINE worth == (t - s) * Refill
                 spent == Cost * since[s]
      <4>4. spent = 0 /\ worth \in Nat
        BY <4>2, <4>3
      <4> HIDE DEF worth, spent
      <4>5. spent + b.tokens <= Burst + worth
        BY <1>0, <3>0, <4>4
      <4> QED
        BY <4>5 DEF worth, spent
    <3> QED
      BY <1>2, <3>0, <3>1, <3>2
  <2>7. \A s \in Times : s > t => since[s] = 0
    BY <1>1, <1>2, <1>4
  <2> QED
    BY <1>2, <1>4, <2>2, <2>5, <2>6, <2>7
<1> QED
  BY <1>2, <1>3, <1>4

\* Every step of the limiter keeps the invariant.
LEMMA BucketNextInv == BucketInv /\ [BucketNext]_bucketVars => BucketInv'
<1> SUFFICES ASSUME BucketInv, [BucketNext]_bucketVars PROVE BucketInv'
  OBVIOUS
<1>0. Cost \in Nat /\ Burst \in Nat /\ Refill \in Nat /\ ClockEnd \in Nat
  BY BucketAssumption
<1>1. Times \subseteq Nat /\ clock \in Times
  BY <1>0 DEF Times, BucketInv, BucketTypeOK
<1>2. CASE ClockTick
  <2>1. clock' \in Times /\ UNCHANGED <<bucket, call, since>>
    BY <1>0, <1>1, <1>2 DEF ClockTick, Times
  <2> QED
    BY <2>1 DEF BucketInv, BucketTypeOK
<1>3. ASSUME NEW c \in Calls, GetBucket(c) PROVE BucketInv'
  <2>1. /\ call' = [call EXCEPT ![c] = [pc |-> "allow", t |-> clock]]
        /\ UNCHANGED <<clock, since>>
    BY <1>3 DEF GetBucket
  <2>2. call' \in [Calls -> [pc: {"idle", "allow"}, t: Times]]
    BY <1>1, <2>1 DEF BucketInv, BucketTypeOK
  <2>3. CASE bucket.made
    <3>1. bucket' = bucket
      BY <1>3, <2>3 DEF GetBucket
    <3> QED
      BY <2>1, <2>2, <2>3, <3>1 DEF BucketInv, BucketTypeOK
  <2>4. CASE ~bucket.made
    <3>1. bucket' = [made |-> TRUE, tokens |-> Burst, lastTime |-> clock]
      BY <1>3, <2>4 DEF GetBucket
    <3>2. \A s \in Times : since[s] = 0
      BY <2>4 DEF BucketInv
    <3>3. ASSUME NEW s \in Times, s <= clock
          PROVE  Cost * since[s] + Burst <= Burst + (clock - s) * Refill
      <4>1. Cost * since[s] = 0
        BY <1>0, <3>2
      <4>2. (clock - s) * Refill \in Nat
        BY <1>0, <1>1, <3>3
      <4> QED
        BY <1>0, <4>1, <4>2
    <3>4. BucketTypeOK'
      BY <1>0, <1>1, <2>1, <2>2, <3>1 DEF BucketInv, BucketTypeOK
    <3> QED
      BY <2>1, <3>1, <3>2, <3>3, <3>4 DEF BucketInv
  <2> QED
    BY <2>3, <2>4
<1>4. ASSUME NEW c \in Calls, Allow(c) PROVE BucketInv'
  <2> DEFINE b == Refilled(call[c].t)
  <2>1. call[c].pc = "allow" /\ bucket.made /\ call[c].t \in Times
    BY <1>4 DEF Allow, BucketInv, BucketTypeOK
  <2>2. /\ b \in [made: BOOLEAN, tokens: 0 .. Burst, lastTime: Times]
        /\ b.made = bucket.made
        /\ \A s \in Times : s > b.lastTime => since[s] = 0
        /\ \A s \in Times : s <= b.lastTime =>
              Cost * since[s] + b.tokens <= Burst + (b.lastTime - s) * Refill
    BY <2>1, RefillKeeps
  <2>3. /\ call' = [call EXCEPT ![c].pc = "idle"] /\ clock' = clock
        /\ \/ /\ b.tokens >= Cost
              /\ bucket' = [b EXCEPT !.tokens = @ - Cost]
              /\ since' = [s \in Times |-> IF s <= b.lastTime THEN since[s] + 1
                                           ELSE since[s]]
           \/ bucket' = b /\ since' = since
    BY <1>4 DEF Allow
  <2> HIDE DEF b
  <2>4. /\ call' \in [Calls -> [pc: {"idle", "allow"}, t: Times]]
        /\ since \in [Times -> Nat]
    BY <2>3 DEF BucketInv, BucketTypeOK
  <2>5. CASE bucket' = b /\ since' = since
    BY <1>1, <2>1, <2>2, <2>3, <2>4, <2>5 DEF BucketInv, BucketTypeOK
  <2>6. CASE /\ b.tokens >= Cost
             /\ bucket' = [b EXCEPT !.tokens = @ - Cost]
             /\ since' = [s \in Times |-> IF s <= b.lastTime THEN since[s] + 1
                                          ELSE since[s]]
    <3>1. /\ bucket'.made = b.made /\ bucket'.lastTime = b.lastTime
          /\ bucket'.tokens = b.tokens - Cost
      BY <2>2, <2>6
    <3>2. b.tokens \in 0 .. Burst /\ b.lastTime \in Times
      BY <2>2
    <3>3. bucket' \in [made: BOOLEAN, tokens: 0 .. Burst, lastTime: Times]
      BY <1>0, <2>2, <2>6, <3>2
    <3>4. since' \in [Times -> Nat]
      BY <2>4, <2>6
    <3>5. \A s \in Times : s > b.lastTime => since'[s] = 0
      BY <1>1, <2>2, <2>6, <3>2
    <3>6. ASSUME NEW s \in Times, s <= b.lastTime
          PROVE  Cost * since'[s] + (b.tokens - Cost)
                    <= Burst + (b.lastTime - s) * Refill
      <4>1. since'[s] = since[s] + 1 /\ since[s] \in Nat
        BY <2>4, <2>6, <3>6
      <4>2. Cost * (since[s] + 1) = Cost * since[s] + Cost
        BY <1>0, <4>1
      <4>3. Cost * since[s] + b.tokens <= Burst + (b.lastTime - s) * Refill
        BY <2>2, <3>6
      <4>4. /\ s \in Nat
            /\ b.lastTime \in Nat
            /\ b.tokens \in Nat
        <5>1. s \in Nat
          BY <1>1
        <5>2. b.lastTime \in Nat
          BY <1>1, <3>2
        <5>3. b.tokens \in Nat
          BY <1>0, <3>2
        <5> QED
          BY <5>1, <5>2, <5>3
      <4> DEFINE worth == (b.lastTime - s) * Refill
                 spent == Cost * since[s]
      <4>5. worth \in Int /\ spent \in Int
        BY <1>0, <4>1, <4>4
      <4>6. spent + b.tokens <= Burst + worth
        BY <4>3
      <4>7. Cost * since'[s] = spent + Cost
        BY <4>1, <4>2
      <4> HIDE DEF worth, spent
      <4>8. Cost * since'[s] + (b.tokens - Cost) <= Burst + worth
        BY <1>0, <4>4, <4>5, <4>6, <4>7
      <4> QED
        BY <4>8 DEF worth
    <3>7. BucketTypeOK'
      BY <1>1, <2>3, <2>4, <3>3, <3>4 DEF BucketTypeOK
    <3>8. bucket'.made
      BY <2>1, <2>2, <3>1
    <3> QED
      BY <3>1, <3>5, <3>6, <3>7, <3>8 DEF BucketInv
  <2> QED
    BY <2>3, <2>5, <2>6
<1>5. CASE UNCHANGED bucketVars
  BY <1>5 DEF bucketVars, BucketInv, BucketTypeOK
<1> QED
  BY <1>2, <1>3, <1>4, <1>5 DEF BucketNext

\* The invariant of the token bucket holds in every reachable state.
THEOREM BucketInvariance == BucketSpec => []BucketInv
<1>1. BucketInit => BucketInv
  <2> SUFFICES ASSUME BucketInit PROVE BucketInv
    OBVIOUS
  <2>0. Cost \in Nat /\ Burst \in Nat /\ Refill \in Nat /\ ClockEnd \in Nat
    BY BucketAssumption
  <2>1. /\ bucket = [made |-> FALSE, tokens |-> 0, lastTime |-> 0]
        /\ call = [c \in Calls |-> [pc |-> "idle", t |-> 0]]
        /\ since = [s \in Times |-> 0] /\ clock = 0
        /\ 0 \in Times /\ Times \subseteq Nat
    BY <2>0 DEF BucketInit, Times
  <2>2. BucketTypeOK
    BY <2>0, <2>1 DEF BucketTypeOK
  <2>3. ASSUME NEW s \in Times, s <= 0
        PROVE  Cost * since[s] + 0 <= Burst + (0 - s) * Refill
    <3>1. s = 0 /\ since[s] = 0
      BY <2>1, <2>3
    <3> QED
      BY <2>0, <3>1
  <2> QED
    BY <2>1, <2>2, <2>3 DEF BucketInv
<1> QED
  BY <1>1, BucketNextInv, PTL DEF BucketSpec

\* BurstBound: for any rate, burst size and number of callers overtaking each
\* other between the clock and the mutex, a tenant gets at most a full bucket
\* and the refill of the time that passed.
THEOREM BurstsBounded == BucketSpec => []BurstBound
<1>1. BucketInv => BurstBound
  <2> SUFFICES ASSUME BucketInv, NEW s \in Times, s <= bucket.lastTime
               PROVE  Cost * since[s] <= Burst + (bucket.lastTime - s) * Refill
    BY DEF BurstBound
  <2>1. Cost * since[s] + bucket.tokens <= Burst + (bucket.lastTime - s) * Refill
    BY DEF BucketInv
  <2>2. /\ Cost \in Nat /\ Burst \in Nat /\ Refill \in Nat /\ ClockEnd \in Nat
        /\ bucket.tokens \in 0 .. Burst /\ bucket.lastTime \in Times /\ since[s] \in Nat
    BY BucketAssumption DEF BucketInv, BucketTypeOK
  <2>3. /\ s \in Int /\ bucket.lastTime \in Int
        /\ Cost * since[s] \in Nat /\ (bucket.lastTime - s) * Refill \in Int
    BY <2>2 DEF Times
  <2> QED
    BY <2>1, <2>2, <2>3
<1> QED
  BY <1>1, BucketInvariance, PTL

=============================================================================
