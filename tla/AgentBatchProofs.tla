-------------------------- MODULE AgentBatchProofs --------------------------
(***************************************************************************)
(* Theorems about one message on its way through the gate, the executor    *)
(* and the feedback: its tool calls are split into allowed and refused     *)
(* ones, the allowed ones are run in order, and each is answered once.     *)
(***************************************************************************)
EXTENDS AgentLoopProofs, FiniteSetTheorems

IdsOf(seq) == {seq[k] : k \in 1..Len(seq)}

\* The first n calls of the message have been decided.
DecidedUpTo(n) ==
  /\ Len(allowed) + Len(blocked) = n
  /\ IdsOf(allowed) \cup IdsOf(blocked) = 1..n

\* The first n allowed calls have been run, and nothing else answered.
ExecutedUpTo(n) ==
  /\ n \in 0..Len(allowed)
  /\ Len(results) = n
  /\ \A k \in 1..n : results[k].id = allowed[k] /\ results[k].outcome # "blocked"

Handling == {"gate", "gating", "exec", "executing", "feedback"}

\* Where the calls of the message are while it is handled.
Bookkeeping ==
  /\ pc = "idle" => turn = <<>> /\ results = <<>>
  /\ pc \in {"idle", "llm"} => blocked = <<>>
  /\ pc \in {"gate", "gating", "exec"} => results = <<>>
  /\ pc = "gating" => index <= Len(turn) + 1 /\ DecidedUpTo(index - 1)
  /\ pc = "exec" => index = 1
  /\ pc \in {"exec", "executing", "feedback"} => DecidedUpTo(Len(turn))
  /\ pc = "executing" => ExecutedUpTo(index - 1)
  /\ pc = "feedback" => ExecutedUpTo(Len(allowed))
  /\ pc \in Handling => round < MaxIters

\* The inductive invariant: neither the types nor the answers are inductive
\* without the bookkeeping, which bounds index and round.
BatchInv == GateInv /\ AgentTypeOK /\ Bookkeeping /\ EveryCallAnsweredOnce

\* The fields of AgentTypeOK beyond those of GateInv.
Outcomes == [id : Ids, outcome : {"ok", "error", "blocked"}]

LEMMA IdsOfAppend ==
  ASSUME NEW S, NEW seq \in Seq(S), NEW e \in S
  PROVE  /\ Append(seq, e) \in Seq(S)
         /\ Len(Append(seq, e)) = Len(seq) + 1
         /\ IdsOf(Append(seq, e)) = IdsOf(seq) \cup {e}
<1>1. /\ Append(seq, e) \in Seq(S)
      /\ Len(Append(seq, e)) = Len(seq) + 1
      /\ Append(seq, e)[Len(seq) + 1] = e
      /\ \A k \in 1..Len(seq) : Append(seq, e)[k] = seq[k]
  OBVIOUS
<1> DEFINE longer == Append(seq, e)
<1> HIDE DEF longer
<1>2. IdsOf(longer) = IdsOf(seq) \cup {e}
  BY <1>1, Len(seq) \in Nat DEF IdsOf, longer
<1> QED BY <1>1, <1>2 DEF longer

LEMMA Joined ==
  ASSUME NEW S, NEW s \in Seq(S), NEW t \in Seq(S)
  PROVE  /\ s \o t \in Seq(S) /\ Len(s \o t) = Len(s) + Len(t)
         /\ \A i \in 1..Len(s) : (s \o t)[i] = s[i]
         /\ \A i \in 1..Len(t) : (s \o t)[Len(s) + i] = t[i]
OBVIOUS

LEMMA BatchInit == AgentInit => BatchInv
<1> SUFFICES ASSUME AgentInit PROVE BatchInv
  OBVIOUS
<1>1. GateInv /\ PipelineTypeOK
  BY GateInit DEF GateInv
<1>2. Bookkeeping /\ EveryCallAnsweredOnce
  BY DEF AgentInit, Bookkeeping, EveryCallAnsweredOnce, Handling
<1>3. /\ has_pipeline \in BOOLEAN /\ query \in Tasks \cup {NoTask}
      /\ current_task \in Tasks \cup {NoTask}
      /\ pc \in {"idle", "llm", "gate", "gating", "exec", "executing", "feedback"}
      /\ turn \in Turns \cup {<<>>}
      /\ executed \subseteq Actions /\ succeeded \subseteq executed /\ ran \subseteq Actions
  BY DEF AgentInit
<1>4. /\ round \in 0..MaxIters /\ runs \in 0..MaxRuns /\ index \in 1..(MaxCalls + 1)
      /\ answers \in [run : Nat, refused : Nat]
  BY LoopAssumption DEF AgentInit, NoAnswers
<1>5. allowed \in Seq(Ids) /\ blocked \in Seq(Ids) /\ results \in Seq(Outcomes)
  BY DEF AgentInit
<1>6. AgentTypeOK
  BY <1>1, <1>3, <1>4, <1>5 DEF AgentTypeOK, Outcomes
<1> QED BY <1>1, <1>2, <1>6 DEF BatchInv

\* A message has at most MaxCalls calls.
LEMMA TurnLength ==
  ASSUME turn \in Turns \cup {<<>>}
  PROVE  Len(turn) \in 0..MaxCalls
BY LoopAssumption DEF Turns

\* Deciding a call puts its position with the allowed or with the refused ones.
LEMMA DecideOne ==
  ASSUME BatchInv, AllowCall \/ BlockCall
  PROVE  /\ allowed' \in Seq(Ids) /\ blocked' \in Seq(Ids)
         /\ index' \in 1..(MaxCalls + 1) /\ index' <= Len(turn) + 1
         /\ DecidedUpTo(index - 1)'
<1>1. /\ pc = "gating" /\ index \in 1..Len(turn) /\ index' = index + 1
      /\ DecidedUpTo(index - 1)
  BY DEF AllowCall, BlockCall, BatchInv, Bookkeeping, AgentTypeOK
<1>2. Len(turn) \in 0..MaxCalls /\ MaxCalls \in Nat
  BY TurnLength, LoopAssumption DEF BatchInv, AgentTypeOK
<1>3. index \in Ids /\ allowed \in Seq(Ids) /\ blocked \in Seq(Ids)
  BY <1>1, <1>2 DEF Ids, BatchInv, AgentTypeOK
<1>4. \/ allowed' = Append(allowed, index) /\ blocked' = blocked
      \/ blocked' = Append(blocked, index) /\ allowed' = allowed
  BY DEF AllowCall, BlockCall
<1>5. /\ allowed' \in Seq(Ids) /\ blocked' \in Seq(Ids)
      /\ Len(allowed') + Len(blocked') = Len(allowed) + Len(blocked) + 1
      /\ IdsOf(allowed') \cup IdsOf(blocked') = IdsOf(allowed) \cup IdsOf(blocked) \cup {index}
  <2>1. CASE allowed' = Append(allowed, index) /\ blocked' = blocked
    BY <2>1, <1>3, IdsOfAppend
  <2>2. CASE blocked' = Append(blocked, index) /\ allowed' = allowed
    BY <2>2, <1>3, IdsOfAppend
  <2> QED BY <1>4, <2>1, <2>2
<1>6. IdsOf(allowed') \cup IdsOf(blocked') = 1..index
  BY <1>1, <1>5 DEF DecidedUpTo
<1>7. Len(allowed') + Len(blocked') = index /\ index' - 1 = index
  BY <1>1, <1>5 DEF DecidedUpTo
<1>8. index' \in 1..(MaxCalls + 1) /\ index' <= Len(turn) + 1
  BY <1>1, <1>2
<1> QED BY <1>5, <1>6, <1>7, <1>8 DEF DecidedUpTo, IdsOf

\* Running a call answers it with its position.
LEMMA RunOne ==
  ASSUME BatchInv, NEW outcome \in {"ok", "error"}, Execute(outcome)
  PROVE  /\ results' \in Seq(Outcomes)
         /\ index' \in 1..(MaxCalls + 1)
         /\ ExecutedUpTo(index - 1)'
         /\ turn[allowed[index]].action \in Actions
<1>1. /\ pc = "executing" /\ index \in 1..Len(allowed) /\ index' = index + 1
      /\ ExecutedUpTo(index - 1) /\ DecidedUpTo(Len(turn)) /\ UNCHANGED allowed
      /\ results' = Append(results, Result(allowed[index], outcome))
  BY DEF Execute, BatchInv, Bookkeeping, AgentTypeOK
<1>2. /\ allowed \in Seq(Ids) /\ blocked \in Seq(Ids) /\ results \in Seq(Outcomes)
      /\ turn \in Seq(Calls) /\ Len(turn) \in 0..MaxCalls /\ MaxCalls \in Nat
  BY TurnLength, LoopAssumption DEF BatchInv, AgentTypeOK, GateInv, Outcomes
<1>3. allowed[index] \in 1..Len(turn) /\ allowed[index] \in Ids
  BY <1>1, <1>2 DEF DecidedUpTo, IdsOf
<1>4. turn[allowed[index]].action \in Actions
  BY <1>2, <1>3, CallsAssumption DEF Requests
<1>5. Len(allowed) <= Len(turn)
  BY <1>1, <1>2 DEF DecidedUpTo
<1> DEFINE result == Result(allowed[index], outcome)
<1>6. result \in Outcomes /\ result.id = allowed[index] /\ result.outcome # "blocked"
  BY <1>3 DEF Result, Outcomes
<1> HIDE DEF result
<1>7. /\ results' \in Seq(Outcomes) /\ Len(results') = Len(results) + 1
      /\ results'[Len(results) + 1] = result
      /\ \A k \in 1..Len(results) : results'[k] = results[k]
  BY <1>1, <1>2, <1>6 DEF result
<1>8. Len(results) = index - 1
  BY <1>1 DEF ExecutedUpTo
<1>9. \A k \in 1..index : results'[k].id = allowed[k] /\ results'[k].outcome # "blocked"
  BY <1>1, <1>6, <1>7, <1>8 DEF ExecutedUpTo
<1>10. index' \in 1..(MaxCalls + 1)
  BY <1>1, <1>2, <1>5
<1> QED BY <1>1, <1>2, <1>4, <1>7, <1>8, <1>9, <1>10 DEF ExecutedUpTo

\* The refusals complete the answers.
LEMMA RefuseRest ==
  ASSUME BatchInv, Feedback
  PROVE  /\ results' \in Seq(Outcomes)
         /\ Len(results') = Len(turn)
         /\ {results'[i].id : i \in 1..Len(results')} = 1..Len(turn)
         /\ \A i \in 1..Len(results') : results'[i].outcome # "blocked" =>
              i \in 1..Len(results) /\ results'[i] = results[i]
<1> DEFINE refusals == [i \in 1..Len(blocked) |-> Result(blocked[i], "blocked")]
<1>1. /\ ExecutedUpTo(Len(allowed)) /\ DecidedUpTo(Len(turn))
      /\ results' = results \o refusals
  BY DEF Feedback, BatchInv, Bookkeeping
<1>2. /\ allowed \in Seq(Ids) /\ blocked \in Seq(Ids) /\ results \in Seq(Outcomes)
  BY DEF BatchInv, AgentTypeOK, Outcomes
<1>3. /\ refusals \in Seq(Outcomes) /\ Len(refusals) = Len(blocked)
      /\ \A i \in 1..Len(blocked) : refusals[i].id = blocked[i] /\ refusals[i].outcome = "blocked"
  BY <1>2 DEF Result, Outcomes
<1> HIDE DEF refusals
<1>4. /\ results' \in Seq(Outcomes) /\ Len(results') = Len(results) + Len(blocked)
      /\ \A i \in 1..Len(results) : results'[i] = results[i]
      /\ \A i \in 1..Len(blocked) : results'[Len(results) + i] = refusals[i]
  <2>1. results \in Seq(Outcomes) /\ refusals \in Seq(Outcomes)
    BY <1>2, <1>3
  <2>2. /\ results \o refusals \in Seq(Outcomes)
        /\ Len(results \o refusals) = Len(results) + Len(refusals)
        /\ \A i \in 1..Len(results) : (results \o refusals)[i] = results[i]
        /\ \A i \in 1..Len(refusals) : (results \o refusals)[Len(results) + i] = refusals[i]
    BY <2>1, Joined
  <2> QED BY <1>1, <1>3, <2>2
<1>5. Len(results) = Len(allowed) /\ Len(results') = Len(turn)
  BY <1>1, <1>4 DEF ExecutedUpTo, DecidedUpTo
<1>6. \A i \in 1..Len(results') :
        \/ i \in 1..Len(allowed) /\ results'[i] = results[i] /\ results'[i].id = allowed[i]
        \/ \E j \in 1..Len(blocked) : /\ i = Len(allowed) + j
                                      /\ results'[i].id = blocked[j] /\ results'[i].outcome = "blocked"
  <2> SUFFICES ASSUME NEW i \in 1..Len(results')
               PROVE  \/ i \in 1..Len(allowed) /\ results'[i] = results[i] /\ results'[i].id = allowed[i]
                      \/ \E j \in 1..Len(blocked) :
                           /\ i = Len(allowed) + j
                           /\ results'[i].id = blocked[j] /\ results'[i].outcome = "blocked"
    OBVIOUS
  <2>1. CASE i <= Len(allowed)
    BY <1>1, <1>2, <1>4, <1>5, <2>1 DEF ExecutedUpTo
  <2>2. CASE i > Len(allowed)
    <3> DEFINE j == i - Len(allowed)
    <3>1. j \in 1..Len(blocked) /\ i = Len(allowed) + j
      BY <1>2, <1>4, <1>5, <2>2
    <3> HIDE DEF j
    <3>2. results'[i].id = blocked[j] /\ results'[i].outcome = "blocked"
      BY <1>3, <1>4, <1>5, <3>1
    <3> QED BY <3>1, <3>2
  <2> QED BY <1>2, <2>1, <2>2
<1>7. {results'[i].id : i \in 1..Len(results')} \subseteq IdsOf(allowed) \cup IdsOf(blocked)
  BY <1>6 DEF IdsOf
<1>8. \A k \in 1..Len(allowed) : k \in 1..Len(results') /\ results'[k].id = allowed[k]
  BY <1>1, <1>2, <1>4, <1>5 DEF ExecutedUpTo
<1>9. \A k \in 1..Len(blocked) : /\ Len(allowed) + k \in 1..Len(results')
                                 /\ results'[Len(allowed) + k].id = blocked[k]
  BY <1>2, <1>3, <1>4, <1>5
<1>10. IdsOf(allowed) \cup IdsOf(blocked) \subseteq {results'[i].id : i \in 1..Len(results')}
  BY <1>8, <1>9 DEF IdsOf
<1>11. {results'[i].id : i \in 1..Len(results')} = 1..Len(turn)
  BY <1>1, <1>7, <1>10 DEF DecidedUpTo
<1>12. ASSUME NEW i \in 1..Len(results'), results'[i].outcome # "blocked"
       PROVE  i \in 1..Len(results) /\ results'[i] = results[i]
  BY <1>5, <1>6, <1>12
<1> QED BY <1>4, <1>5, <1>11, <1>12

LEMMA BatchStep == BatchInv /\ [AgentNext]_agentVars => BatchInv'
<1> SUFFICES ASSUME BatchInv, [AgentNext]_agentVars
             PROVE  AgentTypeOK' /\ Bookkeeping' /\ EveryCallAnsweredOnce'
  BY GateStep DEF BatchInv
<1>1. GateInv /\ GateInv' /\ AgentTypeOK /\ Bookkeeping /\ EveryCallAnsweredOnce
  BY GateStep DEF BatchInv
<1>2. PipelineTypeOK' /\ query' \in Tasks \cup {NoTask}
  BY <1>1 DEF GateInv
<1>3. Len(turn) \in 0..MaxCalls /\ MaxCalls \in Nat /\ MaxIters \in Nat /\ MaxRuns \in Nat
  BY <1>1, TurnLength, LoopAssumption DEF AgentTypeOK
<1>4. ASSUME NEW calls \in Turns, LLMCalls(calls)
      PROVE  AgentTypeOK' /\ Bookkeeping' /\ EveryCallAnsweredOnce'
  <2>1. AgentTypeOK'
    BY <1>1, <1>2, <1>3, <1>4 DEF LLMCalls, AgentTypeOK, gateVars, histVars
  <2>2. Bookkeeping' /\ EveryCallAnsweredOnce'
    BY <1>1, <1>4 DEF LLMCalls, Bookkeeping, EveryCallAnsweredOnce, AgentTypeOK, Handling
  <2> QED BY <2>1, <2>2
<1>5. CASE LLMEnds
  <2>1. AgentTypeOK'
    BY <1>1, <1>2, <1>3, <1>5 DEF LLMEnds, AgentTypeOK, gateVars, histVars
  <2>2. Bookkeeping' /\ EveryCallAnsweredOnce'
    BY <1>1, <1>5 DEF LLMEnds, Bookkeeping, EveryCallAnsweredOnce, Handling
  <2> QED BY <2>1, <2>2
<1>6. CASE KeepPipeline \/ NewPipeline
  <2>1. /\ pc = "gate" /\ BeginPass /\ current_task' \in Tasks \cup {NoTask}
        /\ has_pipeline' \in BOOLEAN
        /\ UNCHANGED <<query, round, runs, turn, results, ran>>
    BY <1>1, <1>6 DEF KeepPipeline, NewPipeline, AgentTypeOK, gateVars, histVars
  <2>2. /\ executed' \subseteq Actions /\ succeeded' \subseteq executed'
        /\ answers' \in [run : Nat, refused : Nat]
    BY <1>1, <1>6 DEF KeepPipeline, NewPipeline, AgentTypeOK, histVars, NoAnswers
  <2>3. AgentTypeOK'
    BY <1>1, <1>2, <1>3, <2>1, <2>2 DEF AgentTypeOK, BeginPass
  <2>4. Bookkeeping' /\ EveryCallAnsweredOnce'
    BY <1>1, <1>3, <2>1
       DEF BeginPass, Bookkeeping, EveryCallAnsweredOnce, Handling, DecidedUpTo, IdsOf
  <2> QED BY <2>3, <2>4
<1>7. ASSUME AllowCall \/ BlockCall
      PROVE  AgentTypeOK' /\ Bookkeeping' /\ EveryCallAnsweredOnce'
  <2>1. /\ allowed' \in Seq(Ids) /\ blocked' \in Seq(Ids)
        /\ index' \in 1..(MaxCalls + 1) /\ index' <= Len(turn) + 1
        /\ DecidedUpTo(index - 1)'
    BY <1>7, DecideOne
  <2>2. /\ pc = "gating" /\ index \in 1..Len(turn)
        /\ UNCHANGED <<pc, has_pipeline, current_task, query, round, runs, turn, results,
                       executed, succeeded, answers>>
    BY <1>1, <1>7 DEF AllowCall, BlockCall, AgentTypeOK, gateVars, histVars
  <2>3. turn[index].action \in Actions
    BY <1>1, <2>2, CallsAssumption DEF GateInv, Requests
  <2>4. ran' \subseteq Actions
    BY <1>1, <1>7, <2>3 DEF AllowCall, BlockCall, AgentTypeOK, histVars
  <2>5. AgentTypeOK'
    BY <1>1, <1>2, <2>1, <2>2, <2>4 DEF AgentTypeOK
  <2>6. Bookkeeping' /\ EveryCallAnsweredOnce'
    BY <1>1, <2>1, <2>2 DEF Bookkeeping, EveryCallAnsweredOnce, Handling
  <2> QED BY <2>5, <2>6
<1>8. CASE CloseGate
  <2>1. AgentTypeOK'
    BY <1>1, <1>2, <1>3, <1>8 DEF CloseGate, AgentTypeOK, gateVars, callVars, histVars
  <2>2. index - 1 = Len(turn)
    BY <1>1, <1>3, <1>8 DEF CloseGate, Bookkeeping, AgentTypeOK
  <2>3. DecidedUpTo(Len(turn))'
    BY <1>1, <1>8, <2>2 DEF CloseGate, Bookkeeping, DecidedUpTo, IdsOf, callVars
  <2>4. Bookkeeping' /\ EveryCallAnsweredOnce'
    BY <1>1, <1>8, <2>3 DEF CloseGate, Bookkeeping, EveryCallAnsweredOnce, Handling, callVars
  <2> QED BY <2>1, <2>4
<1>9. CASE OpenExecutor
  <2>1. AgentTypeOK'
    BY <1>1, <1>2, <1>9 DEF OpenExecutor, AgentTypeOK, gateVars, callVars, histVars
  <2>2. results = <<>> /\ index = 1 /\ pc' = "executing" /\ DecidedUpTo(Len(turn))
    BY <1>1, <1>9 DEF OpenExecutor, Bookkeeping
  <2>3. DecidedUpTo(Len(turn))' /\ ExecutedUpTo(index - 1)'
    BY <1>1, <1>9, <2>2
       DEF OpenExecutor, DecidedUpTo, ExecutedUpTo, IdsOf, callVars, AgentTypeOK
  <2>4. Bookkeeping' /\ EveryCallAnsweredOnce'
    BY <1>1, <1>9, <2>2, <2>3
       DEF OpenExecutor, Bookkeeping, EveryCallAnsweredOnce, Handling
  <2> QED BY <2>1, <2>4
<1>10. ASSUME NEW outcome \in {"ok", "error"}, Execute(outcome)
       PROVE  AgentTypeOK' /\ Bookkeeping' /\ EveryCallAnsweredOnce'
  <2>1. /\ results' \in Seq(Outcomes) /\ index' \in 1..(MaxCalls + 1)
        /\ ExecutedUpTo(index - 1)' /\ turn[allowed[index]].action \in Actions
    BY <1>10, RunOne DEF BatchInv
  <2>2. /\ pc = "executing" /\ answers' = [answers EXCEPT !.run = @ + 1]
        /\ UNCHANGED <<pc, has_pipeline, current_task, query, round, runs, turn, allowed, blocked, ran>>
    BY <1>10 DEF Execute, gateVars
  <2>3. executed' \subseteq Actions /\ succeeded' \subseteq executed'
    BY <1>1, <1>10, <2>1 DEF Execute, AgentTypeOK
  <2>4. answers' \in [run : Nat, refused : Nat]
    BY <1>1, <2>2 DEF AgentTypeOK
  <2>5. AgentTypeOK'
    BY <1>1, <1>2, <2>1, <2>2, <2>3, <2>4 DEF AgentTypeOK, Outcomes
  <2>6. DecidedUpTo(Len(turn))'
    BY <1>1, <2>2 DEF Bookkeeping, DecidedUpTo, IdsOf
  <2>7. Bookkeeping' /\ EveryCallAnsweredOnce'
    BY <1>1, <2>1, <2>2, <2>6 DEF Bookkeeping, EveryCallAnsweredOnce, Handling
  <2> QED BY <2>5, <2>7
<1>11. CASE CloseExecutor
  <2>1. AgentTypeOK'
    BY <1>1, <1>2, <1>11 DEF CloseExecutor, AgentTypeOK, gateVars, callVars, histVars
  <2>2. /\ ExecutedUpTo(index - 1) /\ DecidedUpTo(Len(turn)) /\ index > Len(allowed)
        /\ UNCHANGED <<allowed, blocked, results, turn, round>> /\ pc' = "feedback"
        /\ pc = "executing" /\ Len(allowed) \in Nat /\ index \in Nat
    BY <1>1, <1>3, <1>11 DEF CloseExecutor, Bookkeeping, callVars, AgentTypeOK
  <2>3. index - 1 = Len(allowed)
    BY <2>2 DEF ExecutedUpTo
  <2>4. DecidedUpTo(Len(turn))' /\ ExecutedUpTo(Len(allowed))'
    BY <2>2, <2>3 DEF ExecutedUpTo, DecidedUpTo, IdsOf
  <2>5. Bookkeeping' /\ EveryCallAnsweredOnce'
    BY <1>1, <2>2, <2>4 DEF Bookkeeping, EveryCallAnsweredOnce, Handling
  <2> QED BY <2>1, <2>5
<1>12. CASE Feedback
  <2>1. /\ results' \in Seq(Outcomes) /\ Len(results') = Len(turn)
        /\ {results'[i].id : i \in 1..Len(results')} = 1..Len(turn)
    BY <1>12, RefuseRest DEF BatchInv
  <2>2. /\ blocked' = <<>> /\ pc = "feedback" /\ pc' = "llm" /\ round' = round + 1
        /\ answers' = [answers EXCEPT !.refused = @ + Len(blocked)]
        /\ UNCHANGED <<has_pipeline, current_task, query, runs, turn, index, allowed,
                       executed, succeeded, ran>>
    BY <1>12 DEF Feedback, gateVars
  <2>3. answers' \in [run : Nat, refused : Nat]
    BY <1>1, <2>2 DEF AgentTypeOK
  <2>4. round' \in 0..MaxIters
    BY <1>1, <1>3, <2>2 DEF Bookkeeping, Handling, AgentTypeOK
  <2>5. blocked' \in Seq(Ids)
    BY <2>2
  <2>6. AgentTypeOK'
    BY <1>1, <1>2, <2>1, <2>2, <2>3, <2>4, <2>5 DEF AgentTypeOK, Outcomes
  <2>7. Bookkeeping' /\ EveryCallAnsweredOnce'
    BY <1>1, <2>1, <2>2 DEF Bookkeeping, EveryCallAnsweredOnce, Handling
  <2> QED BY <2>6, <2>7
<1>13. ASSUME NEW task \in Tasks, StartRun(task)
       PROVE  AgentTypeOK' /\ Bookkeeping' /\ EveryCallAnsweredOnce'
  <2>1. AgentTypeOK'
    BY <1>1, <1>2, <1>3, <1>13 DEF StartRun, AgentTypeOK, gateVars, callVars
  <2>2. Bookkeeping' /\ EveryCallAnsweredOnce'
    BY <1>1, <1>13 DEF StartRun, Bookkeeping, EveryCallAnsweredOnce, Handling, callVars
  <2> QED BY <2>1, <2>2
<1>14. CASE UNCHANGED agentVars
  <2>1. AgentTypeOK'
    BY <1>1, <1>2, <1>14
       DEF AgentTypeOK, agentVars, gateVars, loopVars, callVars, histVars
  <2>2. Bookkeeping' /\ EveryCallAnsweredOnce'
    BY <1>1, <1>14 DEF Bookkeeping, EveryCallAnsweredOnce, Handling, DecidedUpTo, ExecutedUpTo,
                       IdsOf, agentVars, loopVars, callVars
  <2> QED BY <2>1, <2>2
<1> QED
  BY <1>4, <1>5, <1>6, <1>7, <1>8, <1>9, <1>10, <1>11, <1>12, <1>13, <1>14
     DEF AgentNext, LoopStep

LEMMA BatchAlways == AgentSafety => []BatchInv
BY BatchInit, BatchStep, PTL DEF AgentSafety

\* Every field of the gate, the loop and the messages is well typed, for any
\* number of calls, iterations and runs.
THEOREM AgentTypeCorrect == AgentSafety => []AgentTypeOK
<1>1. BatchInv => AgentTypeOK
  BY DEF BatchInv
<1> QED BY <1>1, BatchAlways, PTL

\* Before the LLM goes on, each of its tool calls has been answered exactly once.
THEOREM AnsweredOnce == AgentSafety => []EveryCallAnsweredOnce
<1>1. BatchInv => EveryCallAnsweredOnce
  BY DEF BatchInv
<1> QED BY <1>1, BatchAlways, PTL

-----------------------------------------------------------------------------
(***************************************************************************)
(* Only cleared calls run                                                  *)
(***************************************************************************)

Cleared(call) ==
  /\ call.action \in privilege_context.enabled_actions
  /\ StaticEvaluate(call) = "allowed"
  /\ DataMatches(call, gate_policy)

\* The inductive invariant: the allowed calls are cleared before they are run.
AllowedAreCleared ==
  pc \in {"gating", "exec", "executing", "feedback"} =>
    \A k \in 1..Len(allowed) : Cleared(turn[allowed[k]])

ClearedInv == BatchInv /\ AllowedAreCleared /\ OnlyClearedCallsRun

LEMMA AllowedIsCleared ==
  ASSUME NEW call, Decision(call) = "allowed"
  PROVE  Cleared(call)
BY AllowedHasPrerequisites DEF Decision, Cleared

\* An allowed call is put behind the others.
LEMMA AllowedLast ==
  ASSUME BatchInv, AllowCall
  PROVE  /\ Len(allowed) \in Nat /\ Len(allowed') = Len(allowed) + 1
         /\ allowed'[Len(allowed) + 1] = index
         /\ \A k \in 1..Len(allowed) : allowed'[k] = allowed[k]
<1>1. index \in 1..Len(turn) /\ allowed \in Seq(Ids) /\ allowed' = Append(allowed, index)
  BY DEF AllowCall, BatchInv, AgentTypeOK
<1>2. index \in Ids
  BY <1>1, TurnLength, LoopAssumption DEF BatchInv, AgentTypeOK, Ids
<1> QED BY <1>1, <1>2

\* A result is put behind the others.
LEMMA ResultLast ==
  ASSUME BatchInv, NEW outcome \in {"ok", "error"}, Execute(outcome)
  PROVE  /\ index \in 1..Len(allowed)
         /\ Len(results') = index /\ results'[index].id = allowed[index]
         /\ \A i \in 1..Len(results') : i # index => i \in 1..Len(results) /\ results'[i] = results[i]
<1>1. /\ index \in 1..Len(allowed) /\ Len(results) = index - 1 /\ results \in Seq(Outcomes)
      /\ index' = index + 1 /\ results' = Append(results, Result(allowed[index], outcome))
  BY DEF Execute, BatchInv, Bookkeeping, AgentTypeOK, ExecutedUpTo, Outcomes
<1>2. ExecutedUpTo(index - 1)' /\ results' \in Seq(Outcomes) /\ allowed' = allowed
  BY RunOne DEF Execute
<1>3. Len(results') = index /\ \A k \in 1..index : results'[k].id = allowed[k]
  BY <1>1, <1>2 DEF ExecutedUpTo
<1>4. \A i \in 1..Len(results) : results'[i] = results[i]
  BY <1>1
<1> QED BY <1>1, <1>3, <1>4

\* The results that are not refusals keep being results of cleared calls as long
\* as message, scope and policy stay.
LEMMA ClearedStep == ClearedInv /\ [AgentNext]_agentVars => ClearedInv'
<1> SUFFICES ASSUME ClearedInv, [AgentNext]_agentVars
             PROVE  AllowedAreCleared' /\ OnlyClearedCallsRun'
  BY BatchStep DEF ClearedInv
<1>1. BatchInv /\ AllowedAreCleared /\ OnlyClearedCallsRun
  BY DEF ClearedInv
<1>2. ASSUME results' = <<>>, pc' = "gate" \/ pc' = "llm" \/ pc' = "idle" \/ allowed' = <<>>
      PROVE  AllowedAreCleared' /\ OnlyClearedCallsRun'
  BY <1>2 DEF AllowedAreCleared, OnlyClearedCallsRun
<1>3. ASSUME UNCHANGED <<pipelineVars, turn, allowed>>,
             pc' \in {"gating", "exec", "executing", "feedback"}
               => pc \in {"gating", "exec", "executing", "feedback"},
             \A i \in 1..Len(results') : results'[i].outcome # "blocked" =>
               \/ \E k \in 1..Len(allowed) : Cleared(turn[allowed[k]]) /\ results'[i].id = allowed[k]
               \/ i \in 1..Len(results) /\ results'[i] = results[i]
      PROVE  AllowedAreCleared' /\ OnlyClearedCallsRun'
  <2>1. AllowedAreCleared'
    BY <1>1, <1>3 DEF AllowedAreCleared, Cleared, pipelineVars
  <2>2. OnlyClearedCallsRun'
    BY <1>1, <1>3 DEF OnlyClearedCallsRun, Cleared, pipelineVars
  <2> QED BY <2>1, <2>2
<1>4. ASSUME NEW calls \in Turns, LLMCalls(calls)
      PROVE  AllowedAreCleared' /\ OnlyClearedCallsRun'
  BY <1>2, <1>4 DEF LLMCalls
<1>5. CASE LLMEnds
  BY <1>2, <1>5 DEF LLMEnds
<1>6. CASE KeepPipeline \/ NewPipeline
  <2>1. results' = <<>> /\ allowed' = <<>>
    BY <1>1, <1>6 DEF KeepPipeline, NewPipeline, BeginPass, BatchInv, Bookkeeping
  <2> QED BY <1>2, <2>1
<1>7. CASE AllowCall
  <2>1. Cleared(turn[index])
    BY <1>7, AllowedIsCleared DEF AllowCall
  <2>2. /\ results' = <<>> /\ pc = "gating"
        /\ UNCHANGED <<privilege_context, gate_policy, turn>>
    BY <1>1, <1>7 DEF AllowCall, BatchInv, Bookkeeping
  <2>3. AllowedAreCleared'
    BY <1>1, <1>7, <2>1, <2>2, AllowedLast DEF AllowedAreCleared, Cleared
  <2> QED BY <2>2, <2>3 DEF OnlyClearedCallsRun
<1>8. CASE BlockCall
  <2>1. /\ results' = <<>> /\ pc = "gating"
        /\ UNCHANGED <<privilege_context, gate_policy, turn, allowed>>
    BY <1>1, <1>8 DEF BlockCall, BatchInv, Bookkeeping
  <2> QED BY <1>1, <2>1 DEF OnlyClearedCallsRun, AllowedAreCleared, Cleared
<1>9. CASE CloseGate \/ OpenExecutor \/ CloseExecutor
  <2>1. UNCHANGED <<pipelineVars, turn, allowed, results>> /\ pc \in {"gating", "exec", "executing"}
    BY <1>9 DEF CloseGate, OpenExecutor, CloseExecutor, callVars
  <2> QED BY <1>3, <2>1
<1>10. ASSUME NEW outcome \in {"ok", "error"}, Execute(outcome)
       PROVE  AllowedAreCleared' /\ OnlyClearedCallsRun'
  <2>1. pc = "executing" /\ UNCHANGED <<pipelineVars, turn, allowed>>
    BY <1>10 DEF Execute
  <2>2. /\ index \in 1..Len(allowed) /\ results'[index].id = allowed[index]
        /\ \A i \in 1..Len(results') : i # index => i \in 1..Len(results) /\ results'[i] = results[i]
    BY <1>1, <1>10, ResultLast
  <2>3. Cleared(turn[allowed[index]])
    BY <1>1, <2>1, <2>2 DEF AllowedAreCleared
  <2> QED BY <1>2, <1>3, <2>1, <2>2, <2>3
<1>11. CASE Feedback
  <2>1. pc' = "llm" /\ UNCHANGED <<pipelineVars, turn, allowed>>
    BY <1>11 DEF Feedback
  <2> QED BY <1>1, <1>3, <1>11, <2>1, RefuseRest
<1>12. ASSUME NEW task \in Tasks, StartRun(task)
       PROVE  AllowedAreCleared' /\ OnlyClearedCallsRun'
  BY <1>3, <1>12 DEF StartRun, callVars
<1>13. CASE UNCHANGED agentVars
  BY <1>3, <1>13 DEF agentVars, loopVars, callVars
<1> QED
  BY <1>4, <1>5, <1>6, <1>7, <1>8, <1>9, <1>10, <1>11, <1>12, <1>13
     DEF AgentNext, LoopStep

\* Complete mediation: whatever runs has been cleared by scope, static policy and
\* data profile of the current task, with the arguments it is run with.
THEOREM OnlyClearedRun == AgentSafety => []OnlyClearedCallsRun
<1>1. AgentInit => ClearedInv
  BY BatchInit DEF AgentInit, ClearedInv, AllowedAreCleared, OnlyClearedCallsRun
<1>2. ClearedInv => OnlyClearedCallsRun
  BY DEF ClearedInv
<1> QED BY <1>1, <1>2, ClearedStep, PTL DEF AgentSafety

-----------------------------------------------------------------------------
(***************************************************************************)
(* The log of the message                                                  *)
(***************************************************************************)

\* The entry is that of call i, and call i is on the side it says.
EntryOf(entry, i) ==
  /\ entry.action = turn[i].action
  /\ IF entry.final_decision = "allowed"
     THEN \E k \in 1..Len(allowed) : allowed[k] = i
     ELSE \E k \in 1..Len(blocked) : blocked[k] = i

\* The log ends with the first n calls of the message.
LogEndsWith(n) ==
  /\ n <= Len(audit_log)
  /\ \A i \in 1..n : EntryOf(audit_log[Len(audit_log) - n + i], i)

LEMMA AuditedLog ==
  MessageIsAudited <=> (pc \in {"gating", "exec", "executing"} => LogEndsWith(Gated))
BY DEF MessageIsAudited, LogEndsWith, EntryOf

\* One more call is decided, logged and put on the side its entry says.
LEMMA LogOneMore ==
  ASSUME BatchInv, AllowCall \/ BlockCall, LogEndsWith(index - 1)
  PROVE  LogEndsWith(index - 1)'
<1>1. /\ index \in 1..Len(turn) /\ index' = index + 1 /\ turn' = turn
      /\ audit_log' = Append(audit_log, GateEntry(turn[index]))
      /\ allowed \in Seq(Ids) /\ blocked \in Seq(Ids) /\ turn \in Seq(Calls) /\ pc # "idle"
  BY DEF AllowCall, BlockCall, BatchInv, AgentTypeOK, GateInv
<1>2. index \in Ids
  BY <1>1, TurnLength, LoopAssumption DEF BatchInv, AgentTypeOK, Ids
<1> DEFINE entry == GateEntry(turn[index])
<1>3. entry \in AuditEntries /\ audit_log \in Seq(AuditEntries)
  BY <1>1, GateEntryType DEF BatchInv, GateInv, PipelineTypeOK
<1>4. entry.action = turn[index].action /\ entry.final_decision = Decision(turn[index])
  BY DEF GateEntry, AuditEntry, Decision
<1>5. PICK m \in Nat : m = Len(audit_log)
  BY <1>3
<1>6. audit_log' = Append(audit_log, entry)
  BY <1>1
<1> HIDE DEF entry
<1>7. /\ Len(audit_log') = m + 1 /\ audit_log'[m + 1] = entry
      /\ \A j \in 1..m : audit_log'[j] = audit_log[j]
  BY <1>3, <1>5, <1>6
<1>8. /\ \A k \in 1..Len(allowed) : k \in 1..Len(allowed') /\ allowed'[k] = allowed[k]
      /\ \A k \in 1..Len(blocked) : k \in 1..Len(blocked') /\ blocked'[k] = blocked[k]
      /\ IF entry.final_decision = "allowed"
         THEN \E k \in 1..Len(allowed') : allowed'[k] = index
         ELSE \E k \in 1..Len(blocked') : blocked'[k] = index
  <2>1. CASE AllowCall
    <3>1. /\ allowed' = Append(allowed, index) /\ blocked' = blocked
          /\ entry.final_decision = "allowed"
      BY <1>4, <2>1 DEF AllowCall
    <3>2. /\ Len(allowed') = Len(allowed) + 1 /\ allowed'[Len(allowed) + 1] = index
          /\ \A k \in 1..Len(allowed) : allowed'[k] = allowed[k]
      BY <1>1, <1>2, <3>1
    <3> QED BY <1>1, <3>1, <3>2
  <2>2. CASE BlockCall
    <3>1. /\ blocked' = Append(blocked, index) /\ allowed' = allowed
          /\ entry.final_decision # "allowed"
      BY <1>4, <2>2 DEF BlockCall
    <3>2. /\ Len(blocked') = Len(blocked) + 1 /\ blocked'[Len(blocked) + 1] = index
          /\ \A k \in 1..Len(blocked) : blocked'[k] = blocked[k]
      BY <1>1, <1>2, <3>1
    <3> QED BY <1>1, <3>1, <3>2
  <2> QED BY <2>1, <2>2
<1>9. \A e, i : EntryOf(e, i) =>
        /\ e.action = turn'[i].action
        /\ IF e.final_decision = "allowed"
           THEN \E k \in 1..Len(allowed') : allowed'[k] = i
           ELSE \E k \in 1..Len(blocked') : blocked'[k] = i
  BY <1>1, <1>8 DEF EntryOf
<1>10. \A i \in 1..(index - 1) : /\ audit_log'[(m + 1) - index + i] = audit_log[m - (index - 1) + i]
                                /\ EntryOf(audit_log[m - (index - 1) + i], i)
  <2>1. index - 1 <= m /\ \A i \in 1..(index - 1) : EntryOf(audit_log[m - (index - 1) + i], i)
    BY <1>5 DEF LogEndsWith
  <2>2. \A i \in 1..(index - 1) : /\ m - (index - 1) + i \in 1..m
                                 /\ (m + 1) - index + i = m - (index - 1) + i
    BY <1>1, <1>5, <2>1
  <2> QED BY <1>7, <2>1, <2>2
<1>11. \A i \in 1..index :
         /\ audit_log'[Len(audit_log') - index + i].action = turn'[i].action
         /\ IF audit_log'[Len(audit_log') - index + i].final_decision = "allowed"
            THEN \E k \in 1..Len(allowed') : allowed'[k] = i
            ELSE \E k \in 1..Len(blocked') : blocked'[k] = i
  <2> SUFFICES ASSUME NEW i \in 1..index
               PROVE  /\ audit_log'[(m + 1) - index + i].action = turn'[i].action
                      /\ IF audit_log'[(m + 1) - index + i].final_decision = "allowed"
                         THEN \E k \in 1..Len(allowed') : allowed'[k] = i
                         ELSE \E k \in 1..Len(blocked') : blocked'[k] = i
    BY <1>7
  <2>1. CASE i = index
    <3>1. (m + 1) - index + i = m + 1
      BY <1>1, <1>5, <2>1
    <3> QED BY <1>1, <1>4, <1>7, <1>8, <2>1, <3>1
  <2>2. CASE i # index
    <3>1. i \in 1..(index - 1)
      BY <1>1, <2>2
    <3> QED BY <1>9, <1>10, <3>1
  <2> QED BY <2>1, <2>2
<1>12. index <= Len(audit_log') /\ index' - 1 = index
  BY <1>1, <1>5, <1>7 DEF LogEndsWith
<1> QED BY <1>11, <1>12 DEF LogEndsWith, EntryOf

AuditInv == BatchInv /\ MessageIsAudited

LEMMA AuditStep == AuditInv /\ [AgentNext]_agentVars => AuditInv'
<1> SUFFICES ASSUME AuditInv, [AgentNext]_agentVars
             PROVE  MessageIsAudited'
  BY BatchStep DEF AuditInv
<1>1. BatchInv /\ (pc \in {"gating", "exec", "executing"} => LogEndsWith(Gated))
  BY AuditedLog DEF AuditInv
<1>2. SUFFICES (pc' \in {"gating", "exec", "executing"}) => LogEndsWith(Gated)'
  BY AuditedLog DEF MessageIsAudited, LogEndsWith, EntryOf
<1>3. ASSUME UNCHANGED <<audit_log, turn, allowed, blocked>>,
             pc \in {"gating", "exec", "executing"}, Gated' = Gated
      PROVE  LogEndsWith(Gated)'
  BY <1>1, <1>3 DEF LogEndsWith, EntryOf
<1>4. CASE KeepPipeline \/ NewPipeline
  <2>1. audit_log' \in Seq(AuditEntries)
    BY <1>1, BatchStep DEF BatchInv, GateInv, PipelineTypeOK
  <2>2. Gated' = 0
    BY <1>4 DEF KeepPipeline, NewPipeline, BeginPass, Gated
  <2> QED BY <2>1, <2>2 DEF LogEndsWith
<1>5. CASE AllowCall \/ BlockCall
  <2>1. Gated = index - 1 /\ Gated' = (index - 1)' /\ pc = "gating"
    BY <1>5 DEF AllowCall, BlockCall, Gated
  <2>2. LogEndsWith(index - 1)'
    BY <1>1, <1>5, <2>1, LogOneMore
  <2> QED BY <2>1, <2>2 DEF LogEndsWith, EntryOf
<1>6. CASE CloseGate
  <2>1. UNCHANGED <<audit_log, turn, allowed, blocked>> /\ pc = "gating" /\ pc' = "exec"
    BY <1>6 DEF CloseGate, pipelineVars, callVars
  <2>2. Gated = Len(turn)
    BY <1>1, <1>6, <2>1 DEF CloseGate, Gated, BatchInv, Bookkeeping, AgentTypeOK, GateInv
  <2> QED BY <1>3, <2>1, <2>2 DEF Gated
<1>7. CASE OpenExecutor \/ (\E outcome \in {"ok", "error"} : Execute(outcome))
  BY <1>3, <1>7 DEF OpenExecutor, Execute, Gated, pipelineVars, callVars
<1>8. CASE UNCHANGED agentVars
  BY <1>3, <1>8 DEF agentVars, loopVars, callVars, pipelineVars, Gated
<1>9. ASSUME \/ \E calls \in Turns : LLMCalls(calls)
             \/ LLMEnds \/ CloseExecutor \/ Feedback
             \/ \E task \in Tasks : StartRun(task)
      PROVE  pc' \notin {"gating", "exec", "executing"}
  BY <1>9 DEF LLMCalls, LLMEnds, CloseExecutor, Feedback, StartRun
<1> QED BY <1>4, <1>5, <1>6, <1>7, <1>8, <1>9 DEF AgentNext, LoopStep

\* The log ends with the calls of the message, and the message is split as the
\* log says.
THEOREM MessagesAudited == AgentSafety => []MessageIsAudited
<1>1. AgentInit => AuditInv
  BY BatchInit DEF AgentInit, AuditInv, MessageIsAudited
<1>2. AuditInv => MessageIsAudited
  BY DEF AuditInv
<1> QED BY <1>1, <1>2, AuditStep, PTL DEF AgentSafety

-----------------------------------------------------------------------------
(***************************************************************************)
(* The order in which tools are attempted                                  *)
(***************************************************************************)

\* The actions of the first n allowed calls.
AllowedActions(n) == {turn[allowed[k]].action : k \in 1..n}

InBatch == pc \in {"gating", "exec", "executing"}

\* The inductive invariant: what counts as completed was attempted or is ahead in
\* the batch, and each call of the batch waits only for what was attempted or for
\* calls before it.
AttemptInv ==
  /\ BatchInv
  /\ ~ InBatch => task_state.completed \subseteq executed
  /\ InBatch =>
       /\ task_state.completed \subseteq executed \cup AllowedActions(Len(allowed))
       /\ gate_policy # NoPolicy =>
            \A k \in 1..Len(allowed) :
              gate_policy.tool[turn[allowed[k]].action] \subseteq executed \cup AllowedActions(k - 1)
  /\ pc = "executing" => AllowedActions(index - 1) \subseteq executed

LEMMA AttemptStep == AttemptInv /\ [AgentNext]_agentVars => AttemptInv'
<1> SUFFICES ASSUME AttemptInv, [AgentNext]_agentVars
             PROVE  AttemptInv'
  OBVIOUS
<1>1. BatchInv /\ BatchInv'
  BY BatchStep DEF AttemptInv
<1>2. ASSUME UNCHANGED <<task_state, gate_policy, executed, turn, allowed>>, InBatch' = InBatch,
             pc' = "executing" => (index' = 1 \/ UNCHANGED <<index, pc>>)
      PROVE  AttemptInv'
  BY <1>1, <1>2 DEF AttemptInv, AllowedActions
<1>3. ASSUME UNCHANGED <<pipelineVars, executed>>, ~ InBatch, ~ InBatch'
      PROVE  AttemptInv'
  BY <1>1, <1>3 DEF AttemptInv, pipelineVars, InBatch
<1>4. ASSUME \/ \E calls \in Turns : LLMCalls(calls)
             \/ LLMEnds \/ Feedback
             \/ \E task \in Tasks : StartRun(task)
      PROVE  AttemptInv'
  BY <1>3, <1>4 DEF LLMCalls, LLMEnds, Feedback, StartRun, InBatch, histVars
<1>5. CASE KeepPipeline \/ NewPipeline
  <2>1. pc = "gate" /\ pc' = "gating" /\ allowed' = <<>>
    BY <1>5 DEF KeepPipeline, NewPipeline, BeginPass
  <2>2. task_state'.completed \subseteq executed'
    <3>1. CASE KeepPipeline
      BY <2>1, <3>1 DEF KeepPipeline, AttemptInv, InBatch, pipelineVars, histVars
    <3>2. CASE NewPipeline
      BY <3>2 DEF NewPipeline, Initialized, FreshTaskState
    <3> QED BY <1>5, <3>1, <3>2
  <2> QED BY <1>1, <2>1, <2>2 DEF AttemptInv, InBatch
<1>6. CASE AllowCall
  <2> DEFINE a == turn[index].action
  <2>1. /\ pc = "gating" /\ pc' = "gating" /\ turn[index] \in Calls /\ index \in Nat
        /\ UNCHANGED <<gate_policy, executed, turn>>
        /\ task_state' = Recorded(a) /\ Decision(turn[index]) = "allowed"
    BY <1>1, <1>6 DEF AllowCall, BatchInv, GateInv, AgentTypeOK
  <2>2. task_state'.completed = task_state.completed \cup {a}
    BY <1>1, <2>1 DEF Recorded, TaskStates, BatchInv, GateInv, PipelineTypeOK
  <2>3. gate_policy # NoPolicy => gate_policy.tool[a] \subseteq task_state.completed
    BY <2>1, AllowedHasPrerequisites DEF Decision
  <2>4. PICK n \in Nat : n = Len(allowed)
    BY <1>1 DEF BatchInv, AgentTypeOK
  <2>5. /\ Len(allowed') = n + 1 /\ allowed'[n + 1] = index
        /\ \A k \in 1..n : allowed'[k] = allowed[k]
    BY <1>1, <1>6, <2>4, AllowedLast
  <2>6. /\ \A k \in 1..(n + 1) : {turn'[allowed'[j]].action : j \in 1..(k - 1)} = AllowedActions(k - 1)
        /\ {turn'[allowed'[j]].action : j \in 1..(n + 1)} = AllowedActions(n) \cup {a}
    BY <2>1, <2>5 DEF AllowedActions
  <2>7. /\ task_state.completed \subseteq executed \cup AllowedActions(n)
        /\ gate_policy # NoPolicy =>
             \A k \in 1..n :
               gate_policy.tool[turn[allowed[k]].action] \subseteq executed \cup AllowedActions(k - 1)
    BY <2>1, <2>4 DEF AttemptInv, InBatch
  <2>8. ASSUME gate_policy # NoPolicy, NEW k \in 1..(n + 1)
        PROVE  gate_policy.tool[turn[allowed'[k]].action] \subseteq executed \cup AllowedActions(k - 1)
    <3>1. CASE k \in 1..n
      BY <2>5, <2>7, <2>8, <3>1
    <3>2. CASE k = n + 1
      <4>1. turn[allowed'[k]].action = a /\ k - 1 = n
        BY <2>4, <2>5, <3>2
      <4> HIDE DEF a
      <4> QED BY <2>3, <2>7, <2>8, <4>1
    <3> QED BY <2>4, <2>8, <3>1, <3>2
  <2> HIDE DEF a
  <2>9. /\ task_state'.completed \subseteq executed' \cup AllowedActions(Len(allowed))'
        /\ gate_policy' # NoPolicy =>
             \A k \in 1..Len(allowed') :
               gate_policy'.tool[turn'[allowed'[k]].action] \subseteq executed' \cup AllowedActions(k - 1)'
    BY <2>1, <2>2, <2>5, <2>6, <2>7, <2>8 DEF AllowedActions
  <2> QED BY <1>1, <2>1, <2>9 DEF AttemptInv, InBatch
<1>7. CASE BlockCall
  BY <1>2, <1>7 DEF BlockCall, histVars, InBatch
<1>8. CASE CloseGate
  BY <1>2, <1>8 DEF CloseGate, pipelineVars, callVars, histVars, InBatch
<1>9. CASE OpenExecutor
  <2>1. index' = 1 /\ pc' = "executing"
    BY <1>1, <1>9 DEF OpenExecutor, BatchInv, Bookkeeping
  <2> QED BY <1>2, <1>9, <2>1 DEF OpenExecutor, pipelineVars, callVars, histVars, InBatch
<1>10. ASSUME NEW outcome \in {"ok", "error"}, Execute(outcome)
       PROVE  AttemptInv'
  <2>1. /\ pc = "executing" /\ pc' = "executing" /\ index \in Nat \ {0} /\ index' = index + 1
        /\ UNCHANGED <<pipelineVars, turn, allowed>>
        /\ executed' = executed \cup {turn[allowed[index]].action}
    BY <1>1, <1>10 DEF Execute, BatchInv, GateInv
  <2>2. AllowedActions(index - 1)' \subseteq executed'
    BY <2>1 DEF AttemptInv, AllowedActions
  <2> QED BY <1>1, <2>1, <2>2 DEF AttemptInv, AllowedActions, InBatch, pipelineVars
<1>11. CASE CloseExecutor
  <2>1. /\ pc = "executing" /\ pc' = "feedback" /\ UNCHANGED <<task_state, executed>>
        /\ index > Len(allowed) /\ ExecutedUpTo(index - 1) /\ index \in Nat /\ Len(allowed) \in Nat
    BY <1>1, <1>11
       DEF CloseExecutor, BatchInv, Bookkeeping, GateInv, AgentTypeOK, pipelineVars, histVars
  <2>2. index - 1 = Len(allowed)
    BY <2>1 DEF ExecutedUpTo
  <2>3. task_state.completed \subseteq executed
    BY <2>1, <2>2 DEF AttemptInv, InBatch
  <2> QED BY <1>1, <2>1, <2>3 DEF AttemptInv, InBatch
<1>12. CASE UNCHANGED agentVars
  BY <1>1, <1>12 DEF AttemptInv, AllowedActions, InBatch, agentVars, pipelineVars, loopVars,
                     callVars, histVars
<1> QED BY <1>4, <1>5, <1>6, <1>7, <1>8, <1>9, <1>10, <1>11, <1>12 DEF AgentNext, LoopStep

\* The executor never starts an action before each of its prerequisites has at
\* least been attempted, over all messages and runs that share the pipeline.
THEOREM AttemptedInOrder == AgentSafety => PrerequisitesAttempted
<1>1. AgentInit => AttemptInv
  BY BatchInit DEF AgentInit, PipelineInit, FreshTaskState, AttemptInv, InBatch
<1>2. AttemptInv /\ [AgentNext]_agentVars =>
        [executed' # executed /\ executed' # {} /\ gate_policy # NoPolicy =>
           \A a \in executed' \ executed : gate_policy.tool[a] \subseteq executed]_agentVars
  <2> SUFFICES ASSUME AttemptInv, AgentNext, executed' # executed, executed' # {},
                      gate_policy # NoPolicy, NEW a \in executed' \ executed
               PROVE  gate_policy.tool[a] \subseteq executed
    OBVIOUS
  <2>1. \E outcome \in {"ok", "error"} : Execute(outcome)
    BY DEF AgentNext, LoopStep, LLMCalls, LLMEnds, KeepPipeline, NewPipeline, AllowCall,
           BlockCall, CloseGate, OpenExecutor, CloseExecutor, Feedback, StartRun, histVars
  <2>2. /\ a = turn[allowed[index]].action /\ pc = "executing"
        /\ index \in 1..Len(allowed)
    BY <2>1 DEF Execute, AttemptInv, BatchInv, AgentTypeOK
  <2>3. gate_policy.tool[a] \subseteq executed \cup AllowedActions(index - 1)
    BY <2>2 DEF AttemptInv, InBatch
  <2> QED BY <2>2, <2>3 DEF AttemptInv
<1> QED BY <1>1, <1>2, AttemptStep, PTL DEF AgentSafety, PrerequisitesAttempted

-----------------------------------------------------------------------------
(***************************************************************************)
(* The summary of the log                                                  *)
(***************************************************************************)

CountOf(log, decision) == Cardinality({i \in DOMAIN log : log[i].final_decision = decision})

LEMMA CountOfEmpty == \A decision : CountOf(<<>>, decision) = 0
BY FS_EmptySet DEF CountOf

LEMMA CountOfAppend ==
  ASSUME NEW S, NEW log \in Seq(S), NEW entry \in S, NEW decision
  PROVE  /\ CountOf(log, decision) \in Nat
         /\ CountOf(Append(log, entry), decision) =
              CountOf(log, decision) + (IF entry.final_decision = decision THEN 1 ELSE 0)
<1> DEFINE n == Len(log)
           longer == Append(log, entry)
           old == {i \in DOMAIN log : log[i].final_decision = decision}
           new == {i \in DOMAIN longer : longer[i].final_decision = decision}
<1>1. /\ n \in Nat /\ DOMAIN log = 1..n /\ DOMAIN longer = 1..(n + 1)
      /\ longer[n + 1] = entry /\ \A i \in 1..n : longer[i] = log[i]
  OBVIOUS
<1>2. IsFiniteSet(old)
  <2>1. n \in Int /\ 1 \in Int
    BY <1>1
  <2> HIDE DEF n
  <2>2. IsFiniteSet(1..n)
    BY <2>1, FS_Interval
  <2> QED BY <1>1, <2>2, FS_Subset
<1>3. n + 1 \notin old
  BY <1>1
<1>4. new = IF entry.final_decision = decision THEN old \cup {n + 1} ELSE old
  <2> HIDE DEF longer
  <2> QED BY <1>1
<1> HIDE DEF n, longer, old, new
<1>5. Cardinality(old) \in Nat
  BY <1>2, FS_CardinalityType
<1>6. Cardinality(new) = Cardinality(old) + (IF entry.final_decision = decision THEN 1 ELSE 0)
  <2>1. Cardinality(old \cup {n + 1}) = Cardinality(old) + 1
    BY <1>2, <1>3, FS_AddElement
  <2> QED BY <1>4, <1>5, <2>1
<1> QED BY <1>5, <1>6 DEF CountOf, longer, old, new

LEMMA SummaryCounts ==
  ASSUME NEW log
  PROVE  /\ Summary(log).total_actions = Len(log)
         /\ Summary(log).allowed = CountOf(log, "allowed")
         /\ Summary(log).denied = CountOf(log, "denied")
         /\ Summary(log).verification_required = CountOf(log, "verification_required")
BY DEF Summary, CountOf

\* The allowed calls that still have to be run, and the refusals not yet reported.
RunsAhead ==
  IF pc \in {"gating", "exec"} THEN Len(allowed)
  ELSE IF pc = "executing" THEN Len(allowed) - (index - 1) ELSE 0
RefusalsAhead == IF pc \in Handling \ {"gate"} THEN Len(blocked) ELSE 0

AllowedCount == CountOf(audit_log, "allowed")
RefusedCount == CountOf(audit_log, "denied") + CountOf(audit_log, "verification_required")

\* The inductive invariant: while a message is handled the log is ahead of the
\* answers by the calls of the message that wait for theirs.
CountInv ==
  /\ BatchInv
  /\ Len(audit_log) = AllowedCount + RefusedCount
  /\ AllowedCount = answers.run + RunsAhead
  /\ RefusedCount = answers.refused + RefusalsAhead

LEMMA CountInit == AgentInit => CountInv
<1> SUFFICES ASSUME AgentInit
             PROVE  CountInv
  OBVIOUS
<1>1. audit_log = <<>> /\ answers = NoAnswers /\ pc = "idle"
  BY DEF AgentInit, PipelineInit
<1>2. AllowedCount = 0 /\ RefusedCount = 0
  BY <1>1, CountOfEmpty DEF AllowedCount, RefusedCount
<1> QED BY <1>1, <1>2, BatchInit DEF CountInv, RunsAhead, RefusalsAhead, NoAnswers, Handling

\* One decided call counts as allowed or as refused, never as both.
LEMMA CountOne ==
  ASSUME BatchInv, AllowCall \/ BlockCall
  PROVE  /\ Len(audit_log) \in Nat /\ AllowedCount \in Nat /\ RefusedCount \in Nat
         /\ Len(audit_log') = Len(audit_log) + 1
         /\ AllowCall => AllowedCount' = AllowedCount + 1 /\ RefusedCount' = RefusedCount
         /\ BlockCall => AllowedCount' = AllowedCount /\ RefusedCount' = RefusedCount + 1
<1> DEFINE entry == GateEntry(turn[index])
<1>1. turn[index] \in Calls /\ pc # "idle" /\ audit_log' = Append(audit_log, entry)
  BY DEF AllowCall, BlockCall, BatchInv, GateInv
<1>2. entry \in AuditEntries /\ audit_log \in Seq(AuditEntries)
  BY <1>1, GateEntryType DEF BatchInv, GateInv, PipelineTypeOK
<1>3. entry.final_decision = Decision(turn[index])
  BY DEF GateEntry, AuditEntry, Decision
<1>4. /\ AllowCall => entry.final_decision = "allowed"
      /\ BlockCall => entry.final_decision # "allowed"
  BY <1>3 DEF AllowCall, BlockCall
<1> HIDE DEF entry
<1>5. entry.final_decision \in {"allowed", "denied", "verification_required"}
  BY <1>2 DEF AuditEntries, Decisions
<1>6. Len(audit_log) \in Nat /\ Len(audit_log') = Len(audit_log) + 1
  BY <1>1, <1>2
<1>7. \A decision :
        /\ CountOf(audit_log, decision) \in Nat
        /\ CountOf(audit_log', decision) =
             CountOf(audit_log, decision) + (IF entry.final_decision = decision THEN 1 ELSE 0)
  BY <1>1, <1>2, CountOfAppend
<1> QED BY <1>4, <1>5, <1>6, <1>7 DEF AllowedCount, RefusedCount

LEMMA CountStep == CountInv /\ [AgentNext]_agentVars => CountInv'
<1> SUFFICES ASSUME CountInv, [AgentNext]_agentVars
             PROVE  CountInv'
  OBVIOUS
<1>1. BatchInv /\ BatchInv'
  BY BatchStep DEF CountInv
<1>2. /\ Len(allowed) \in Nat /\ Len(blocked) \in Nat /\ index \in Nat
      /\ answers \in [run : Nat, refused : Nat]
  BY <1>1 DEF BatchInv, AgentTypeOK
<1>3. answers.run \in Nat /\ answers.refused \in Nat
  BY <1>2
<1>all. Len(audit_log) = AllowedCount + RefusedCount
  BY DEF CountInv
<1>run. AllowedCount = answers.run + RunsAhead
  BY DEF CountInv
<1>refused. RefusedCount = answers.refused + RefusalsAhead
  BY DEF CountInv
<1>4. ASSUME UNCHANGED audit_log, answers'.run + RunsAhead' = answers.run + RunsAhead,
             answers'.refused + RefusalsAhead' = answers.refused + RefusalsAhead
      PROVE  CountInv'
  BY <1>1, <1>4, <1>all, <1>run, <1>refused DEF CountInv, AllowedCount, RefusedCount
<1>5. ASSUME UNCHANGED <<audit_log, answers>>, RunsAhead' = RunsAhead,
             RefusalsAhead' = RefusalsAhead
      PROVE  CountInv'
  BY <1>4, <1>5
<1>6. ASSUME \/ \E calls \in Turns : LLMCalls(calls)
             \/ LLMEnds
             \/ \E task \in Tasks : StartRun(task)
      PROVE  CountInv'
  BY <1>5, <1>6
     DEF LLMCalls, LLMEnds, StartRun, pipelineVars, histVars, RunsAhead, RefusalsAhead, Handling
<1>7. CASE KeepPipeline
  BY <1>5, <1>7
     DEF KeepPipeline, BeginPass, pipelineVars, histVars, RunsAhead, RefusalsAhead, Handling
<1>8. CASE NewPipeline
  <2>1. /\ audit_log' = <<>> /\ answers' = NoAnswers
        /\ pc' = "gating" /\ allowed' = <<>> /\ blocked' = <<>>
    BY <1>8 DEF NewPipeline, BeginPass
  <2>2. AllowedCount' = 0 /\ RefusedCount' = 0
    BY <2>1, CountOfEmpty DEF AllowedCount, RefusedCount
  <2> QED BY <1>1, <2>1, <2>2 DEF CountInv, NoAnswers, RunsAhead, RefusalsAhead
<1>9. CASE AllowCall
  <2>1. /\ AllowedCount' = AllowedCount + 1 /\ RefusedCount' = RefusedCount
        /\ Len(audit_log') = Len(audit_log) + 1
        /\ Len(audit_log) \in Nat /\ AllowedCount \in Nat /\ RefusedCount \in Nat
    BY <1>1, <1>9, CountOne
  <2>2. /\ RunsAhead' = RunsAhead + 1 /\ RunsAhead \in Nat
        /\ RefusalsAhead' = RefusalsAhead /\ RefusalsAhead \in Nat
    BY <1>1, <1>9, AllowedLast DEF AllowCall, RunsAhead, RefusalsAhead, Handling
  <2>3. answers'.run = answers.run /\ answers'.refused = answers.refused
    BY <1>9 DEF AllowCall
  <2>4. Len(audit_log') = AllowedCount' + RefusedCount'
    BY <1>all, <2>1
  <2>5. AllowedCount' = answers'.run + RunsAhead'
    BY <1>3, <1>run, <2>1, <2>2, <2>3
  <2>6. RefusedCount' = answers'.refused + RefusalsAhead'
    BY <1>3, <1>refused, <2>1, <2>2, <2>3
  <2> QED BY <1>1, <2>4, <2>5, <2>6 DEF CountInv
<1>10. CASE BlockCall
  <2>1. /\ AllowedCount' = AllowedCount /\ RefusedCount' = RefusedCount + 1
        /\ Len(audit_log') = Len(audit_log) + 1
        /\ Len(audit_log) \in Nat /\ AllowedCount \in Nat /\ RefusedCount \in Nat
    BY <1>1, <1>10, CountOne
  <2>2. /\ pc = "gating" /\ pc' = "gating" /\ allowed' = allowed
        /\ blocked' = Append(blocked, index) /\ UNCHANGED answers
    BY <1>10 DEF BlockCall, histVars
  <2>3. Len(blocked') = Len(blocked) + 1
    BY <1>1, <2>2 DEF BatchInv, AgentTypeOK
  <2>4. /\ RunsAhead' = RunsAhead /\ RunsAhead \in Nat
        /\ RefusalsAhead' = RefusalsAhead + 1 /\ RefusalsAhead \in Nat
    BY <1>2, <2>2, <2>3 DEF RunsAhead, RefusalsAhead, Handling
  <2>5. answers'.run = answers.run /\ answers'.refused = answers.refused
    BY <2>2
  <2>6. Len(audit_log') = AllowedCount' + RefusedCount'
    BY <1>all, <2>1
  <2>7. AllowedCount' = answers'.run + RunsAhead'
    BY <1>3, <1>run, <2>1, <2>4, <2>5
  <2>8. RefusedCount' = answers'.refused + RefusalsAhead'
    BY <1>3, <1>refused, <2>1, <2>4, <2>5
  <2> QED BY <1>1, <2>6, <2>7, <2>8 DEF CountInv
<1>11. CASE CloseGate
  BY <1>5, <1>11
     DEF CloseGate, pipelineVars, callVars, histVars, RunsAhead, RefusalsAhead, Handling
<1>12. CASE OpenExecutor
  <2>1. /\ pc = "exec" /\ pc' = "executing" /\ index' = 1
        /\ UNCHANGED <<audit_log, answers, allowed, blocked>>
    BY <1>1, <1>12
       DEF OpenExecutor, BatchInv, Bookkeeping, pipelineVars, callVars, histVars
  <2> QED BY <1>2, <1>5, <2>1 DEF RunsAhead, RefusalsAhead, Handling
<1>13. ASSUME NEW outcome \in {"ok", "error"}, Execute(outcome)
       PROVE  CountInv'
  <2>1. /\ pc = "executing" /\ pc' = "executing" /\ index' = index + 1
        /\ UNCHANGED <<audit_log, allowed, blocked>>
        /\ answers' = [answers EXCEPT !.run = @ + 1]
    BY <1>13 DEF Execute, pipelineVars
  <2>2. answers'.run = answers.run + 1 /\ answers'.refused = answers.refused
    BY <1>2, <2>1
  <2>3. RunsAhead' = RunsAhead - 1 /\ RefusalsAhead' = RefusalsAhead
    BY <1>2, <2>1 DEF RunsAhead, RefusalsAhead, Handling
  <2>4. RunsAhead \in Int
    BY <1>2, <2>1 DEF RunsAhead
  <2> QED BY <1>2, <1>4, <2>1, <2>2, <2>3, <2>4
<1>14. CASE CloseExecutor
  <2>1. /\ pc = "executing" /\ pc' = "feedback" /\ index > Len(allowed) /\ ExecutedUpTo(index - 1)
        /\ UNCHANGED <<audit_log, answers, blocked>>
    BY <1>1, <1>14
       DEF CloseExecutor, BatchInv, Bookkeeping, pipelineVars, callVars, histVars
  <2>2. index - 1 = Len(allowed)
    BY <1>2, <2>1 DEF ExecutedUpTo
  <2> QED BY <1>2, <1>5, <2>1, <2>2 DEF RunsAhead, RefusalsAhead, Handling
<1>15. CASE Feedback
  <2>1. /\ pc = "feedback" /\ pc' = "llm" /\ UNCHANGED audit_log
        /\ answers' = [answers EXCEPT !.refused = @ + Len(blocked)]
    BY <1>15 DEF Feedback, pipelineVars
  <2>2. answers'.run = answers.run /\ answers'.refused = answers.refused + Len(blocked)
    BY <1>2, <2>1
  <2>3. /\ RunsAhead' = 0 /\ RunsAhead = 0
        /\ RefusalsAhead' = 0 /\ RefusalsAhead = Len(blocked)
    BY <2>1 DEF RunsAhead, RefusalsAhead, Handling
  <2> QED BY <1>2, <1>4, <2>1, <2>2, <2>3
<1>16. CASE UNCHANGED agentVars
  BY <1>5, <1>16
     DEF agentVars, pipelineVars, loopVars, callVars, histVars, RunsAhead, RefusalsAhead
<1> QED BY <1>6, <1>7, <1>8, <1>9, <1>10, <1>11, <1>12, <1>13, <1>14, <1>15, <1>16
        DEF AgentNext, LoopStep

\* Between messages the summary accounts for every answer the LLM has been given
\* under the pipeline, over any number of messages and runs.
THEOREM SummaryIsExact == AgentSafety => []SummaryCountsAnswers
<1>1. CountInv => SummaryCountsAnswers
  <2> SUFFICES ASSUME CountInv, pc \in {"llm", "idle"}
               PROVE  SummaryCountsAnswers
    BY DEF SummaryCountsAnswers
  <2>1. RunsAhead = 0 /\ RefusalsAhead = 0 /\ answers \in [run : Nat, refused : Nat]
    BY DEF RunsAhead, RefusalsAhead, Handling, CountInv, BatchInv, AgentTypeOK
  <2>2. /\ AllowedCount = answers.run /\ RefusedCount = answers.refused
        /\ Len(audit_log) = answers.run + answers.refused
    BY <2>1 DEF CountInv
  <2> QED BY <2>2, SummaryCounts DEF SummaryCountsAnswers, AllowedCount, RefusedCount
<1> QED BY <1>1, CountInit, CountStep, PTL DEF AgentSafety
==============================================================================
