----------------------- MODULE ExecutionDriverProofs -----------------------
(***************************************************************************)
(* Proofs about the driver of a Ray job, for all inputs and environments   *)
(* and any number of failing calls.                                        *)
(***************************************************************************)
EXTENDS ExecutionDriver, FiniteSetTheorems, TLAPS

Event == [type: Nonterminal \cup Terminal, code: Codes]

\* Nothing terminal has been said.
Quiet == \A i \in 1..Len(events) : events[i].type \in Nonterminal

\* COMPLETED has been said, last and as the only terminal event.
Finished ==
  /\ Len(events) > 0
  /\ events[Len(events)] = [type |-> "COMPLETED", code |-> "NONE"]
  /\ \A i \in 1..(Len(events) - 1) : events[i].type \in Nonterminal

\* The position of the workload in the plan.
RunStep == IF op = "training" THEN 4 ELSE 7
Early == {"load", "connect", "credential", "init"}

Points ==
  /\ op \in {"training", "batch_inference"}
  /\ pc \in Early \cup {"plan", "report", "except", "close"}
  /\ step \in 1..Len(Plan[op])
  /\ events \in Seq(Event) /\ raised \in Codes

\* What main knows at each of its points: inside the try it has said nothing
\* terminal, until the last call; behind the workload the workload has succeeded;
\* an exception after a success is about the publication of the result; 0 is
\* returned only after COMPLETED; and Ray calls only that SUCCEEDED.
MainOK ==
  /\ pc \in Early => step = 1 /\ ran = "no" /\ Quiet
  /\ pc = "plan" => Quiet /\ (ran = "succeeded" <=> step > RunStep)
  /\ pc = "report" => Quiet /\ ran # "succeeded"
  /\ pc = "except" /\ ran = "succeeded" => raised = "TERMINAL_EVENT_PUBLICATION_FAILED"
  /\ rc = 0 => pc = "close" /\ ran = "succeeded" /\ Finished
  /\ status = "SUCCEEDED" => pc = "close" /\ rc = 0
  /\ ran = "succeeded" =>
       \A i \in 1..Len(events) :
         events[i] # [type |-> "FAILED", code |-> "EXECUTION_FAILED"]

DriverInv == Points /\ MainOK

\* Where the calls of the two plans stand, relative to the workload.
LEMMA PlanFacts ==
  ASSUME op \in {"training", "batch_inference"}, step \in 1..Len(Plan[op])
  PROVE  /\ Len(Plan[op]) \in Nat /\ 1 <= Len(Plan[op])
         /\ Now \in Nonterminal \cup {"validate", "resolve", "run", "dump"} =>
              step + 1 \in 1..Len(Plan[op])
         /\ Now \in Nonterminal => step # RunStep
         /\ Now \in {"validate", "resolve"} => step < RunStep
         /\ Now = "run" => step = RunStep
         /\ Now \in {"dump", "COMPLETED"} => step > RunStep
         /\ RunStep \in Nat /\ RunStep >= 1
<1>1. CASE op = "training"
  BY <1>1 DEF Plan, Now, RunStep, Nonterminal
<1>2. CASE op = "batch_inference"
  BY <1>2 DEF Plan, Now, RunStep, Nonterminal
<1> QED BY <1>1, <1>2

\* One more event on the stream.
LEMMA AppendFacts ==
  ASSUME events \in Seq(Event), NEW type \in Nonterminal \cup Terminal,
         NEW code \in Codes, Append1(type, code)
  PROVE  /\ events' \in Seq(Event) /\ Len(events') = Len(events) + 1
         /\ Len(events) \in Nat
         /\ events'[Len(events) + 1] = [type |-> type, code |-> code]
         /\ \A i \in 1..Len(events) : events'[i] = events[i]
BY DEF Append1, Event

\* A stream that only a nonterminal event was added to, or nothing.
LEMMA QuietKept ==
  ASSUME events \in Seq(Event), NEW type \in Nonterminal, NEW code \in Codes,
         Append1(type, code) \/ UNCHANGED events, Quiet
  PROVE  events' \in Seq(Event) /\ Quiet'
<1>1. CASE UNCHANGED events
  BY <1>1 DEF Quiet
<1>2. CASE Append1(type, code)
  <2>0. type \in Nonterminal \cup Terminal
    OBVIOUS
  <2>1. /\ events' \in Seq(Event) /\ Len(events') = Len(events) + 1
        /\ Len(events) \in Nat
        /\ events'[Len(events) + 1] = [type |-> type, code |-> code]
        /\ \A i \in 1..Len(events) : events'[i] = events[i]
    BY <1>2, <2>0, AppendFacts, Zenon
  <2>2. ASSUME NEW i \in 1..Len(events') PROVE events'[i].type \in Nonterminal
    <3>1. CASE i = Len(events) + 1
      BY <2>1, <3>1
    <3>2. CASE i \in 1..Len(events)
      BY <2>1, <3>2 DEF Quiet
    <3> QED BY <2>1, <3>1, <3>2
  <2> QED BY <2>1, <2>2 DEF Quiet
<1> QED BY <1>1, <1>2

\* A quiet stream has no FAILED event.
LEMMA QuietHasNoFailure ==
  Quiet => \A i \in 1..Len(events) :
             events[i] # [type |-> "FAILED", code |-> "EXECUTION_FAILED"]
<1>1. "FAILED" \notin Nonterminal
  BY DEF Nonterminal
<1> QED BY <1>1 DEF Quiet

\* The calls of main that publish nothing.
LEMMA SilentSteps ==
  ASSUME DriverInv,
         LoadDriverInput \/ Connect \/ ResolveCredential \/ InitRay \/ Prepare \/ Dump
  PROVE  DriverInv'
<1> USE PlanFacts DEF DriverInv, Points, Early, Codes
<1>0. UNCHANGED <<op, events, ran, rc>> /\ Quiet' = Quiet /\ RunStep' = RunStep
      /\ Finished' = Finished /\ Len(Plan[op])' = Len(Plan[op])
  BY DEF LoadDriverInput, Connect, ResolveCredential, InitRay, Prepare, Dump, Calm,
         chosen, Quiet, RunStep, Finished
<1>1. CASE LoadDriverInput \/ Connect
  BY <1>0, <1>1 DEF LoadDriverInput, Connect, Die, Running, chosen, ray, MainOK
<1>2. CASE ResolveCredential \/ InitRay
  BY <1>0, <1>2 DEF ResolveCredential, InitRay, Pass, Raise, Running, Calm, ray, MainOK
<1>3. CASE Prepare
  BY <1>0, <1>3 DEF Prepare, Follow, Raise, Running, Calm, ray, MainOK
<1>4. CASE Dump
  BY <1>0, <1>4 DEF Dump, Follow, Raise, Running, Calm, ray, MainOK
<1> QED BY <1>1, <1>2, <1>3, <1>4

\* The workload.
LEMMA RunStepKeeps ==
  ASSUME DriverInv, Run
  PROVE  DriverInv'
<1> USE PlanFacts DEF DriverInv, Points, Early, Codes
<1>0. UNCHANGED <<op, events, rc>> /\ Quiet' = Quiet /\ RunStep' = RunStep
      /\ Finished' = Finished /\ Len(Plan[op])' = Len(Plan[op])
  BY DEF Run, Calm, chosen, Quiet, RunStep, Finished
<1>1. Quiet /\ pc = "plan"
  BY DEF Run, Running, MainOK
<1> QED BY <1>0, <1>1, QuietHasNoFailure
        DEF Run, Follow, Raise, Pass, Running, Calm, ray, MainOK

\* Nonterminal events, the second failure included.
LEMMA NonterminalKeeps ==
  ASSUME DriverInv, PublishNonterminal
  PROVE  DriverInv'
<1> USE PlanFacts DEF DriverInv, Points, Early
<1>1. Quiet /\ pc = "plan" /\ Now \in Nonterminal /\ "NONE" \in Codes
  BY DEF PublishNonterminal, Running, MainOK, Codes
<1>2. Append1(Now, "NONE") \/ UNCHANGED events
  BY DEF PublishNonterminal, Published, PublishFails, Unencodable
<1>3. events' \in Seq(Event) /\ Quiet'
  BY <1>1, <1>2, QuietKept
<1>4. \A i \in 1..Len(events') :
        events'[i] # [type |-> "FAILED", code |-> "EXECUTION_FAILED"]
  <2>1. "FAILED" \notin Nonterminal
    BY DEF Nonterminal
  <2> QED BY <1>3, <2>1 DEF Quiet
<1>5. UNCHANGED <<op, ran, rc, status>> /\ RunStep' = RunStep
      /\ Len(Plan[op])' = Len(Plan[op])
  BY DEF PublishNonterminal, Calm, chosen, ray, RunStep
<1>6. UNCHANGED <<pc, raised>> /\ step' \in {step, step + 1}
  BY DEF PublishNonterminal, SecondFailure, Follow
<1>7. rc # 0 /\ status # "SUCCEEDED"
  BY <1>1 DEF MainOK
<1>8. step' \in 1..Len(Plan[op]) /\ (step' > RunStep <=> step > RunStep)
  BY <1>1, <1>6
<1> QED BY <1>1, <1>3, <1>4, <1>5, <1>6, <1>7, <1>8 DEF MainOK

\* COMPLETED: published, or the result is turned into an exception.
LEMMA CompletedKeeps ==
  ASSUME DriverInv, PublishCompleted
  PROVE  DriverInv'
<1> USE PlanFacts DEF DriverInv, Points, Early
<1>1. /\ Quiet /\ pc = "plan" /\ ran = "succeeded" /\ rc # 0 /\ status # "SUCCEEDED"
      /\ "NONE" \in Codes /\ "TERMINAL_EVENT_PUBLICATION_FAILED" \in Codes
      /\ "COMPLETED" \in Nonterminal \cup Terminal
  BY DEF PublishCompleted, Running, MainOK, Codes, Terminal
<1>2. UNCHANGED <<op, ran, status, step>> /\ Len(Plan[op])' = Len(Plan[op])
  BY DEF PublishCompleted, Calm, chosen, ray, Pass, Raise
<1>3. /\ events' \in Seq(Event)
      /\ Append1("COMPLETED", "NONE") => Finished'
      /\ \A i \in 1..Len(events') :
           events'[i] # [type |-> "FAILED", code |-> "EXECUTION_FAILED"]
  <2>1. CASE Append1("COMPLETED", "NONE")
    <3>1. /\ events' \in Seq(Event) /\ Len(events) \in Nat /\ Len(events') = Len(events) + 1
          /\ events'[Len(events) + 1] = [type |-> "COMPLETED", code |-> "NONE"]
          /\ \A i \in 1..Len(events) : events'[i] = events[i]
      BY <1>1, <2>1, AppendFacts
    <3>2. Finished'
      BY <1>1, <3>1 DEF Finished, Quiet
    <3>3. ASSUME NEW i \in 1..Len(events')
          PROVE  events'[i] # [type |-> "FAILED", code |-> "EXECUTION_FAILED"]
      <4>1. CASE i = Len(events) + 1
        BY <3>1, <4>1
      <4>2. CASE i \in 1..Len(events)
        BY <1>1, <3>1, <4>2, QuietHasNoFailure
      <4> QED BY <3>1, <4>1, <4>2
    <3> QED BY <3>1, <3>2, <3>3
  <2>2. CASE UNCHANGED events /\ ~Append1("COMPLETED", "NONE")
    BY <1>1, <2>2, QuietHasNoFailure
  <2> QED BY <2>1, <2>2 DEF PublishCompleted, Published, PublishFails, Unencodable, Now
<1>4. CASE Append1("COMPLETED", "NONE") /\ rc' = 0 /\ Pass("close")
  BY <1>1, <1>2, <1>3, <1>4 DEF Pass, MainOK
<1>5. CASE Raise("TERMINAL_EVENT_PUBLICATION_FAILED") /\ UNCHANGED rc
  BY <1>1, <1>2, <1>3, <1>5 DEF Raise, MainOK
<1> QED BY <1>4, <1>5 DEF PublishCompleted, Published

\* FAILED, for a failed result or for the exception in flight.
LEMMA FailureKeeps ==
  ASSUME DriverInv, ReportInference \/ Except
  PROVE  DriverInv'
<1> USE PlanFacts DEF DriverInv, Points, Early
<1>0. /\ rc # 0 /\ status # "SUCCEEDED" /\ "FAILED" \in Nonterminal \cup Terminal
      /\ "INFERENCE_FAILED" \in Codes /\ "EXECUTION_FAILED" \in Codes
  BY DEF ReportInference, Except, Running, MainOK, Terminal, Codes
<1>1. UNCHANGED <<op, ran, status, step>> /\ Len(Plan[op])' = Len(Plan[op])
      /\ rc' # 0
  BY <1>0 DEF ReportInference, Except, Calm, chosen, ray, Pass, Raise
<1>2. CASE ReportInference
  <2>1. Append1("FAILED", "INFERENCE_FAILED") \/ UNCHANGED events
    BY <1>2 DEF ReportInference, Published, PublishFails
  <2>2. events' \in Seq(Event)
    BY <1>0, <2>1, AppendFacts
  <2>3. ran # "succeeded" /\ pc' \in {"close", "except"} /\ raised' \in Codes
    BY <1>0, <1>2 DEF ReportInference, Running, MainOK, Pass, Raise
  <2> QED BY <1>0, <1>1, <2>2, <2>3 DEF MainOK
<1>3. CASE Except
  <2>1. Append1("FAILED", raised) \/ UNCHANGED events
    BY <1>3 DEF Except, Published, PublishFails
  <2>2. events' \in Seq(Event)
    BY <1>0, <2>1, AppendFacts
  <2>3. pc' = "close" /\ UNCHANGED raised /\ pc = "except"
    BY <1>3 DEF Except, Pass, Running
  <2>4. ran = "succeeded" =>
          \A i \in 1..Len(events') :
            events'[i] # [type |-> "FAILED", code |-> "EXECUTION_FAILED"]
    <3> SUFFICES ASSUME ran = "succeeded", NEW i \in 1..Len(events')
                 PROVE  events'[i] # [type |-> "FAILED", code |-> "EXECUTION_FAILED"]
      OBVIOUS
    <3>1. raised = "TERMINAL_EVENT_PUBLICATION_FAILED"
          /\ \A j \in 1..Len(events) :
               events[j] # [type |-> "FAILED", code |-> "EXECUTION_FAILED"]
      BY <2>3 DEF MainOK
    <3>2. CASE UNCHANGED events
      BY <3>1, <3>2
    <3>3. CASE Append1("FAILED", raised)
      <4>1. /\ Len(events') = Len(events) + 1 /\ Len(events) \in Nat
            /\ events'[Len(events) + 1] = [type |-> "FAILED", code |-> raised]
            /\ \A j \in 1..Len(events) : events'[j] = events[j]
        BY <1>0, <3>3, AppendFacts
      <4>2. CASE i = Len(events) + 1
        BY <3>1, <4>1, <4>2
      <4>3. CASE i \in 1..Len(events)
        BY <3>1, <4>1, <4>3
      <4> QED BY <4>1, <4>2, <4>3
    <3> QED BY <2>1, <3>2, <3>3
  <2> QED BY <1>0, <1>1, <2>2, <2>3, <2>4 DEF MainOK
<1> QED BY <1>2, <1>3

\* The end of the process, and what Ray does to it.
LEMMA RayKeeps ==
  ASSUME DriverInv, Exit \/ Start \/ AskStop \/ Stopped \/ Lost \/ UNCHANGED vars
  PROVE  DriverInv'
<1>1. UNCHANGED <<op, pc, step, ran, raised, rc, events>>
  BY DEF Exit, Start, AskStop, Stopped, Lost, RayGives, chosen, main, vars
<1>2. status' = "SUCCEEDED" => pc = "close" /\ rc = 0
  BY DEF Exit, Running, Start, AskStop, Stopped, Lost, RayGives, vars, DriverInv,
         MainOK, chosen, main
<1> QED BY <1>1, <1>2 DEF DriverInv, Points, MainOK, Quiet, Finished, RunStep, Early

\* What main knows at each of its points holds in every state of the driver.
THEOREM DriverInvariant == Spec => []DriverInv
<1>1. Init => DriverInv
  <2> SUFFICES ASSUME Init PROVE DriverInv
    OBVIOUS
  <2>1. op \in {"training", "batch_inference"}
    BY DEF Init, Plan
  <2>2. 1 \in 1..Len(Plan[op])
    BY <2>1 DEF Plan
  <2> QED BY <2>1, <2>2 DEF Init, DriverInv, Points, MainOK, Quiet, Early, Codes
<1>2. DriverInv /\ [Next]_vars => DriverInv'
  BY SilentSteps, RunStepKeeps, NonterminalKeeps, CompletedKeeps, FailureKeeps,
     RayKeeps DEF Next, MainStep, Over
<1> QED BY <1>1, <1>2, PTL DEF Spec

-----------------------------------------------------------------------------

\* A job Ray calls SUCCEEDED has run its workload and said COMPLETED, last and
\* as its only terminal event, whatever failed on the way.
THEOREM SuccessIsAnnounced == Spec => []SucceededSaidCompleted
<1>1. DriverInv => SucceededSaidCompleted
  <2> SUFFICES ASSUME DriverInv, status = "SUCCEEDED"
               PROVE  /\ ran = "succeeded" /\ TerminalEvents = {Len(events)}
                      /\ Said("COMPLETED", "NONE")
    BY DEF SucceededSaidCompleted
  <2>1. ran = "succeeded" /\ Finished /\ events \in Seq(Event)
    BY DEF DriverInv, MainOK, Points
  <2>2. DOMAIN events = 1..Len(events) /\ Len(events) \in Nat
    BY <2>1
  <2>3. Said("COMPLETED", "NONE")
    BY <2>1, <2>2 DEF Said, Contains, Finished
  <2>4. Nonterminal \cap Terminal = {} /\ "COMPLETED" \in Terminal
    BY DEF Nonterminal, Terminal
  <2>5. ASSUME NEW i \in 1..Len(events), i # Len(events)
        PROVE  events[i].type \notin Terminal
    <3>0. ASSUME NEW n \in Nat, i \in 1..n, i # n PROVE i \in 1..(n - 1)
      BY <3>0
    <3>1. i \in 1..(Len(events) - 1)
      BY <2>2, <2>5, <3>0
    <3>2. events[i].type \in Nonterminal
      BY <2>1, <3>1 DEF Finished
    <3> QED BY <2>4, <3>2
  <2>6. Len(events) \in 1..Len(events)
    BY <2>1, <2>2 DEF Finished
  <2>7. TerminalEvents = {Len(events)}
    <3>1. events[Len(events)].type \in Terminal
      BY <2>1, <2>4 DEF Finished
    <3> QED BY <2>2, <2>5, <2>6, <3>1 DEF TerminalEvents
  <2> QED BY <2>1, <2>3, <2>7
<1> QED BY <1>1, DriverInvariant, PTL

\* A successful workload is never reported EXECUTION_FAILED, however many
\* publications fail.
THEOREM SuccessStands == Spec => []SuccessNotReplaced
<1>1. DriverInv => SuccessNotReplaced
  BY DEF DriverInv, MainOK, SuccessNotReplaced, Said, Contains
<1> QED BY <1>1, DriverInvariant, PTL

\* The driver reads the input that was packed for its job, of any size and with
\* any accepted env_vars; stale variables of the node can only hide it.
THEOREM ReadsOwnInput == Spec => []OwnInput
<1>1. Init => OwnInput
  <2> SUFFICES ASSUME Init PROVE OwnInput
    OBVIOUS
  <2>1. PICK config \in ConfigEnvs :
          /\ Accepted(config) /\ env = Overlay(node, Pack(sent, config).env)
          /\ package = Pack(sent, config).package
    BY DEF Init
  <2>2. sent.len \in Nat /\ sent.text # Absent /\ PACKAGE # Absent
    BY DriverAssumption DEF Init
  <2>3. CASE sent.len <= INLINE_LIMIT
    BY <2>1, <2>2, <2>3 DEF OwnInput, Read, Overlay, Pack, Env, Clean
  <2>4. CASE ~(sent.len <= INLINE_LIMIT)
    BY <2>1, <2>2, <2>4 DEF OwnInput, Read, Overlay, Pack, Env, Clean
  <2> QED BY <2>3, <2>4
<1>2. OwnInput /\ [Next]_vars => OwnInput'
  <2> SUFFICES ASSUME OwnInput, [Next]_vars PROVE UNCHANGED <<sent, node, env, package>>
    BY DEF OwnInput, Read, Clean
  <2> QED BY DEF Next, MainStep, LoadDriverInput, Connect, ResolveCredential, InitRay,
         PublishNonterminal, Prepare, Run, Dump, PublishCompleted, ReportInference,
         Except, Exit, Start, AskStop, Stopped, Lost, RayGives, Over, Calm, chosen, vars
<1> QED BY <1>1, <1>2, PTL DEF Spec

-----------------------------------------------------------------------------
(* Types.                                                                  *)

\* What Points leaves open of the types.
Rest ==
  /\ sent \in Inputs /\ result \in [metrics: BOOLEAN, whole: BOOLEAN]
  /\ status \in {"PENDING", "RUNNING", "STOPPED", "SUCCEEDED", "FAILED"}
  /\ stopAsked \in BOOLEAN /\ tries \in 0..1
  /\ input \in {i.text : i \in Inputs} \cup {Absent}
  /\ ran \in {"no", "succeeded", "failed", "raised"} /\ rc \in 0..2
  /\ faults \in 0..MaxFaults

\* Every variable keeps its type, for every number of failing calls: the retry
\* counter of _publish_nonterminal never passes one, the plan never runs past its
\* end, and the process has read nothing that was not packed for it.
THEOREM DriverTypes == Spec => []TypeOK
<1>1. Init => Rest
  <2>1. Init => result \in [metrics: BOOLEAN, whole: BOOLEAN] /\ stopAsked \in BOOLEAN
    BY Zenon DEF Init
  <2>2. Init => tries \in 0..1 /\ rc \in 0..2 /\ faults \in 0..MaxFaults
    BY DriverAssumption DEF Init
  <2> QED BY <2>1, <2>2, Zenon DEF Init, Rest
<1>2. OwnInput /\ Rest /\ [Next]_vars => Rest'
  <2> SUFFICES ASSUME OwnInput, Rest, [Next]_vars PROVE Rest'
    OBVIOUS
  <2> USE DriverAssumption DEF Rest
  <2>1. ASSUME Fault \/ UNCHANGED faults PROVE faults' \in 0..MaxFaults
    BY <2>1 DEF Fault
  <2>2. CASE LoadDriverInput
    <3>1. input' \in {i.text : i \in Inputs} \cup {Absent}
      BY <2>2 DEF LoadDriverInput, OwnInput
    <3> QED BY <2>2, <3>1 DEF LoadDriverInput, Die, chosen, ray
  <2>3. CASE Connect \/ ResolveCredential \/ InitRay
    BY <2>3 DEF Connect, ResolveCredential, InitRay, Die, Pass, Raise, Calm, chosen, ray
  <2>4. CASE Prepare \/ Run \/ Dump
    BY <2>4 DEF Prepare, Run, Dump, Follow, Raise, Pass, Calm, chosen, ray
  <2>5. CASE PublishNonterminal
    <3>1. Fault \/ UNCHANGED faults
      BY <2>5 DEF PublishNonterminal, Published, PublishFails, Unencodable
    <3>2. tries' \in 0..1
      BY <2>5 DEF PublishNonterminal, SecondFailure, Follow
    <3> QED BY <2>1, <2>5, <3>1, <3>2 DEF PublishNonterminal, Calm, chosen, ray
  <2>6. CASE PublishCompleted \/ ReportInference \/ Except
    <3>1. Fault \/ UNCHANGED faults
      BY <2>6 DEF PublishCompleted, ReportInference, Except, Published, PublishFails,
                  Unencodable
    <3>2. UNCHANGED tries /\ rc' \in {rc, 0, 2}
      BY <2>6 DEF PublishCompleted, ReportInference, Except, Pass, Raise
    <3> QED BY <2>1, <2>6, <3>1, <3>2
            DEF PublishCompleted, ReportInference, Except, Calm, chosen, ray
  <2>7. CASE Exit \/ Start \/ AskStop \/ Stopped \/ Lost \/ UNCHANGED vars
    BY <2>7 DEF Exit, Start, AskStop, Stopped, Lost, RayGives, chosen, main, vars
  <2> QED BY <2>2, <2>3, <2>4, <2>5, <2>6, <2>7 DEF Next, MainStep, Over
<1>3. DriverInv /\ Rest => TypeOK
  <2> SUFFICES ASSUME DriverInv, Rest PROVE TypeOK
    OBVIOUS
  <2>1. DOMAIN Plan = {"training", "batch_inference"}
        /\ DOMAIN Plan[op] = 1..Len(Plan[op])
    BY DEF Plan, DriverInv, Points
  <2> QED BY <2>1 DEF TypeOK, DriverInv, Points, Early, Rest, Event
<1> QED BY <1>1, <1>2, <1>3, DriverInvariant, ReadsOwnInput, PTL DEF Spec

-----------------------------------------------------------------------------
(* The exit of a driver none of whose calls failed.                        *)

\* One terminal event has been said, last, and it is FAILED.
EndsFailed ==
  /\ Len(events) > 0
  /\ events[Len(events)].type = "FAILED"
  /\ \A i \in 1..(Len(events) - 1) : events[i].type \in Nonterminal

\* An exception has nothing terminal before it, and an error return has said it.
ExitInv ==
  faults = 0 => /\ pc = "except" => Quiet
                /\ pc = "close" /\ rc # 0 => EndsFailed

\* A FAILED event closes a stream without a terminal event.
LEMMA FailedEnds ==
  ASSUME events \in Seq(Event), Quiet, NEW code \in Codes, Append1("FAILED", code)
  PROVE  EndsFailed'
<1>1. "FAILED" \in Nonterminal \cup Terminal
  BY DEF Terminal
<1>2. /\ Len(events') = Len(events) + 1 /\ Len(events) \in Nat
      /\ events'[Len(events) + 1] = [type |-> "FAILED", code |-> code]
      /\ \A i \in 1..Len(events) : events'[i] = events[i]
  BY <1>1, AppendFacts, Zenon
<1>3. Len(events') - 1 = Len(events) /\ Len(events') > 0
  BY <1>2
<1>4. events'[Len(events')].type = "FAILED"
  BY <1>2
<1>5. \A i \in 1..(Len(events') - 1) : events'[i].type \in Nonterminal
  BY <1>2, <1>3 DEF Quiet
<1> QED BY <1>3, <1>4, <1>5 DEF EndsFailed

\* What an exit without failing calls rests on is inductive.
LEMMA ExitInductive ==
  ASSUME DriverInv, DriverInv', Rest, ExitInv, [Next]_vars
  PROVE  ExitInv'
<1> SUFFICES ASSUME faults' = 0
             PROVE  /\ pc' = "except" => Quiet'
                    /\ pc' = "close" /\ rc' # 0 => EndsFailed'
  BY DEF ExitInv
<1>0. ~Fault
  BY DriverAssumption DEF Fault, Rest
<1> USE DEF DriverInv, Points, MainOK, ExitInv, Early
<1>1. CASE LoadDriverInput \/ Connect
  BY <1>1 DEF LoadDriverInput, Connect, Die, Running, ray
<1>2. CASE ResolveCredential \/ InitRay \/ Prepare \/ Run \/ Dump
  <2>1. UNCHANGED <<events, faults>> /\ Quiet /\ pc' # "close"
    BY <1>2 DEF ResolveCredential, InitRay, Prepare, Run, Dump, Running, Pass, Raise,
                Follow
  <2> QED BY <2>1 DEF Quiet
<1>3. CASE PublishNonterminal
  BY <1>3 DEF PublishNonterminal, SecondFailure, Follow, Running
<1>4. CASE PublishCompleted
  <2>1. pc = "plan" /\ Quiet
    BY <1>4 DEF PublishCompleted, Running
  <2>2. CASE rc' = 0 /\ Pass("close")
    BY <2>2 DEF Pass
  <2>3. CASE Unencodable /\ Raise("TERMINAL_EVENT_PUBLICATION_FAILED")
    BY <2>1, <2>3 DEF Unencodable, Raise, Quiet
  <2> QED BY <1>0, <1>4, <2>2, <2>3 DEF PublishCompleted, PublishFails
<1>5. CASE ReportInference
  <2>1. Quiet /\ Append1("FAILED", "INFERENCE_FAILED") /\ pc' = "close"
        /\ "INFERENCE_FAILED" \in Codes
    BY <1>0, <1>5 DEF ReportInference, Running, Published, PublishFails, Pass, Codes
  <2> QED BY <2>1, FailedEnds
<1>6. CASE Except
  <2>1. Append1("FAILED", raised) /\ pc' = "close" /\ pc = "except" /\ faults = 0
    BY <1>0, <1>6 DEF Except, Running, Published, PublishFails, Pass
  <2> QED BY <2>1, FailedEnds
<1>7. CASE Exit \/ Start \/ AskStop \/ Stopped \/ Lost \/ UNCHANGED vars
  BY <1>7 DEF Exit, Start, AskStop, Stopped, Lost, RayGives, main, vars, Quiet, EndsFailed
<1> QED BY <1>1, <1>2, <1>3, <1>4, <1>5, <1>6, <1>7 DEF Next, MainStep, Over

\* A stream that ends with its only terminal event has one of them.
LEMMA LastOnly ==
  ASSUME events \in Seq(Event), Len(events) > 0,
         events[Len(events)].type \in Terminal,
         \A i \in 1..(Len(events) - 1) : events[i].type \in Nonterminal
  PROVE  TerminalEvents = {Len(events)}
<1>1. DOMAIN events = 1..Len(events) /\ Len(events) \in Nat
  OBVIOUS
<1>2. Nonterminal \cap Terminal = {}
  BY DEF Nonterminal, Terminal
<1>3. ASSUME NEW i \in 1..Len(events), i # Len(events)
      PROVE  events[i].type \notin Terminal
  <2>1. ASSUME NEW n \in Nat, i \in 1..n, i # n PROVE i \in 1..(n - 1)
    BY <2>1
  <2>2. i \in 1..(Len(events) - 1)
    BY <1>1, <1>3, <2>1
  <2> QED BY <1>2, <2>2
<1>4. Len(events) \in 1..Len(events)
  BY <1>1
<1> QED BY <1>1, <1>3, <1>4 DEF TerminalEvents

\* A driver that comes to its end without a failing call has said one terminal
\* event, COMPLETED exactly when it returns 0, on every path through main.
THEOREM ExitIsTold == Spec => []ExitSaysOne
<1>1. Init => ExitInv
  BY DEF Init, ExitInv
<1>2. DriverInv /\ Rest /\ ExitInv => ExitSaysOne
  <2> SUFFICES ASSUME DriverInv, Rest, ExitInv, pc = "close", faults = 0
               PROVE  /\ Cardinality(TerminalEvents) = 1
                      /\ rc = 0 <=> Said("COMPLETED", "NONE")
    BY DEF ExitSaysOne
  <2>1. events \in Seq(Event)
    BY DEF DriverInv, Points
  <2>2. rc = 0 => Finished
    BY DEF DriverInv, MainOK
  <2>3. rc # 0 => EndsFailed
    BY DEF ExitInv
  <2>4. TerminalEvents = {Len(events)}
    BY <2>1, <2>2, <2>3, LastOnly DEF Finished, EndsFailed, Terminal
  <2>5. Cardinality(TerminalEvents) = 1
    BY <2>4, FS_Singleton
  <2>6. DOMAIN events = 1..Len(events) /\ Len(events) \in Nat
    BY <2>1
  <2>7. ASSUME rc = 0 PROVE Said("COMPLETED", "NONE")
    BY <2>2, <2>6, <2>7 DEF Said, Contains, Finished
  <2>8. ASSUME Said("COMPLETED", "NONE"), rc # 0 PROVE FALSE
    <3>1. PICK i \in 1..Len(events) :
            events[i] = [type |-> "COMPLETED", code |-> "NONE"]
      BY <2>6, <2>8 DEF Said, Contains
    <3>2. i \in TerminalEvents
      BY <2>6, <3>1 DEF TerminalEvents, Terminal
    <3> QED BY <2>3, <2>4, <2>8, <3>1, <3>2 DEF EndsFailed
  <2> QED BY <2>5, <2>7, <2>8
<1>3. DriverInv /\ DriverInv' /\ Rest /\ ExitInv /\ [Next]_vars => ExitInv'
  BY ExitInductive
<1>4. TypeOK => Rest
  BY DEF TypeOK, Rest
<1> QED BY <1>1, <1>2, <1>3, <1>4, DriverInvariant, DriverTypes, PTL DEF Spec


-----------------------------------------------------------------------------
(***************************************************************************)
(* ExecutionDriver implements the driver of RayJobs: each call of main is  *)
(* one of its steps or none, for all inputs and any number of failures.    *)
(***************************************************************************)

-----------------------------------------------------------------------------
(* What the mapping needs beside DriverInv.                                *)

\* The codes the except clauses of main report.
Excepted == {"CREDENTIAL_UNAVAILABLE", "EXECUTION_FAILED",
             "TERMINAL_EVENT_PUBLICATION_FAILED"}

\* A failed result leads to the report, an exception in flight has a code, and no
\* event of the plan is published more than twice.
PathInv ==
  /\ pc \in Early => ran = "no"
  /\ pc = "plan" => ran \in {"no", "succeeded"}
  /\ pc = "report" => ran = "failed"
  /\ pc = "except" => raised \in Excepted
  /\ pc = "except" /\ ran = "failed" => raised = "EXECUTION_FAILED"
  /\ pc \in Early \cup {"plan"} => Len(events) <= 2 * (step - 1) + tries

\* An XADD adds one event at most.
LEMMA OneMore ==
  ASSUME events \in Seq(Event), NEW type \in Nonterminal \cup Terminal,
         NEW code \in Codes, Append1(type, code) \/ UNCHANGED events
  PROVE  /\ Len(events) \in Nat /\ Len(events') \in Nat
         /\ Len(events') <= Len(events) + 1
<1>1. CASE Append1(type, code)
  <2>1. Len(events') = Len(events) + 1 /\ Len(events) \in Nat
    BY <1>1, AppendFacts, Zenon
  <2> QED BY <2>1
<1>2. CASE UNCHANGED events
  BY <1>2
<1> QED BY <1>1, <1>2

\* PathInv is inductive.
LEMMA PathInductive ==
  ASSUME DriverInv, Rest, PathInv, [Next]_vars
  PROVE  PathInv'
<1> USE DEF PathInv, Early, Excepted
<1>0. /\ op \in {"training", "batch_inference"} /\ step \in 1..Len(Plan[op])
      /\ events \in Seq(Event) /\ tries \in 0..1 /\ step \in Nat /\ tries \in Nat
  BY PlanFacts DEF DriverInv, Points, Rest
<1>1. CASE LoadDriverInput \/ Connect
  BY <1>1 DEF LoadDriverInput, Connect, Die, Running, ray
<1>2. CASE ResolveCredential \/ InitRay
  BY <1>2 DEF ResolveCredential, InitRay, Running, Pass, Raise
<1>3. CASE Prepare \/ Dump
  <2>1. UNCHANGED <<events, ran>> /\ pc = "plan"
    BY <1>3 DEF Prepare, Dump, Running
  <2>2. CASE Follow(step + 1)
    BY <1>0, <2>1, <2>2 DEF Follow
  <2>3. CASE \E code \in Excepted : Raise(code)
    BY <2>1, <2>3 DEF Raise
  <2> QED BY <1>3, <2>2, <2>3 DEF Prepare, Dump
<1>4. CASE Run
  <2>1. UNCHANGED events /\ pc = "plan"
    BY <1>4 DEF Run, Running
  <2>2. CASE ran' = "succeeded" /\ Follow(step + 1)
    BY <1>0, <2>1, <2>2 DEF Follow
  <2>3. CASE Raise("EXECUTION_FAILED")
    BY <2>1, <2>3 DEF Raise
  <2>4. CASE ran' = "failed" /\ Pass("report")
    BY <2>1, <2>4 DEF Pass
  <2> QED BY <1>4, <2>2, <2>3, <2>4 DEF Run
<1>5. CASE PublishNonterminal
  <2>1. pc = "plan" /\ UNCHANGED <<ran, pc>> /\ Now \in Nonterminal \cup Terminal
    BY <1>5 DEF PublishNonterminal, Running, SecondFailure, Follow
  <2>2. Append1(Now, "NONE") \/ UNCHANGED events
    BY <1>5 DEF PublishNonterminal, Published, PublishFails, Unencodable
  <2>3. "NONE" \in Codes
    BY DEF Codes
  <2>4. Len(events) \in Nat /\ Len(events') \in Nat /\ Len(events') <= Len(events) + 1
    BY <1>0, <2>1, <2>2, <2>3, OneMore
  <2>5. \/ step' = step + 1 /\ tries' = 0
        \/ step' = step /\ tries = 0 /\ tries' = 1
    BY <1>5 DEF PublishNonterminal, SecondFailure, Follow
  <2>6. Len(events') <= 2 * (step' - 1) + tries'
    BY <1>0, <2>1, <2>4, <2>5
  <2> QED BY <2>1, <2>6
<1>6. CASE PublishCompleted
  BY <1>6 DEF PublishCompleted, Running, Pass, Raise
<1>7. CASE ReportInference \/ Except
  BY <1>7 DEF ReportInference, Except, Pass, Raise
<1>8. CASE Exit \/ Start \/ AskStop \/ Stopped \/ Lost \/ UNCHANGED vars
  BY <1>8 DEF Exit, Start, AskStop, Stopped, Lost, RayGives, main, vars
<1> QED BY <1>1, <1>2, <1>3, <1>4, <1>5, <1>6, <1>7, <1>8 DEF Next, MainStep, Over

\* Every point of main is reached along the paths of the code.
LEMMA PathInvariant == Spec => []PathInv
<1>1. Init => PathInv
  BY DEF Init, PathInv, Early
<1>2. DriverInv /\ Rest /\ PathInv /\ [Next]_vars => PathInv'
  BY PathInductive
<1>3. TypeOK => Rest
  BY DEF TypeOK, Rest
<1> QED BY <1>1, <1>2, <1>3, DriverInvariant, DriverTypes, PTL DEF Spec

-----------------------------------------------------------------------------
(* The mapping.                                                            *)

\* How an event is seen from the life cycle.
MapType(type) == IF type \in Nonterminal THEN "PROGRESS" ELSE type
MapCode(code) ==
  IF code \in {"CREDENTIAL_UNAVAILABLE", "INFERENCE_FAILED"}
    THEN "EXECUTION_FAILED" ELSE code
Seen(type, code) == Ray!DriverEvent(It, MapType(type), MapCode(code))

\* An event appended by the driver is appended to the mapped stream.
LEMMA EventsAppend ==
  ASSUME events \in Seq(Event), NEW type \in Nonterminal \cup Terminal,
         NEW code \in Codes, Append1(type, code)
  PROVE  Events' = Append(Events, Seen(type, code))
<1>1. /\ events' \in Seq(Event) /\ Len(events') = Len(events) + 1
      /\ Len(events) \in Nat
      /\ events'[Len(events) + 1] = [type |-> type, code |-> code]
      /\ \A i \in 1..Len(events) : events'[i] = events[i]
  BY AppendFacts, Zenon
<1>2. DOMAIN events = 1..Len(events) /\ DOMAIN events' = 1..(Len(events) + 1)
  BY <1>1
<1> DEFINE n == Len(events)
           M(e) == [type |-> MapType(e.type), sub |-> It, code |-> MapCode(e.code)]
<1>3. Events = [i \in 1..n |-> M(events[i])]
  BY <1>2 DEF Events, MapType, MapCode
<1>4. Events' = [i \in 1..(n + 1) |-> M(events'[i])]
  BY <1>2 DEF Events, MapType, MapCode
<1>5. M(events'[n + 1]) = Seen(type, code)
  BY <1>1 DEF Seen, Ray!DriverEvent
<1>6. \A i \in 1..n : M(events'[i]) = M(events[i])
  BY <1>1
<1> HIDE DEF M
<1> DEFINE S == {M(events[i]) : i \in 1..n}
<1>a. \A i \in 1..n : M(events[i]) \in S
  OBVIOUS
<1> HIDE DEF S
<1>7. Events \in Seq(S) /\ Len(Events) = n
  <2>1. Events \in [1..n -> S] /\ n \in Nat
    BY <1>1, <1>3, <1>a
  <2> QED BY <2>1
<1>8. Append(Events, Seen(type, code)) =
        [i \in 1..(n + 1) |-> IF i = n + 1 THEN Seen(type, code) ELSE M(events[i])]
  BY <1>1, <1>3, <1>7
<1>9. \A i \in 1..(n + 1) :
        M(events'[i]) = IF i = n + 1 THEN Seen(type, code) ELSE M(events[i])
  BY <1>1, <1>5, <1>6
<1> QED BY <1>4, <1>8, <1>9

\* The mapped job and stream, as the steps of RayJobs see them.
LEMMA Mapped ==
  /\ Ray!DriverKey(It) = Key
  /\ Job.driver = Driver /\ Job.status = status
  /\ Job.stopFor = IF stopAsked THEN "cancel" ELSE "none"
BY DEF Ray!DriverKey, Ray!KeyOf, Job, Key

\* The status of the mapped job changes with that of the process.
LEMMA StatusStep ==
  ASSUME NEW new, status' = new, UNCHANGED <<stopAsked, Driver>>
  PROVE  Ray!SetStatus(It, new)
<1>1. Job' = [Job EXCEPT !.status = new]
  BY DEF Job
<1> QED BY <1>1 DEF Ray!SetStatus

\* Where the mapped driver stands changes with the point of main.
LEMMA DriverStep ==
  ASSUME NEW new, UNCHANGED <<status, stopAsked>>, Driver' = new
  PROVE  Ray!SetDriver(It, new)
<1>1. Job' = [Job EXCEPT !.driver = new]
  BY DEF Job
<1> QED BY <1>1 DEF Ray!SetDriver

\* An XADD of the driver is an XADD of RayJobs, whether or not it raises; nothing
\* is trimmed from a stream this short.
LEMMA PublishStep ==
  ASSUME events \in Seq(Event), NEW type \in Nonterminal \cup Terminal,
         NEW code \in Codes
  PROVE  /\ Published(type, code) => Ray!Publish(Key, Seen(type, code))
         /\ PublishFails(type, code) => Ray!PublishRaises(Key, Seen(type, code))
<1>1. ASSUME Append1(type, code) PROVE Ray!AppendEvent(Key, Seen(type, code))
  <2>1. Events' = Append(Events, Seen(type, code))
    BY <1>1, EventsAppend
  <2>2. [k \in {Key} |-> Events]' =
          [[k \in {Key} |-> Events] EXCEPT ![Key] =
             Append([k \in {Key} |-> Events][Key], Seen(type, code))]
    BY <2>1
  <2>3. 0 \in 0..(Len(Events) + 1)
    <3>1. Len(events) \in Nat /\ DOMAIN Events = 1..Len(events)
      BY DEF Events
    <3>2. Len(Events) = Len(events)
      BY <3>1 DEF Events
    <3> QED BY <3>1, <3>2
  <2> QED BY <2>2, <2>3 DEF Ray!AppendEvent
<1>2. ASSUME UNCHANGED events PROVE UNCHANGED Events
  BY <1>2 DEF Events
<1> QED BY <1>1, <1>2
        DEF Published, PublishFails, Fault, Ray!Publish, Ray!PublishRaises, Ray!Fault

-----------------------------------------------------------------------------
(* Call by call.                                                           *)

Mapping == <<Job, Events, faults>>
RayAction == Ray!RayStep(It) \/ Ray!RequestStop(It, "cancel")

\* What the mapping sees of main while it is inside the plan or before it.
LEMMA StillExecuting ==
  ASSUME DriverInv, PathInv
  PROVE  /\ pc \in Early \cup {"plan", "report"} => Driver = "executing"
         /\ pc = "close" => Driver = IF rc = 0 THEN "completed" ELSE "failed"
         /\ pc # "close" => rc # 0
         /\ pc = "except" =>
              Driver = IF raised = "TERMINAL_EVENT_PUBLICATION_FAILED"
                         THEN "unpublished"
                       ELSE IF ran = "failed" THEN "failing" ELSE "executing"
BY DEF Driver, Early, DriverInv, MainOK, PathInv

\* Nothing the mapping shows has changed.
LEMMA Stutter ==
  ASSUME UNCHANGED <<status, stopAsked, events, faults, Driver>>
  PROVE  UNCHANGED Mapping
BY DEF Mapping, Job, Events

\* Ray: start, stop, loss; and the death of the process before its try.
LEMMA StatusSteps ==
  ASSUME NEW new, Live, status' = new, UNCHANGED <<stopAsked, events, faults, Driver>>,
         \/ new = "RUNNING" /\ status = "PENDING"
         \/ new \in {"FAILED", "STOPPED"}
  PROVE  Ray!RayStep(It)
<1>1. Ray!SetStatus(It, new)
  BY StatusStep
<1>2. UNCHANGED Events /\ UNCHANGED faults
  BY DEF Events
<1>3. Ray!Status(It) = status /\ (Ray!Live(It) <=> Live)
  BY DEF Ray!Status, Ray!Live, Ray!LiveStatus, Live, Job
<1>4. CASE new = "RUNNING"
  BY <1>1, <1>2, <1>3, <1>4 DEF Ray!RayStep, Ray!JobStarts, Ray!RedisSide,
     Ray!ProviderSide, Ray!mainVars, Ray!watchVars
<1>5. CASE new = "FAILED"
  BY <1>1, <1>2, <1>3, <1>5 DEF Ray!RayStep, Ray!JobLost, Ray!RedisSide,
     Ray!ProviderSide, Ray!mainVars, Ray!watchVars
<1>6. CASE new = "STOPPED"
  <2>1. Ray!StopTakesEffect(It) \/ Ray!ExternalStop(It)
    BY <1>1, <1>2, <1>3, <1>6 DEF Ray!StopTakesEffect, Ray!ExternalStop,
       Ray!RedisSide, Ray!ProviderSide, Ray!mainVars, Ray!watchVars
  <2> QED BY <2>1 DEF Ray!RayStep
<1> QED BY <1>4, <1>5, <1>6

\* Before the try, and the calls that publish nothing.
LEMMA SilentImplements ==
  ASSUME DriverInv, PathInv, DriverInv', PathInv',
         LoadDriverInput \/ Connect \/ ResolveCredential \/ InitRay \/ Prepare \/ Run
  PROVE  RayAction \/ UNCHANGED Mapping
<1>1. UNCHANGED <<events, faults, stopAsked>> /\ pc \in Early \cup {"plan"}
      /\ status = "RUNNING"
  BY DEF LoadDriverInput, Connect, ResolveCredential, InitRay, Prepare, Run, Running,
         Early, Die, Calm, ray
<1>2. Driver = "executing"
  BY <1>1, StillExecuting
<1>3. CASE (LoadDriverInput \/ Connect) /\ Die
  <2>1. UNCHANGED Driver
    BY <1>3 DEF LoadDriverInput, Connect, Die, Driver
  <2> QED BY <1>1, <1>3, <2>1, StatusSteps DEF Die, Live, RayAction
<1>4. CASE ~((LoadDriverInput \/ Connect) /\ Die)
  <2>1. UNCHANGED status
    BY <1>4 DEF LoadDriverInput, Connect, ResolveCredential, InitRay, Prepare, Run,
                Calm, ray
  <2>2. Driver' = "executing"
    <3>1. CASE pc' \in Early \cup {"plan", "report"}
      BY <3>1 DEF Driver, Early
    <3>2. CASE pc' = "except"
      <4>1. raised' # "TERMINAL_EVENT_PUBLICATION_FAILED" /\ ran' # "failed"
        BY <1>1, <3>2 DEF LoadDriverInput, Connect, ResolveCredential, InitRay,
           Prepare, Run, Raise, Pass, Follow, Die, PathInv, Early
      <4> QED BY <3>2, <4>1 DEF Driver
    <3> QED BY <1>1, <3>1, <3>2 DEF LoadDriverInput, Connect, ResolveCredential,
            InitRay, Prepare, Run, Raise, Pass, Follow, Die, Early
  <2> QED BY <1>1, <1>2, <2>1, <2>2, Stutter
<1> QED BY <1>3, <1>4

\* The number of PROGRESS events stays below any bound the mapping names.
LEMMA FewEvents ==
  ASSUME DriverInv, Rest, PathInv, pc = "plan"
  PROVE  Ray!Cardinality(Ray!ProgressEvents(It)) < 100
<1>1. /\ events \in Seq(Event) /\ Len(events) \in Nat /\ step \in 1..Len(Plan[op])
      /\ op \in {"training", "batch_inference"} /\ tries \in 0..1
  BY DEF DriverInv, Points, Rest
<1>2. Len(Plan[op]) <= 10 /\ Len(Plan[op]) \in Nat
  <2>1. CASE op = "training"
    BY <2>1 DEF Plan
  <2>2. CASE op = "batch_inference"
    BY <2>2 DEF Plan
  <2> QED BY <1>1, <2>1, <2>2
<1>3. Len(events) <= 19
  BY <1>1, <1>2 DEF PathInv
<1> DEFINE P == Ray!ProgressEvents(It)
<1>4. P \subseteq 1..Len(events)
  <2>1. DOMAIN Events = 1..Len(events)
    BY <1>1 DEF Events
  <2>2. Ray!DriverKey(It) = Key
    BY Mapped
  <2> QED BY <2>1, <2>2 DEF Ray!ProgressEvents
<1> HIDE DEF P
<1>5. IsFiniteSet(1..Len(events)) /\ Cardinality(1..Len(events)) = Len(events)
  <2> DEFINE n == Len(events)
  <2>1. n \in Nat
    BY <1>1
  <2> HIDE DEF n
  <2>2. /\ 1 \in Int /\ n \in Int
        /\ (IF 1 > n THEN 0 ELSE n - 1 + 1) = n
    BY <2>1
  <2>3. IsFiniteSet(1..n) /\ Cardinality(1..n) = n
    BY <2>2, FS_Interval, Zenon
  <2> QED BY <2>3 DEF n
<1>6. IsFiniteSet(P) /\ Cardinality(P) <= Len(events) /\ Cardinality(P) \in Nat
  BY <1>4, <1>5, FS_Subset, FS_CardinalityType
<1>7. Ray!Cardinality(P) = Cardinality(P)
  BY DEF Cardinality, Ray!Cardinality
<1>8. Ray!Cardinality(P) < 100
  BY <1>1, <1>3, <1>6, <1>7
<1> QED BY <1>8 DEF P

\* Nonterminal events are PROGRESS to the life cycle.
LEMMA NonterminalImplements ==
  ASSUME DriverInv, Rest, PathInv, PublishNonterminal
  PROVE  RayAction \/ UNCHANGED Mapping
<1>1. /\ pc = "plan" /\ status = "RUNNING" /\ Now \in Nonterminal \cup Terminal
      /\ UNCHANGED <<status, stopAsked, pc, ran, rc>> /\ events \in Seq(Event)
      /\ "NONE" \in Codes
  BY DEF PublishNonterminal, Running, Calm, ray, SecondFailure, Follow, DriverInv,
         Points, Codes
<1>2. Driver = "executing" /\ Driver' = "executing"
  BY <1>1 DEF Driver
<1>3. CASE Unencodable
  BY <1>1, <1>2, <1>3, Stutter DEF Unencodable
<1>4. CASE Published(Now, "NONE") \/ PublishFails(Now, "NONE")
  <2>1. Seen(Now, "NONE") = Ray!DriverEvent(It, "PROGRESS", "NONE")
    BY DEF PublishNonterminal, Seen, MapType, MapCode
  <2>2. \/ Ray!Publish(Key, Ray!DriverEvent(It, "PROGRESS", "NONE"))
        \/ Ray!PublishRaises(Key, Ray!DriverEvent(It, "PROGRESS", "NONE"))
    BY <1>1, <1>4, <2>1, PublishStep
  <2>3. Ray!Executing(It) /\ UNCHANGED Job
    BY <1>1, <1>2 DEF Ray!Executing, Ray!Status, Job
  <2>4. Ray!DriverProgress(It)
    BY <1>1, <2>2, <2>3, FewEvents, Mapped DEF Ray!DriverProgress, Ray!RedisSide,
       Ray!ProviderSide, Ray!mainVars, Ray!watchVars
  <2> QED BY <2>4 DEF RayAction, Ray!RayStep
<1> QED BY <1>3, <1>4 DEF PublishNonterminal

\* COMPLETED, and a result that cannot be dumped, encoded or published.
LEMMA CompletedImplements ==
  ASSUME DriverInv, PathInv, Dump \/ PublishCompleted
  PROVE  RayAction \/ UNCHANGED Mapping
<1>1. /\ pc = "plan" /\ status = "RUNNING" /\ UNCHANGED <<status, stopAsked, ran>>
      /\ events \in Seq(Event) /\ "NONE" \in Codes
      /\ "COMPLETED" \in Nonterminal \cup Terminal
  BY DEF Dump, PublishCompleted, Running, Calm, ray, DriverInv, Points, Codes, Terminal
<1>2. Driver = "executing"
  BY <1>1 DEF Driver
<1>3. Ray!Executing(It)
  BY <1>1, <1>2 DEF Ray!Executing, Ray!Status, Job
<1>4. Seen("COMPLETED", "NONE") = Ray!DriverEvent(It, "COMPLETED", "NONE")
  BY DEF Seen, MapType, MapCode, Nonterminal
<1>5. CASE Dump /\ Follow(step + 1)
  <2>1. Driver' = "executing" /\ UNCHANGED <<events, faults>>
    BY <1>1, <1>5 DEF Dump, Follow, Driver
  <2> QED BY <1>1, <1>2, <2>1, Stutter
<1>6. CASE /\ Published("COMPLETED", "NONE")
           /\ rc' = 0 /\ Pass("close")
  <2>1. Driver' = "completed"
    BY <1>6 DEF Pass, Driver
  <2>2. Ray!DriverCompletes(It)
    BY <1>1, <1>3, <1>4, <1>6, <2>1, DriverStep, PublishStep, Mapped
       DEF Ray!DriverCompletes, Ray!RedisSide, Ray!ProviderSide, Ray!mainVars,
           Ray!watchVars
  <2> QED BY <2>2 DEF RayAction, Ray!RayStep
<1>7. CASE /\ PublishFails("COMPLETED", "NONE") \/ UNCHANGED <<events, faults>>
           /\ Raise("TERMINAL_EVENT_PUBLICATION_FAILED")
  <2>1. Driver' = "unpublished"
    BY <1>1, <1>7 DEF Raise, Driver, PathInv
  <2>2. UNCHANGED <<events, faults>> => UNCHANGED <<Events, faults>>
    BY DEF Events
  <2>3. Ray!DriverCompletes(It)
    BY <1>1, <1>3, <1>4, <1>7, <2>1, <2>2, DriverStep, PublishStep, Mapped
       DEF Ray!DriverCompletes, Ray!RedisSide, Ray!ProviderSide, Ray!mainVars,
           Ray!watchVars
  <2> QED BY <2>3 DEF RayAction, Ray!RayStep
<1> QED BY <1>5, <1>6, <1>7 DEF Dump, PublishCompleted, Unencodable

\* FAILED, for a failed result and for an exception.
LEMMA FailureImplements ==
  ASSUME DriverInv, PathInv, ReportInference \/ Except
  PROVE  RayAction \/ UNCHANGED Mapping
<1>1. /\ status = "RUNNING" /\ UNCHANGED <<status, stopAsked, ran>>
      /\ events \in Seq(Event) /\ Codes # {}
      /\ "FAILED" \in Nonterminal \cup Terminal
  BY DEF ReportInference, Except, Running, Calm, ray, DriverInv, Points, Codes, Terminal
<1>2. Ray!DriverKey(It) = Key /\ Ray!Status(It) = "RUNNING" /\ Job.driver = Driver
  BY <1>1, Mapped DEF Ray!Status, Job
<1>3. ASSUME NEW code \in Codes, NEW seen, seen = MapCode(code),
             Published("FAILED", code) \/ PublishFails("FAILED", code)
      PROVE  \/ Ray!Publish(Key, Ray!DriverEvent(It, "FAILED", seen))
             \/ Ray!PublishRaises(Key, Ray!DriverEvent(It, "FAILED", seen))
  <2>1. Seen("FAILED", code) = Ray!DriverEvent(It, "FAILED", seen)
    BY <1>3 DEF Seen, MapType, Nonterminal
  <2> QED BY <1>1, <1>3, <2>1, PublishStep
<1>4. CASE ReportInference
  <2>1. Driver = "executing" /\ Ray!Executing(It) /\ "INFERENCE_FAILED" \in Codes
        /\ MapCode("INFERENCE_FAILED") = "EXECUTION_FAILED" /\ rc # 0 /\ ran = "failed"
    BY <1>1, <1>2, <1>4, StillExecuting
       DEF ReportInference, Running, Ray!Executing, Codes, MapCode, PathInv
  <2>2. CASE Published("FAILED", "INFERENCE_FAILED") /\ Pass("close")
    <3>1. Driver' = "failed"
      BY <1>4, <2>1, <2>2 DEF Pass, Driver, ReportInference
    <3>2. Ray!DriverReportsFailure(It, "EXECUTION_FAILED")
      BY <1>1, <1>2, <1>3, <2>1, <2>2, <3>1, DriverStep
         DEF Ray!DriverReportsFailure, Ray!RedisSide, Ray!ProviderSide,
             Ray!mainVars, Ray!watchVars
    <3> QED BY <2>1, <3>2 DEF RayAction, Ray!RayStep, Ray!DriverFails
  <2>3. CASE PublishFails("FAILED", "INFERENCE_FAILED") /\ Raise("EXECUTION_FAILED")
    <3>1. Driver' = "failing"
      BY <1>1, <2>1, <2>3 DEF Raise, Driver
    <3>2. Seen("FAILED", "INFERENCE_FAILED") =
            Ray!DriverEvent(It, "FAILED", "EXECUTION_FAILED")
      BY <2>1 DEF Seen, MapType, Nonterminal
    <3>3. Ray!PublishRaises(Key, Ray!DriverEvent(It, "FAILED", "EXECUTION_FAILED"))
      BY <1>1, <2>1, <2>3, <3>2, PublishStep
    <3>4. Ray!DriverFails(It)
      BY <1>1, <1>2, <2>1, <3>1, <3>3, DriverStep
         DEF Ray!DriverFails, Ray!RedisSide, Ray!ProviderSide, Ray!mainVars,
             Ray!watchVars
    <3> QED BY <3>4 DEF RayAction, Ray!RayStep
  <2> QED BY <1>4, <2>2, <2>3 DEF ReportInference
<1>5. CASE Except
  <2>1. /\ pc = "except" /\ pc' = "close" /\ raised \in Excepted /\ raised \in Codes
        /\ rc' # 0 /\ (Published("FAILED", raised) \/ PublishFails("FAILED", raised))
    BY <1>5, StillExecuting DEF Except, Running, Pass, PathInv, Excepted, Codes
  <2>2. Driver' = "failed"
    BY <2>1 DEF Driver
  <2>3. Ray!DriverReportsFailure(It, MapCode(raised))
    BY <1>1, <1>2, <1>3, <2>1, <2>2, DriverStep
       DEF Ray!DriverReportsFailure, Ray!RedisSide, Ray!ProviderSide, Ray!mainVars,
           Ray!watchVars
  <2>4. MapCode(raised) = IF raised = "TERMINAL_EVENT_PUBLICATION_FAILED"
                            THEN raised ELSE "EXECUTION_FAILED"
    BY <2>1 DEF MapCode, Excepted
  <2>5. Ray!DriverFails(It) \/ Ray!DriverExcept(It)
    BY <1>2, <2>1, <2>3, <2>4, StillExecuting
       DEF Ray!DriverFails, Ray!DriverExcept, Ray!Executing
  <2> QED BY <2>5 DEF RayAction, Ray!RayStep
<1> QED BY <1>4, <1>5

\* The exit of the process, and what Ray does to it.
LEMMA RayImplements ==
  ASSUME DriverInv, PathInv,
         Exit \/ Start \/ AskStop \/ Stopped \/ Lost \/ UNCHANGED vars
  PROVE  RayAction \/ UNCHANGED Mapping
<1>1. UNCHANGED <<events, faults, Driver>>
  BY DEF Exit, Start, AskStop, Stopped, Lost, RayGives, vars, main, Driver
<1>2. CASE UNCHANGED vars
  BY <1>1, <1>2, Stutter DEF vars
<1>3. CASE Start \/ Stopped \/ Lost
  BY <1>1, <1>3, StatusSteps DEF Start, Stopped, Lost, RayGives, Live, RayAction
<1>4. CASE AskStop
  <2>1. UNCHANGED status /\ Live /\ ~stopAsked /\ stopAsked'
    BY <1>4 DEF AskStop
  <2>2. Job' = [Job EXCEPT !.stopFor = "cancel"]
    BY <1>1, <2>1 DEF Job
  <2>3. Ray!RequestStop(It, "cancel")
    BY <2>1, <2>2, Mapped
       DEF Ray!RequestStop, Ray!Live, Ray!Status, Ray!LiveStatus, Live
  <2> QED BY <2>3 DEF RayAction
<1>5. CASE Exit
  <2>1. status = "RUNNING" /\ pc = "close" /\ UNCHANGED stopAsked /\ Live
    BY <1>5 DEF Exit, Running, Live
  <2>2. CASE status' = "FAILED"
    BY <1>1, <2>1, <2>2, StatusSteps DEF RayAction
  <2>3. CASE status' = "SUCCEEDED" /\ rc = 0
    <3>1. Ray!SetStatus(It, "SUCCEEDED")
      BY <1>1, <2>1, <2>3, StatusStep
    <3>2. Driver = "completed"
      BY <2>1, <2>3 DEF Driver
    <3>3. UNCHANGED <<Events, faults>>
      BY <1>1 DEF Events
    <3>4. Ray!DriverExit(It)
      BY <2>1, <3>1, <3>2, <3>3, Mapped
         DEF Ray!DriverExit, Ray!Status, Ray!RedisSide, Ray!ProviderSide,
             Ray!mainVars, Ray!watchVars
    <3> QED BY <3>4 DEF RayAction, Ray!RayStep
  <2> QED BY <1>5, <2>2, <2>3 DEF Exit
<1> QED BY <1>2, <1>3, <1>4, <1>5

\* The detailed driver implements the one of the life cycle: whatever theorem
\* holds of RayJobs holds of main, with its retries, except clauses and exits.
THEOREM DriverImplementsRayJobs == Spec => ImplementsRayJobs
<1>1. DriverInv /\ DriverInv' /\ Rest /\ PathInv /\ PathInv' /\ [Next]_vars
        => RayAction \/ UNCHANGED Mapping
  BY SilentImplements, NonterminalImplements, CompletedImplements, FailureImplements,
     RayImplements DEF Next, MainStep, Over
<1>2. TypeOK => Rest
  BY DEF TypeOK, Rest
<1>3. DriverInv /\ DriverInv' /\ Rest /\ PathInv /\ PathInv' /\ [Next]_vars
        => [Ray!RayStep(It) \/ Ray!RequestStop(It, "cancel")]_<<Job, Events, faults>>
  BY <1>1 DEF RayAction, Mapping
<1> QED BY <1>2, <1>3, DriverInvariant, DriverTypes, PathInvariant, PTL
        DEF Spec, ImplementsRayJobs

=============================================================================
